--------------------------- MODULE CampaignRun_proof ---------------------------
(***************************************************************************)
(* Proofs about CampaignRun, for any waves, configurations, supports,      *)
(* times, gaps and numbers of restarts: RunInv is inductive, and from it   *)
(* follow the invariants of a campaign.                                    *)
(*                                                                         *)
(* The argument is about what a restart finds.  A tuning attempt that is   *)
(* committed is never measured again, and all are before the audit plan is *)
(* written, so that plan has a single value; what is on the other host is  *)
(* a part of what is on this one.  A job that measures no time finds what  *)
(* the results there are determine (Determined), and so are its plans.     *)
(* The DSS run is measured first and uploaded first: an MWU run that       *)
(* survives the loss of a host has the time of a DSS run that does too.    *)
(***************************************************************************)
EXTENDS CampaignRun, SequenceTheorems, FiniteSetTheorems, TLAPS

-----------------------------------------------------------------------------
\* What a step of the script adds to what the runner holds.
Loads(j) ==
    CASE j = "evidence" -> {"dss", "mwu", "full", "cg"}
      [] j = "sparse" -> {"dss", "mwu"}
      [] j = "transplant" -> {"source", "target"}
      [] OTHER -> {"core"}
Gives(j, e) ==
    CASE e.do = "attempt" -> Range(Parts(e.on))
      [] e.do = "solve" -> SolvedLabels(j)
      [] e.do = "load" -> Loads(j)
      [] OTHER -> {}
Before(j, p) == UNION {Gives(j, Script[j][i]) : i \in 1 .. (p - 1)}
Labels(j) == Before(j, Len(Script[j]) + 1)

Timing == {"tuning", "runtime", "sparse_runtime"}
Runtime == {"runtime", "sparse_runtime"}
CncJobs == {"source", "target", "core", "expanded", "nominal", "scaled", "selectors"}
AuditOf(j) ==
    CASE j = "tuning" -> "mwu_tuning_audit"
      [] j = "transplant" -> "transplant_audit"
      [] OTHER -> "formal_audit"

\* The q of a job that measures no time follows from the results there are.
Expected(res, j, l) ==
    CASE j = "evidence" -> res["runtime"].solvers[l].q
      [] j = "sparse" -> res["sparse_runtime"].solvers[l].q
      [] j = "transplant" -> res[l].solvers["platform"].q
      [] j = "expanded" /\ l = "core" -> res["core"].solvers["platform"].q
      [] OTHER -> Solved[j]
Determined(res, j) == [l \in Labels(j) |-> [q |-> Expected(res, j, l)]]

Sound(j, f) == \A l \in DOMAIN f : Freezable(f[l].q, PoliciesOf(j))
Follows(res, j, f) == j \notin Timing => \A l \in DOMAIN f : f[l].q = Expected(res, j, l)
Budgeted(f) == \A l \in DOMAIN f : IsMwu(l) => "dss" \in DOMAIN f /\ f[l].budget = f["dss"].time

\* A payload is measured in a game of the core library, MWU with the time of the DSS run
\* it has, or of the one that is committed.
First(store) == IF "dss" \in DOMAIN store.chunks THEN store.chunks["dss"] ELSE Nothing
PayloadOK(first, payload) ==
    \A l \in DOMAIN payload :
        /\ Freezable(payload[l].q, Core)
        /\ IsMwu(l) => IF "dss" \in DOMAIN payload THEN payload[l].budget = payload["dss"].time
                       ELSE "dss" \in DOMAIN first /\ payload[l].budget = first["dss"].time

StoreShape(store) ==
    /\ store = [chunks |-> store.chunks, plans |-> store.plans, blocks |-> store.blocks]
    /\ DOMAIN store.plans = AllStages /\ DOMAIN store.blocks = AllStages
    /\ store.plans = [s \in AllStages |-> store.plans[s]]

ChunksOK(j, store) ==
    /\ j # "tuning" => DOMAIN store.chunks = {}
    /\ \A key \in DOMAIN store.chunks :
        /\ DOMAIN store.chunks[key] = {key} /\ key \in Labels("tuning")
        /\ PayloadOK(First(store), store.chunks[key])

AttemptsOK(first, attempts) ==
    \A key \in DOMAIN attempts :
        /\ attempts[key] \in Seq(Range(attempts[key]))
        /\ \A i \in DOMAIN attempts[key] : attempts[key][i] # Nothing =>
            /\ DOMAIN attempts[key][i] = Range(Parts(key))
            /\ PayloadOK(first, attempts[key][i])

InChunks(store) == [l \in Labels("tuning") |-> store.chunks[l][l]]
TuningPlanOK(j, store) ==
    j = "tuning" /\ store.plans["mwu_tuning_audit"] # {} =>
        /\ Labels("tuning") \subseteq DOMAIN store.chunks
        /\ store.plans["mwu_tuning_audit"] = Plan("tuning", "mwu_tuning_audit", InChunks(store))

-----------------------------------------------------------------------------
WaveInv ==
    /\ wave \in Waves /\ faults \in FaultSets /\ turn \in 1 .. (Len(wave) + 1)
    /\ DOMAIN results = {wave[k] : k \in 1 .. (turn - 1)}

ScriptInv ==
    /\ pos \in 1 .. (Len(Script[Job]) + 1)
    /\ step \in {"look", "measure", "commit", "blocks"}
    /\ step # "look" => pos <= Len(Script[Job])
    /\ step \in {"measure", "commit"} => Now.do = "attempt"
    /\ step = "blocks" => Now.do = "stage"

Committed(f, store) ==
    \A l \in DOMAIN f : l \in DOMAIN store.chunks /\ store.chunks[l][l] = f[l]
HeldInv ==
    /\ DOMAIN held = Before(Job, pos)
    /\ Sound(Job, held) /\ Follows(results, Job, held)
    /\ Job \in Timed => Budgeted(held)
    /\ Job = "tuning" => Committed(held, disk.store)

TrialInv ==
    step \in {"measure", "commit"} =>
        /\ DOMAIN trial \subseteq Range(Parts(Now.on))
        /\ PayloadOK(First(disk.store), trial)
        /\ Now.on \notin DOMAIN disk.store.chunks
        /\ step = "commit" => DOMAIN trial = Range(Parts(Now.on))
        /\ step = "measure" => Now.on \in DOMAIN disk.attempts /\ disk.attempts[Now.on] # <<>>

DiskInv ==
    /\ disk = [store |-> disk.store, attempts |-> disk.attempts]
    /\ StoreShape(disk.store) /\ ChunksOK(Job, disk.store)
    /\ AttemptsOK(First(disk.store), disk.attempts)

\* The plans of the stages the runner has got to.
Planned == {i \in DOMAIN Script[Job] : i < pos \/ (i = pos /\ step = "blocks")}
PlannedInv ==
    \A i \in Planned : Script[Job][i].do = "stage" =>
        disk.store.plans[Script[Job][i].on] = Plan(Job, Script[Job][i].on, held)
DeterminedInv ==
    Job \notin Timing => \A s \in Range(StagesOf(Job)) :
        disk.store.plans[s] \in {{}, Plan(Job, s, Determined(results, Job))}
PlansInv ==
    /\ PlannedInv /\ DeterminedInv
    /\ faults # {"disk_lost", "slow_upload"} => TuningPlanOK(Job, disk.store)

Uploaded(store, source) ==
    /\ \A key \in DOMAIN store.chunks :
        key \in DOMAIN source.chunks /\ store.chunks[key] = source.chunks[key]
    /\ \A s \in AllStages : store.plans[s] \in {{}, source.plans[s]}
RemoteInv ==
    /\ StoreShape(remote) /\ ChunksOK(Job, remote) /\ Uploaded(remote, disk.store)
    /\ "slow_upload" \notin faults => TuningPlanOK(Job, remote)

\* The heartbeat uploads the DSS run first, and on a quick host all that there is.
TuningBeat(at, todo, store, kept, slow) ==
    /\ at = 1 =>
        /\ todo \subseteq {i \in DOMAIN Script["tuning"] : KeyAt(i) \in DOMAIN store.chunks}
        /\ todo # {} => 1 \in todo \/ "dss" \in DOMAIN kept.chunks
    /\ at > 0 /\ ~slow =>
        \A i \in DOMAIN Script["tuning"] : KeyAt(i) \in DOMAIN store.chunks =>
            KeyAt(i) \in DOMAIN kept.chunks \/ (at = 1 /\ i \in todo)
BeatInv ==
    /\ beat = [at |-> beat.at, todo |-> beat.todo]
    /\ beat.at \in 0 .. Len(StagesOf(Job)) /\ (beat.at = 0 => beat.todo = {})
    /\ Job = "tuning" => TuningBeat(beat.at, beat.todo, disk.store, remote, "slow_upload" \in faults)

SelectionInv ==
    Job \in Runtime /\ (pos > 1 \/ step # "look" \/ DOMAIN disk.attempts # {}) => selection # "none"

ResultOK(res, chosen, j, r) ==
    /\ r = [job |-> j, campaign |-> "this", smoke |-> FALSE, mechanism |-> r.mechanism,
            solvers |-> r.solvers, selection |-> r.selection, audited |-> r.audited,
            trained |-> r.trained, outcomes |-> r.outcomes]
    /\ r.mechanism = IF j = "transplant" THEN "none" ELSE MechanismOf(j)
    /\ DOMAIN r.solvers = Labels(j) /\ Sound(j, r.solvers) /\ Follows(res, j, r.solvers)
    /\ j \in Timed => Budgeted(r.solvers)
    /\ j \in Runtime => r.selection = chosen /\ chosen # "none"
    /\ j \notin Runtime => Plan(j, AuditOf(j), r.solvers) \subseteq r.audited
    /\ j \in {"evidence", "mixed"} => r.trained = Profiles(PoliciesOf(j))
    /\ j \in CncJobs => r.outcomes = UNION Supports(r.solvers)

ResultsInv == \A j \in DOMAIN results : ResultOK(results, selection, j, results[j])

JobInv ==
    turn <= Len(wave) =>
        /\ ScriptInv /\ HeldInv /\ TrialInv /\ DiskInv /\ PlansInv
        /\ RemoteInv /\ BeatInv /\ SelectionInv

ReportsInv ==
    /\ ReportsAreWhole
    /\ \A f \in DOMAIN reports : f \in Families /\ JobsRead(f) \subseteq DOMAIN results

RunInv == WaveInv /\ JobInv /\ ResultsInv /\ RestartGoesOn

-----------------------------------------------------------------------------
(* The scripts.                                                            *)

\* The update of a dict by another one.
LEMMA MergedIs ==
    ASSUME NEW f, NEW g
    PROVE  /\ DOMAIN Merged(f, g) = DOMAIN f \cup DOMAIN g
           /\ \A x \in DOMAIN f : Merged(f, g)[x] = f[x]
           /\ \A x \in DOMAIN g \ DOMAIN f : Merged(f, g)[x] = g[x]
BY DEF Merged

\* The update of a single key.
LEMMA WithIs ==
    ASSUME NEW f, NEW key, NEW value
    PROVE  /\ DOMAIN With(f, key, value) = DOMAIN f \cup {key}
           /\ With(f, key, value)[key] = value
           /\ \A x \in DOMAIN f \ {key} : With(f, key, value)[x] = f[x]
BY DEF With

Keys == Range(Configs) \cup {"dss", "pair", "full", "cg"}

\* The tuning configurations are a list, and none has the name of a solver.
LEMMA ConfigsAre ==
    /\ Len(Configs) \in Nat /\ Len(Configs) > 0 /\ DOMAIN Configs = 1 .. Len(Configs)
    /\ \A i \in 1 .. Len(Configs) :
        Configs[i] \in Range(Configs) /\ Configs[i] \notin {"dss", "mwu", "pair", "full", "cg", "none"}
    /\ \A c \in Range(Configs) : c \notin {"dss", "mwu", "pair", "full", "cg", "none"}
<1>1. Configs \in Seq(STRING) /\ Configs # <<>>
    BY ConfigAssumption
<1>2. Len(Configs) \in Nat /\ DOMAIN Configs = 1 .. Len(Configs) /\ Len(Configs) > 0
    BY <1>1
<1>3. \A c \in Range(Configs) : c \notin {"dss", "mwu", "pair", "full", "cg", "none"}
    BY ConfigAssumption
<1>4. \A i \in 1 .. Len(Configs) : Configs[i] \in Range(Configs)
    BY <1>2 DEF Range
<1> QED BY <1>2, <1>3, <1>4

\* The tuning job measures DSS, then every configuration, then audits them all.
LEMMA TuningScriptIs ==
    LET n == Len(Configs) IN
    /\ Len(TuningScript) = n + 2 /\ DOMAIN TuningScript = 1 .. (n + 2)
    /\ TuningScript[1] = Attempt("dss")
    /\ \A i \in 2 .. (n + 1) : TuningScript[i] = Attempt(Configs[i - 1])
    /\ TuningScript[n + 2] = Stage("mwu_tuning_audit")
<1> DEFINE n == Len(Configs)
           f(i) == CASE i = 1 -> Attempt("dss")
                     [] i = n + 2 -> Stage("mwu_tuning_audit")
                     [] OTHER -> Attempt(Configs[i - 1])
<1>1. n \in Nat /\ n > 0
    BY ConfigsAre
<1>2. TuningScript = [i \in 1 .. (n + 2) |-> f(i)]
    BY DEF TuningScript
<1> HIDE DEF n
<1>3. DOMAIN TuningScript = 1 .. (n + 2) /\ \A i \in 1 .. (n + 2) : TuningScript[i] = f(i)
    BY <1>2
<1>4. Len(TuningScript) = n + 2
    BY <1>1, <1>2
<1>5. TuningScript[1] = Attempt("dss")
    BY <1>1, <1>3
<1>6. \A i \in 2 .. (n + 1) : TuningScript[i] = Attempt(Configs[i - 1])
    BY <1>1, <1>3
<1>7. TuningScript[n + 2] = Stage("mwu_tuning_audit")
    BY <1>1, <1>3
<1> QED BY <1>3, <1>4, <1>5, <1>6, <1>7 DEF n

\* The scripts, spelled out.
LEMMA ScriptsAre ==
    /\ Jobs = {"tuning", "runtime", "sparse_runtime", "evidence", "sparse", "mixed", "source", "target", "core",
               "nominal", "scaled", "selectors", "expanded", "transplant"}
    /\ Script["tuning"] = TuningScript
    /\ Script["runtime"] = <<Attempt("pair"), Attempt("full"), Attempt("cg")>>
    /\ Script["sparse_runtime"] = <<Attempt("pair")>>
    /\ Script["evidence"] = <<Stage("training"), Load, Stage("formal_audit")>>
    /\ Script["sparse"] = <<Load, Stage("training"), Stage("formal_audit")>>
    /\ Script["mixed"] = <<Stage("training"), Solve, Stage("formal_audit")>>
    /\ Script["transplant"] = <<Load, Stage("transplant_audit")>>
    /\ Script["expanded"] =
        <<Stage("training"), Solve, Load, Stage("formal_audit"), Stage("outcome_evaluation")>>
    /\ \A j \in CncJobs \ {"expanded"} :
        Script[j] = <<Stage("training"), Solve, Stage("formal_audit"), Stage("outcome_evaluation")>>
<1>1. Jobs = {"tuning", "runtime", "sparse_runtime", "evidence", "sparse", "mixed", "source", "target", "core",
               "nominal", "scaled", "selectors", "expanded", "transplant"}
    BY DEF Jobs, Script
<1>2. /\ Script["tuning"] = TuningScript /\ Script["transplant"] = TransplantScript
      /\ Script["runtime"] = <<Attempt("pair"), Attempt("full"), Attempt("cg")>>
      /\ Script["sparse_runtime"] = <<Attempt("pair")>>
      /\ Script["evidence"] = EvidenceScript("benchmark") /\ Script["sparse"] = EvidenceScript("sparse")
      /\ Script["mixed"] = EvidenceScript("mixed") /\ Script["expanded"] = ExpandedScript
    BY DEF Script, RuntimeScript
<1>3. \A j \in CncJobs \ {"expanded"} : Script[j] = CncScript
    BY DEF Script, CncJobs
<1>4. /\ EvidenceScript("benchmark") = <<Stage("training"), Load, Stage("formal_audit")>>
      /\ EvidenceScript("sparse") = <<Load, Stage("training"), Stage("formal_audit")>>
      /\ EvidenceScript("mixed") = <<Stage("training"), Solve, Stage("formal_audit")>>
    BY DEF EvidenceScript
<1> QED BY <1>1, <1>2, <1>3, <1>4 DEF TransplantScript, CncScript, ExpandedScript

Evidence == {"evidence", "sparse", "mixed"}

\* The stages the heartbeat goes through, spelled out.
LEMMA StagesAre ==
    /\ Range(StagesOf("tuning")) = {"training", "mwu_tuning_audit"} /\ Len(StagesOf("tuning")) = 2
    /\ StagesOf("tuning")[1] = "training" /\ StagesOf("tuning")[2] = "mwu_tuning_audit"
    /\ Range(StagesOf("transplant")) = {"transplant_audit"}
    /\ \A j \in Evidence : Range(StagesOf(j)) = {"training", "formal_audit"}
    /\ \A j \in CncJobs : Range(StagesOf(j)) = {"training", "formal_audit", "outcome_evaluation"}
    /\ \A j \in Jobs : /\ Len(StagesOf(j)) \in Nat
                       /\ \A i \in 1 .. Len(StagesOf(j)) : StagesOf(j)[i] \in AllStages
                                                          /\ StagesOf(j)[i] \in Range(StagesOf(j))
<1>1. StagesOf("tuning") = <<"training", "mwu_tuning_audit">> /\ StagesOf("transplant") = <<"transplant_audit">>
    BY DEF StagesOf
<1>2. \A j \in Runtime : StagesOf(j) = <<>>
    BY DEF StagesOf, Runtime
<1>3. \A j \in Evidence : StagesOf(j) = <<"training", "formal_audit">>
    BY DEF StagesOf, Evidence
<1>4. \A j \in CncJobs : StagesOf(j) = <<"training", "formal_audit", "outcome_evaluation">>
    BY DEF StagesOf, CncJobs
<1>5. Jobs = {"tuning", "transplant"} \cup Runtime \cup Evidence \cup CncJobs
    BY ScriptsAre DEF Runtime, Evidence, CncJobs
<1>6. /\ Range(<<"training", "mwu_tuning_audit">>) = {"training", "mwu_tuning_audit"}
      /\ Range(<<"transplant_audit">>) = {"transplant_audit"}
      /\ Range(<<"training", "formal_audit">>) = {"training", "formal_audit"}
      /\ Range(<<"training", "formal_audit", "outcome_evaluation">>)
            = {"training", "formal_audit", "outcome_evaluation"}
    BY DEF Range
<1>7. \A j \in Jobs : \A i \in 1 .. Len(StagesOf(j)) : StagesOf(j)[i] \in AllStages
    BY <1>1, <1>2, <1>3, <1>4, <1>5 DEF AllStages
<1>8. \A j \in Jobs : /\ Len(StagesOf(j)) \in Nat
                      /\ \A i \in 1 .. Len(StagesOf(j)) : StagesOf(j)[i] \in Range(StagesOf(j))
    BY <1>1, <1>2, <1>3, <1>4, <1>5 DEF Range
<1> QED BY <1>1, <1>3, <1>4, <1>6, <1>7, <1>8

\* The jobs that audit a whole game have three steps.
LEMMA EvidenceLengths == \A j \in Evidence : DOMAIN Script[j] = 1 .. 3 /\ Len(Script[j]) = 3
<1>1. Script["evidence"] = <<Stage("training"), Load, Stage("formal_audit")>>
    BY ScriptsAre
<1>2. Script["sparse"] = <<Load, Stage("training"), Stage("formal_audit")>>
    BY ScriptsAre
<1>3. Script["mixed"] = <<Stage("training"), Solve, Stage("formal_audit")>>
    BY ScriptsAre
<1> QED BY ONLY <1>1, <1>2, <1>3 DEF Evidence

\* The fields of a step of a script.
LEMMA StepFields ==
    /\ \A s : Stage(s).do = "stage" /\ Stage(s).on = s
    /\ Load.do = "load" /\ Solve.do = "solve"
BY DEF Stage, Load, Solve

\* The steps of the job with the expanded library.
LEMMA ExpandedEntries ==
    /\ DOMAIN Script["expanded"] = 1 .. 5 /\ Len(Script["expanded"]) = 5
    /\ Script["expanded"][1].do = "stage" /\ Script["expanded"][1].on = "training" /\ Script["expanded"][2].do = "solve"
    /\ Script["expanded"][3].do = "load"
    /\ Script["expanded"][4].do = "stage" /\ Script["expanded"][4].on = "formal_audit"
    /\ Script["expanded"][5].do = "stage" /\ Script["expanded"][5].on = "outcome_evaluation"
<1>1. Script["expanded"] =
        <<Stage("training"), Solve, Load, Stage("formal_audit"), Stage("outcome_evaluation")>>
    BY ScriptsAre
<1>8. /\ DOMAIN Script["expanded"] = 1 .. 5 /\ Len(Script["expanded"]) = 5
      /\ Script["expanded"][1] = Stage("training") /\ Script["expanded"][2] = Solve
      /\ Script["expanded"][3] = Load
      /\ Script["expanded"][4] = Stage("formal_audit")
      /\ Script["expanded"][5] = Stage("outcome_evaluation")
    BY ONLY <1>1
<1> QED BY ONLY <1>8, StepFields

\* The steps of the other CNC jobs.
LEMMA CncEntries ==
    \A j \in CncJobs \ {"expanded"} :
        /\ DOMAIN Script[j] = 1 .. 4 /\ Len(Script[j]) = 4
        /\ Script[j][1].do = "stage" /\ Script[j][1].on = "training" /\ Script[j][2].do = "solve"
        /\ Script[j][3].do = "stage" /\ Script[j][3].on = "formal_audit" /\ Script[j][4].do = "stage" /\ Script[j][4].on = "outcome_evaluation"
<1> SUFFICES ASSUME NEW j \in CncJobs \ {"expanded"}
             PROVE  /\ DOMAIN Script[j] = 1 .. 4 /\ Len(Script[j]) = 4
                    /\ Script[j][1].do = "stage" /\ Script[j][1].on = "training" /\ Script[j][2].do = "solve"
                    /\ Script[j][3].do = "stage" /\ Script[j][3].on = "formal_audit" /\ Script[j][4].do = "stage" /\ Script[j][4].on = "outcome_evaluation"
    OBVIOUS
<1>1. Script[j] = <<Stage("training"), Solve, Stage("formal_audit"), Stage("outcome_evaluation")>>
    BY ScriptsAre
<1>8. /\ DOMAIN Script[j] = 1 .. 4 /\ Len(Script[j]) = 4
      /\ Script[j][1] = Stage("training") /\ Script[j][2] = Solve
      /\ Script[j][3] = Stage("formal_audit") /\ Script[j][4] = Stage("outcome_evaluation")
    BY ONLY <1>1
<1> QED BY ONLY <1>8, StepFields

\* The number of steps of every script.
LEMMA LengthsAre ==
    /\ \A j \in Jobs : Len(Script[j]) \in Nat /\ DOMAIN Script[j] = 1 .. Len(Script[j])
    /\ Len(Script["tuning"]) = Len(Configs) + 2
    /\ Len(Script["runtime"]) = 3 /\ Len(Script["sparse_runtime"]) = 1
    /\ \A j \in Evidence : Len(Script[j]) = 3
    /\ Len(Script["transplant"]) = 2 /\ Len(Script["expanded"]) = 5
    /\ \A j \in CncJobs \ {"expanded"} : Len(Script[j]) = 4
<1>1. Len(Script["tuning"]) = Len(Configs) + 2 /\ DOMAIN Script["tuning"] = 1 .. (Len(Configs) + 2)
      /\ Len(Configs) \in Nat
    BY ScriptsAre, TuningScriptIs, ConfigsAre
<1>2. /\ DOMAIN Script["runtime"] = 1 .. 3 /\ Len(Script["runtime"]) = 3
      /\ DOMAIN Script["sparse_runtime"] = 1 .. 1 /\ Len(Script["sparse_runtime"]) = 1
    <2>1. /\ Script["runtime"] = <<Attempt("pair"), Attempt("full"), Attempt("cg")>>
          /\ Script["sparse_runtime"] = <<Attempt("pair")>>
        BY ScriptsAre
    <2> QED BY ONLY <2>1
<1>4. DOMAIN Script["transplant"] = 1 .. 2 /\ Len(Script["transplant"]) = 2
    <2>1. Script["transplant"] = <<Load, Stage("transplant_audit")>>
        BY ScriptsAre
    <2> QED BY ONLY <2>1
<1>7. Jobs = {"tuning", "transplant", "expanded"} \cup Runtime \cup Evidence \cup (CncJobs \ {"expanded"})
    BY ScriptsAre DEF Runtime, Evidence, CncJobs
<1>8. \A j \in Runtime : Len(Script[j]) \in Nat /\ DOMAIN Script[j] = 1 .. Len(Script[j])
    BY <1>2 DEF Runtime
<1>9. \A j \in Evidence \cup {"expanded"} \cup (CncJobs \ {"expanded"}) :
        Len(Script[j]) \in Nat /\ DOMAIN Script[j] = 1 .. Len(Script[j])
    BY ONLY EvidenceLengths, ExpandedEntries, CncEntries
<1>10. \A j \in {"tuning", "transplant"} : Len(Script[j]) \in Nat /\ DOMAIN Script[j] = 1 .. Len(Script[j])
    BY ONLY <1>1, <1>4
<1>11. \A j \in Jobs : Len(Script[j]) \in Nat /\ DOMAIN Script[j] = 1 .. Len(Script[j])
    BY ONLY <1>7, <1>8, <1>9, <1>10
<1> QED BY ONLY <1>1, <1>2, <1>4, <1>11, EvidenceLengths, ExpandedEntries, CncEntries

\* What a step of a script may be.
LEMMA TuningEntries ==
    ASSUME NEW i \in DOMAIN Script["tuning"]
    PROVE  \/ i = 1 /\ Script["tuning"][i].do = "attempt" /\ Script["tuning"][i].on = "dss"
           \/ /\ i \in 2 .. (Len(Configs) + 1)
              /\ Script["tuning"][i].do = "attempt" /\ Script["tuning"][i].on = Configs[i - 1]
           \/ /\ i = Len(Configs) + 2
              /\ Script["tuning"][i].do = "stage" /\ Script["tuning"][i].on = "mwu_tuning_audit"
<1> USE DEF Attempt, Stage
<1>1. i \in 1 .. (Len(Configs) + 2) /\ Len(Configs) \in Nat
    BY ScriptsAre, LengthsAre, ConfigsAre
<1>2. CASE i = 1
    BY <1>2, ScriptsAre, TuningScriptIs
<1>3. CASE i \in 2 .. (Len(Configs) + 1)
    <2>1. Script["tuning"][i] = Attempt(Configs[i - 1])
        BY <1>3, ScriptsAre, TuningScriptIs
    <2> QED BY <1>3, <2>1
<1>4. CASE i = Len(Configs) + 2
    BY <1>4, ScriptsAre, TuningScriptIs
<1> QED BY <1>1, <1>2, <1>3, <1>4

\* The DSS run is the first attempt of the tuning job, and every other one is an MWU run.
LEMMA TuningKeys ==
    ASSUME NEW i \in DOMAIN Script["tuning"], Script["tuning"][i].do = "attempt"
    PROVE  /\ i # 1 => IsMwu(Script["tuning"][i].on) /\ Script["tuning"][i].on # "pair"
           /\ i = 1 => Script["tuning"][i].on = "dss"
           /\ i \in 1 .. (Len(Configs) + 1)
           /\ Parts(Script["tuning"][i].on) = <<Script["tuning"][i].on>>
<1> DEFINE key == Script["tuning"][i].on
<1>1. \/ i = 1 /\ key = "dss"
      \/ i \in 2 .. (Len(Configs) + 1) /\ key = Configs[i - 1]
    BY TuningEntries
<1>2. i # 1 => key \notin {"dss", "mwu", "pair", "full", "cg", "none"} /\ i - 1 \in 1 .. Len(Configs)
    BY <1>1, ConfigsAre
<1>3. key # "pair"
    BY <1>1, <1>2
<1> QED BY <1>1, <1>2, <1>3, ConfigsAre DEF Parts, IsMwu

\* A runtime job has attempts only, the pair of DSS and MWU before the exact solvers.
LEMMA RuntimeEntries ==
    ASSUME NEW j \in Runtime, NEW i \in DOMAIN Script[j]
    PROVE  /\ Script[j][i].do = "attempt" /\ Script[j][i].on \in {"pair", "full", "cg"}
           /\ i # 1 => Script[j][i].on \in {"full", "cg"}
<1>1. CASE j = "runtime"
    <2>1. i \in 1 .. 3
        BY <1>1, LengthsAre, ScriptsAre
    <2> QED BY <1>1, <2>1, ScriptsAre DEF Attempt
<1>2. CASE j = "sparse_runtime"
    <2>1. i \in 1 .. 1
        BY <1>2, LengthsAre, ScriptsAre
    <2> QED BY <1>2, <2>1, ScriptsAre DEF Attempt
<1> QED BY <1>1, <1>2 DEF Runtime

Loaders == {"evidence", "sparse", "transplant", "expanded"}
Solvers == CncJobs \cup {"mixed"}

\* The kinds of job, and that there are no others.
LEMMA JobKinds ==
    /\ Jobs = {"tuning", "transplant", "expanded"} \cup Runtime \cup Evidence \cup (CncJobs \ {"expanded"})
    /\ CncJobs \subseteq Jobs /\ Runtime \subseteq Jobs /\ Evidence \subseteq Jobs
    /\ Timing = {"tuning"} \cup Runtime /\ Timing \subseteq Jobs
BY ScriptsAre DEF Runtime, Evidence, CncJobs, Timing

\* The steps of the jobs that audit a whole game, and of the transplant.
LEMMA EvidenceEntries ==
    /\ Script["evidence"][1].do = "stage" /\ Script["evidence"][1].on = "training" /\ Script["evidence"][2].do = "load"
    /\ Script["evidence"][3].do = "stage" /\ Script["evidence"][3].on = "formal_audit"
    /\ Script["sparse"][1].do = "load" /\ Script["sparse"][2].do = "stage" /\ Script["sparse"][2].on = "training"
    /\ Script["sparse"][3].do = "stage" /\ Script["sparse"][3].on = "formal_audit"
    /\ Script["mixed"][1].do = "stage" /\ Script["mixed"][1].on = "training" /\ Script["mixed"][2].do = "solve"
    /\ Script["mixed"][3].do = "stage" /\ Script["mixed"][3].on = "formal_audit"
    /\ Script["transplant"][1].do = "load" /\ Script["transplant"][2].do = "stage" /\ Script["transplant"][2].on = "transplant_audit"
<1>1. Script["evidence"] = <<Stage("training"), Load, Stage("formal_audit")>>
    BY ScriptsAre
<1>2. Script["sparse"] = <<Load, Stage("training"), Stage("formal_audit")>>
    BY ScriptsAre
<1>3. Script["mixed"] = <<Stage("training"), Solve, Stage("formal_audit")>>
    BY ScriptsAre
<1>4. Script["transplant"] = <<Load, Stage("transplant_audit")>>
    BY ScriptsAre
<1>8. /\ Script["evidence"][1] = Stage("training") /\ Script["evidence"][2] = Load
      /\ Script["evidence"][3] = Stage("formal_audit")
      /\ Script["sparse"][1] = Load /\ Script["sparse"][2] = Stage("training")
      /\ Script["sparse"][3] = Stage("formal_audit")
      /\ Script["mixed"][1] = Stage("training") /\ Script["mixed"][2] = Solve
      /\ Script["mixed"][3] = Stage("formal_audit")
      /\ Script["transplant"][1] = Load /\ Script["transplant"][2] = Stage("transplant_audit")
    BY ONLY <1>1, <1>2, <1>3, <1>4
<1> QED BY ONLY <1>8, StepFields

\* A job that measures no time has stages, and loads or solves if it is one that does.
LEMMA OtherEntries ==
    ASSUME NEW j \in Jobs, j \notin Timing, NEW i \in DOMAIN Script[j]
    PROVE  \/ Script[j][i].do = "stage" /\ Script[j][i].on \in Range(StagesOf(j))
           \/ Script[j][i].do = "load" /\ j \in Loaders
           \/ Script[j][i].do = "solve" /\ j \in Solvers
<1>1. CASE j \in Evidence
    <2>1. i \in 1 .. 3
        BY <1>1, EvidenceLengths
    <2>2. Range(StagesOf(j)) = {"training", "formal_audit"}
        BY <1>1, StagesAre
    <2>3. /\ j = "evidence" => j \in Loaders
          /\ j = "sparse" => j \in Loaders
          /\ j = "mixed" => j \in Solvers
        BY DEF Loaders, Solvers
    <2>4. j \in {"evidence", "sparse", "mixed"}
        BY <1>1 DEF Evidence
    <2> QED BY ONLY <2>1, <2>2, <2>3, <2>4, EvidenceEntries
<1>4. CASE j = "transplant"
    <2>1. i \in 1 .. 2
        BY <1>4, LengthsAre
    <2>2. Range(StagesOf(j)) = {"transplant_audit"} /\ j \in Loaders
        BY <1>4, StagesAre DEF Loaders
    <2> QED BY ONLY <1>4, <2>1, <2>2, EvidenceEntries
<1>5. CASE j = "expanded"
    <2>1. i \in 1 .. 5 /\ j \in CncJobs
        BY <1>5, ExpandedEntries DEF CncJobs
    <2>2. /\ Range(StagesOf(j)) = {"training", "formal_audit", "outcome_evaluation"}
          /\ j \in Loaders /\ j \in Solvers
        BY <1>5, <2>1, StagesAre DEF Loaders, Solvers
    <2> QED BY ONLY <1>5, <2>1, <2>2, ExpandedEntries
<1>6. CASE j \in CncJobs \ {"expanded"}
    <2>1. i \in 1 .. 4
        BY <1>6, CncEntries
    <2>2. /\ Range(StagesOf(j)) = {"training", "formal_audit", "outcome_evaluation"}
          /\ j \in Solvers
        BY <1>6, StagesAre DEF Solvers
    <2> QED BY ONLY <1>6, <2>1, <2>2, CncEntries
<1> QED BY <1>1, <1>4, <1>5, <1>6, JobKinds

\* Every stage of a job is synchronized, and only the timing jobs have attempts.
LEMMA EntriesAre ==
    ASSUME NEW j \in Jobs, NEW i \in DOMAIN Script[j]
    PROVE  /\ Script[j][i].do \in {"attempt", "stage", "load", "solve"}
           /\ Script[j][i].do = "attempt" <=> j \in Timing /\ ~(j = "tuning" /\ i = Len(Configs) + 2)
           /\ Script[j][i].do = "stage" =>
                /\ j \notin Runtime /\ Script[j][i].on \in Range(StagesOf(j))
                /\ j = "tuning" => Script[j][i].on = "mwu_tuning_audit" /\ i = Len(Configs) + 2
           /\ Script[j][i].do = "load" => j \in Loaders
           /\ Script[j][i].do = "solve" => j \in Solvers
<1>1. CASE j = "tuning"
    <2>1. Len(Configs) \in Nat /\ Len(Configs) > 0 /\ "tuning" \in Timing /\ "tuning" \notin Runtime
        BY ConfigsAre DEF Timing, Runtime
    <2> QED BY <1>1, <2>1, TuningEntries, StagesAre
<1>2. CASE j \in Runtime
    BY <1>2, RuntimeEntries DEF Timing, Runtime
<1>3. CASE j \notin Timing
    <2>1. j \notin Runtime /\ j # "tuning"
        BY <1>3 DEF Timing, Runtime
    <2> QED BY <1>3, <2>1, OtherEntries
<1> QED BY <1>1, <1>2, <1>3, JobKinds

\* A stage is followed by steps of other kinds only if it is the training of a complete
\* table, and has all the q before it if its plan depends on them.
Fixed(j, stage) == stage = "training" /\ j # "sparse"

\* After a stage whose plan depends on q there are stages only.
LEMMA StagesAreOrdered ==
    ASSUME NEW j \in Jobs, NEW i \in DOMAIN Script[j], NEW p \in DOMAIN Script[j],
           Script[j][i].do = "stage", ~Fixed(j, Script[j][i].on), i < p
    PROVE  Script[j][p].do = "stage"
<1> USE DEF Fixed
<1>0. /\ i \in 1 .. Len(Script[j]) /\ p \in 1 .. Len(Script[j])
      /\ Len(Script[j]) \in Nat
    BY LengthsAre
<1>1. CASE j = "tuning"
    BY <1>0, <1>1, TuningEntries, LengthsAre, ConfigsAre
<1>2. CASE j \in Runtime
    BY <1>2, RuntimeEntries
<1>3. CASE j \in Evidence
    <2>1. Len(Script[j]) = 3 /\ j \in {"evidence", "sparse", "mixed"}
        BY <1>3, EvidenceLengths DEF Evidence
    <2> QED BY ONLY <1>0, <2>1, EvidenceEntries, Script[j][i].do = "stage", ~Fixed(j, Script[j][i].on), i < p DEF Fixed
<1>4. CASE j = "transplant"
    <2>1. Len(Script[j]) = 2
        BY <1>4, LengthsAre
    <2> QED BY ONLY <1>0, <1>4, <2>1, EvidenceEntries, Script[j][i].do = "stage", i < p
<1>5. CASE j = "expanded"
    <2> QED BY ONLY <1>0, <1>5, ExpandedEntries, Script[j][i].do = "stage", ~Fixed(j, Script[j][i].on), i < p DEF Fixed
<1>6. CASE j \in CncJobs \ {"expanded"}
    <2>1. j # "sparse"
        BY <1>6 DEF CncJobs
    <2> QED BY ONLY <1>0, <1>6, <2>1, CncEntries, Script[j][i].do = "stage", ~Fixed(j, Script[j][i].on), i < p DEF Fixed
<1> QED BY <1>1, <1>2, <1>3, <1>4, <1>5, <1>6, JobKinds

\* A stage adds no distribution.
LEMMA StageGivesNothing ==
    ASSUME NEW j, NEW e, e.do = "stage"
    PROVE  Gives(j, e) = {}
BY DEF Gives

\* What the runner holds after a step.
LEMMA BeforeStep ==
    ASSUME NEW j \in Jobs, NEW p \in DOMAIN Script[j]
    PROVE  /\ Before(j, p + 1) = Before(j, p) \cup Gives(j, Script[j][p])
           /\ Before(j, p) \subseteq Labels(j) /\ Gives(j, Script[j][p]) \subseteq Labels(j)
<1>1. p \in 1 .. Len(Script[j]) /\ Len(Script[j]) \in Nat
    BY LengthsAre
<1>2. 1 .. (p + 1 - 1) = (1 .. (p - 1)) \cup {p} /\ 1 .. (Len(Script[j]) + 1 - 1) = 1 .. Len(Script[j])
    BY <1>1
<1>3. 1 .. (p - 1) \subseteq 1 .. Len(Script[j])
    BY <1>1
<1> QED BY <1>1, <1>2, <1>3 DEF Before, Labels

\* The runner begins with nothing.
LEMMA BeforeFirst == \A j : Before(j, 1) = {}
BY DEF Before

\* At a stage whose plan depends on q, every distribution of the job is there.
LEMMA StageHasAll ==
    ASSUME NEW j \in Jobs, NEW p \in DOMAIN Script[j], Script[j][p].do = "stage",
           ~Fixed(j, Script[j][p].on)
    PROVE  Before(j, p) = Labels(j)
<1>1. p \in 1 .. Len(Script[j]) /\ Len(Script[j]) \in Nat /\ DOMAIN Script[j] = 1 .. Len(Script[j])
    BY LengthsAre
<1>2. \A i \in 1 .. Len(Script[j]) : i >= p => Gives(j, Script[j][i]) = {}
    BY <1>1, StagesAreOrdered, StageGivesNothing
<1>3. \A i \in 1 .. (Len(Script[j]) + 1 - 1) : i \in 1 .. (p - 1) \/ (i \in 1 .. Len(Script[j]) /\ i >= p)
    BY <1>1
<1>4. \A i \in 1 .. (p - 1) : i \in 1 .. (Len(Script[j]) + 1 - 1)
    BY <1>1
<1> DEFINE G(i) == Gives(j, Script[j][i])
<1>5. UNION {G(i) : i \in 1 .. (Len(Script[j]) + 1 - 1)} = UNION {G(i) : i \in 1 .. (p - 1)}
    <2>1. \A i \in 1 .. Len(Script[j]) : i >= p => G(i) = {}
        BY <1>2
    <2> HIDE DEF G
    <2> QED BY <1>3, <1>4, <2>1
<1>6. Before(j, p) = UNION {G(i) : i \in 1 .. (p - 1)}
      /\ Labels(j) = UNION {G(i) : i \in 1 .. (Len(Script[j]) + 1 - 1)}
    BY DEF Before, Labels
<1> HIDE DEF G
<1> QED BY <1>5, <1>6

\* What a job holds in the end.
LEMMA LabelsAre ==
    /\ Labels("runtime") = FullBundle /\ Labels("sparse_runtime") = PairBundle
    /\ Labels("evidence") = FullBundle /\ Labels("sparse") = PairBundle /\ Labels("mixed") = FullBundle
    /\ Labels("transplant") = {"source", "target"}
    /\ Labels("selectors") = Selectors /\ Labels("expanded") = {"platform", "core"}
    /\ \A j \in CncJobs \ {"expanded", "selectors"} : Labels(j) = {"platform"}
<1> USE DEF FullBundle, PairBundle, Selectors
<1>1. Gives("runtime", Attempt("pair")) = {"dss", "mwu"} /\ Gives("sparse_runtime", Attempt("pair")) = {"dss", "mwu"}
    <2>1. Range(<<"dss", "mwu">>) = {"dss", "mwu"}
        BY DEF Range
    <2>2. Attempt("pair").do = "attempt" /\ Attempt("pair").on = "pair"
        BY DEF Attempt
    <2> QED BY <2>1, <2>2 DEF Gives, Parts
<1>2. Gives("runtime", Attempt("full")) = {"full"} /\ Gives("runtime", Attempt("cg")) = {"cg"}
    <2>1. Range(<<"full">>) = {"full"} /\ Range(<<"cg">>) = {"cg"}
        BY DEF Range
    <2>2. \A k : Attempt(k).do = "attempt" /\ Attempt(k).on = k
        BY DEF Attempt
    <2> QED BY <2>1, <2>2 DEF Gives, Parts
<1>3. Labels("runtime") = {"dss", "mwu", "full", "cg"}
    <2>1. /\ "runtime" \in Jobs /\ Len(Script["runtime"]) = 3 /\ DOMAIN Script["runtime"] = 1 .. 3
          /\ Script["runtime"][1] = Attempt("pair") /\ Script["runtime"][2] = Attempt("full")
          /\ Script["runtime"][3] = Attempt("cg")
        BY ScriptsAre, LengthsAre
    <2>2. /\ Before("runtime", 1 + 1) = Before("runtime", 1) \cup Gives("runtime", Attempt("pair"))
          /\ Before("runtime", 2 + 1) = Before("runtime", 2) \cup Gives("runtime", Attempt("full"))
          /\ Before("runtime", 3 + 1) = Before("runtime", 3) \cup Gives("runtime", Attempt("cg"))
        BY <2>1, BeforeStep
    <2> QED BY <1>1, <1>2, <2>1, <2>2, BeforeFirst DEF Labels
<1>4. Labels("sparse_runtime") = {"dss", "mwu"}
    <2>1. /\ "sparse_runtime" \in Jobs /\ Len(Script["sparse_runtime"]) = 1
          /\ DOMAIN Script["sparse_runtime"] = 1 .. 1 /\ Script["sparse_runtime"][1] = Attempt("pair")
        BY ScriptsAre, LengthsAre
    <2>2. Before("sparse_runtime", 1 + 1) = Before("sparse_runtime", 1) \cup Gives("sparse_runtime", Attempt("pair"))
        BY <2>1, BeforeStep
    <2> QED BY <1>1, <2>1, <2>2, BeforeFirst DEF Labels
<1>5. \A j, e : /\ e.do = "solve" => Gives(j, e) = SolvedLabels(j)
                /\ e.do = "load" => Gives(j, e) = Loads(j)
                /\ e.do = "stage" => Gives(j, e) = {}
    BY DEF Gives
<1>6. \A j \in Evidence : Labels(j) = Gives(j, Script[j][1]) \cup Gives(j, Script[j][2]) \cup Gives(j, Script[j][3])
    <2> SUFFICES ASSUME NEW j \in Evidence
                 PROVE  Labels(j) = Gives(j, Script[j][1]) \cup Gives(j, Script[j][2]) \cup Gives(j, Script[j][3])
        OBVIOUS
    <2>1. j \in Jobs /\ Len(Script[j]) = 3 /\ DOMAIN Script[j] = 1 .. 3
        BY EvidenceLengths, JobKinds
    <2>2. /\ Before(j, 1 + 1) = Before(j, 1) \cup Gives(j, Script[j][1])
          /\ Before(j, 2 + 1) = Before(j, 2) \cup Gives(j, Script[j][2])
          /\ Before(j, 3 + 1) = Before(j, 3) \cup Gives(j, Script[j][3])
        BY <2>1, BeforeStep
    <2> QED BY <2>1, <2>2, BeforeFirst DEF Labels
<1>7. Labels("evidence") = Loads("evidence") /\ Labels("sparse") = Loads("sparse") /\ Labels("mixed") = SolvedLabels("mixed")
    BY <1>5, <1>6, EvidenceEntries DEF Evidence
<1>8. Labels("transplant") = Loads("transplant")
    <2>1. "transplant" \in Jobs /\ Len(Script["transplant"]) = 2 /\ DOMAIN Script["transplant"] = 1 .. 2
        BY LengthsAre, JobKinds
    <2>2. /\ Before("transplant", 1 + 1) = Before("transplant", 1) \cup Gives("transplant", Script["transplant"][1])
          /\ Before("transplant", 2 + 1) = Before("transplant", 2) \cup Gives("transplant", Script["transplant"][2])
        BY <2>1, BeforeStep
    <2>3. /\ Gives("transplant", Script["transplant"][1]) = Loads("transplant")
          /\ Gives("transplant", Script["transplant"][2]) = {}
        BY <1>5, EvidenceEntries
    <2> QED BY <2>1, <2>2, <2>3, BeforeFirst DEF Labels
<1>9. Labels("expanded") = SolvedLabels("expanded") \cup Loads("expanded")
    <2>1. "expanded" \in Jobs
        BY JobKinds
    <2>2. /\ Before("expanded", 1 + 1) = Before("expanded", 1) \cup Gives("expanded", Script["expanded"][1])
          /\ Before("expanded", 2 + 1) = Before("expanded", 2) \cup Gives("expanded", Script["expanded"][2])
          /\ Before("expanded", 3 + 1) = Before("expanded", 3) \cup Gives("expanded", Script["expanded"][3])
          /\ Before("expanded", 4 + 1) = Before("expanded", 4) \cup Gives("expanded", Script["expanded"][4])
          /\ Before("expanded", 5 + 1) = Before("expanded", 5) \cup Gives("expanded", Script["expanded"][5])
        BY <2>1, BeforeStep, ExpandedEntries
    <2> QED BY <1>5, <2>1, <2>2, BeforeFirst, ExpandedEntries DEF Labels
<1>10. \A j \in CncJobs \ {"expanded"} : Labels(j) = SolvedLabels(j)
    <2> SUFFICES ASSUME NEW j \in CncJobs \ {"expanded"} PROVE Labels(j) = SolvedLabels(j)
        OBVIOUS
    <2>1. j \in Jobs
        BY JobKinds
    <2>2. /\ Before(j, 1 + 1) = Before(j, 1) \cup Gives(j, Script[j][1])
          /\ Before(j, 2 + 1) = Before(j, 2) \cup Gives(j, Script[j][2])
          /\ Before(j, 3 + 1) = Before(j, 3) \cup Gives(j, Script[j][3])
          /\ Before(j, 4 + 1) = Before(j, 4) \cup Gives(j, Script[j][4])
        BY <2>1, BeforeStep, CncEntries
    <2>3. /\ Gives(j, Script[j][1]) = {} /\ Gives(j, Script[j][2]) = SolvedLabels(j)
          /\ Gives(j, Script[j][3]) = {} /\ Gives(j, Script[j][4]) = {}
        BY <1>5, CncEntries
    <2>4. Len(Script[j]) = 4
        BY CncEntries
    <2> QED BY <2>2, <2>3, <2>4, BeforeFirst DEF Labels
<1>11. /\ Loads("evidence") = {"dss", "mwu", "full", "cg"} /\ Loads("sparse") = {"dss", "mwu"}
       /\ Loads("transplant") = {"source", "target"} /\ Loads("expanded") = {"core"}
       /\ SolvedLabels("mixed") = {"full", "cg", "dss", "mwu"} /\ SolvedLabels("expanded") = {"platform"}
       /\ SolvedLabels("selectors") = {"platform", "second", "third"}
    BY DEF Loads, SolvedLabels
<1>12. \A j \in CncJobs \ {"selectors"} : SolvedLabels(j) = {"platform"}
    BY DEF SolvedLabels, CncJobs
<1>13. "selectors" \in CncJobs \ {"expanded"}
    BY DEF CncJobs
<1> QED BY <1>3, <1>4, <1>7, <1>8, <1>9, <1>10, <1>11, <1>12, <1>13

\* The audit of a job, its complete table and its outcomes are among its stages.
LEMMA StagePositions ==
    ASSUME NEW j \in Jobs
    PROVE  /\ j \notin Runtime =>
                \E i \in DOMAIN Script[j] : Script[j][i].do = "stage" /\ Script[j][i].on = AuditOf(j)
           /\ j \in {"evidence", "mixed"} =>
                \E i \in DOMAIN Script[j] : Script[j][i].do = "stage" /\ Script[j][i].on = "training"
           /\ j \in CncJobs =>
                \E i \in DOMAIN Script[j] : Script[j][i].do = "stage" /\ Script[j][i].on = "outcome_evaluation"
<1>1. CASE j = "tuning"
    <2>1. Len(Configs) + 2 \in DOMAIN Script["tuning"] /\ "tuning" \notin CncJobs
        BY LengthsAre, ScriptsAre, ConfigsAre DEF CncJobs
    <2>2. /\ Script["tuning"][Len(Configs) + 2].do = "stage"
          /\ Script["tuning"][Len(Configs) + 2].on = "mwu_tuning_audit"
        BY <2>1, TuningEntries, ConfigsAre
    <2> QED BY <1>1, <2>1, <2>2 DEF AuditOf
<1>2. CASE j \in Runtime
    BY <1>2 DEF Runtime, CncJobs
<1>3. CASE j \in Evidence
    <2>1. DOMAIN Script[j] = 1 .. 3 /\ AuditOf(j) = "formal_audit" /\ j \notin CncJobs
        BY <1>3, EvidenceLengths DEF Evidence, AuditOf, CncJobs
    <2>2. 1 \in 1 .. 3 /\ 3 \in 1 .. 3
        OBVIOUS
    <2>3. Script[j][3].do = "stage" /\ Script[j][3].on = "formal_audit"
        BY <1>3, EvidenceEntries DEF Evidence
    <2>4. j \in {"evidence", "mixed"} => Script[j][1].do = "stage" /\ Script[j][1].on = "training"
        BY EvidenceEntries
    <2> QED BY <2>1, <2>2, <2>3, <2>4
<1>4. CASE j = "transplant"
    <2>1. DOMAIN Script[j] = 1 .. 2 /\ AuditOf(j) = "transplant_audit" /\ j \notin CncJobs
        BY <1>4, LengthsAre DEF AuditOf, CncJobs
    <2>2. 2 \in 1 .. 2
        OBVIOUS
    <2> QED BY <1>4, <2>1, <2>2, EvidenceEntries
<1>5. CASE j = "expanded"
    <2>1. 4 \in 1 .. 5 /\ 5 \in 1 .. 5 /\ AuditOf(j) = "formal_audit"
        BY <1>5 DEF AuditOf
    <2> QED BY <1>5, <2>1, ExpandedEntries
<1>6. CASE j \in CncJobs \ {"expanded"}
    <2>1. 3 \in 1 .. 4 /\ 4 \in 1 .. 4 /\ AuditOf(j) = "formal_audit" /\ j \notin {"evidence", "mixed"}
        BY <1>6 DEF AuditOf, CncJobs
    <2> QED BY <1>6, <2>1, CncEntries
<1> QED BY <1>1, <1>2, <1>3, <1>4, <1>5, <1>6, JobKinds

\* The distributions of the tuning job are its attempts.
LEMMA LabelIsKey ==
    /\ \A l \in Labels("tuning") :
        \E i \in DOMAIN Script["tuning"] : Script["tuning"][i].do = "attempt" /\ KeyAt(i) = l
    /\ "dss" \in Labels("tuning")
    /\ \A i \in DOMAIN Script["tuning"] :
        Script["tuning"][i].do = "attempt" =>
            /\ KeyAt(i) \in Labels("tuning")
            /\ Gives("tuning", Script["tuning"][i]) = {KeyAt(i)}
<1> DEFINE s == Script["tuning"]
<1>1. ASSUME NEW i \in DOMAIN s, s[i].do = "attempt"
      PROVE  Gives("tuning", s[i]) = {KeyAt(i)}
    <2>1. Parts(s[i].on) = <<s[i].on>>
        BY <1>1, TuningKeys
    <2> QED BY <1>1, <2>1 DEF Gives, Range, KeyAt
<1>2. ASSUME NEW l \in Labels("tuning")
      PROVE  \E i \in DOMAIN s : s[i].do = "attempt" /\ KeyAt(i) = l
    <2>1. DOMAIN s = 1 .. Len(s) /\ Len(s) \in Nat
        BY LengthsAre, JobKinds
    <2>2. PICK i \in 1 .. (Len(s) + 1 - 1) : l \in Gives("tuning", s[i])
        BY DEF Labels, Before
    <2>3. i \in DOMAIN s
        BY <2>1, <2>2
    <2>4. s[i].do = "attempt"
        BY <2>2, <2>3, TuningEntries, StageGivesNothing
    <2> QED BY <1>1, <2>2, <2>3, <2>4
<1>3. 1 \in DOMAIN s /\ s[1].do = "attempt" /\ s[1].on = "dss"
    <2>1. 1 \in DOMAIN s
        BY LengthsAre, ScriptsAre, ConfigsAre
    <2> QED BY <2>1, TuningEntries, ConfigsAre
<1>4. \A i \in DOMAIN s : Gives("tuning", s[i]) \subseteq Labels("tuning")
    BY BeforeStep, JobKinds
<1> QED BY <1>1, <1>2, <1>3, <1>4 DEF KeyAt

-----------------------------------------------------------------------------
(* Plans.                                                                  *)

\* Every library has the core policies.
LEMMA LibrariesAre ==
    /\ \A j : j # "expanded" => PoliciesOf(j) = Core
    /\ Core \subseteq PoliciesOf("expanded")
    /\ \A j : Core \subseteq PoliciesOf(j)
BY DEF PoliciesOf, Library

\* What an audit reads of a distribution is in the closure it simulates.
LEMMA ReadIsClosed ==
    ASSUME NEW q, NEW policies
    PROVE  Read(q, policies) \subseteq Closure(q, policies)
<1>1. ASSUME NEW t \in {u \in q \X Agents \X policies : u[1][u[2]] # u[3]}
      PROVE  Deviate(t[1], t[2], t[3]) \in Closure(q, policies)
    <2>1. t[1] \in q /\ t[2] \in Agents /\ t[3] \in policies
        BY <1>1
    <2> HIDE DEF Deviate
    <2> QED BY <2>1 DEF Closure
<1> QED BY <1>1 DEF Read, Closure

\* The closure of several distributions has that of each.
LEMMA FrozenHolds ==
    ASSUME NEW q, NEW qs, q \in qs, NEW policies
    PROVE  Closure(q, policies) \subseteq frozen_closure(qs, policies)
BY DEF frozen_closure

\* A plan depends on the q of what is held, if at all.
LEMMA PlanDepends ==
    ASSUME NEW j \in Jobs, NEW stage, NEW h, NEW g,
           stage = "transplant_audit" => j = "transplant",
           \/ Fixed(j, stage)
           \/ DOMAIN h = DOMAIN g /\ DOMAIN h = Labels(j) /\ \A l \in DOMAIN h : h[l].q = g[l].q
    PROVE  Plan(j, stage, h) = Plan(j, stage, g)
<1>1. CASE Fixed(j, stage)
    BY <1>1 DEF Fixed, Plan, TrainingPlan
<1>2. CASE DOMAIN h = DOMAIN g /\ DOMAIN h = Labels(j) /\ \A l \in DOMAIN h : h[l].q = g[l].q
    <2>1. Supports(h) = Supports(g)
        BY <1>2 DEF Supports
    <2>2. stage = "transplant_audit" => h["source"].q = g["source"].q /\ h["target"].q = g["target"].q
        BY <1>2, LabelsAre
    <2> QED BY <2>1, <2>2, Zenon DEF Plan, TrainingPlan, AuditPlan, OutcomePlan
<1> QED BY <1>1, <1>2

\* Profiles.
LEMMA DeviationsArePlayed ==
    ASSUME NEW policies, NEW p \in Profiles(policies), NEW a \in Agents, NEW x \in policies
    PROVE  Deviate(p, a, x) \in Profiles(policies)
BY DEF Deviate, Profiles, Agents

\* What can be frozen in the core game can be frozen in the game of any job.
LEMMA LibraryGrows ==
    ASSUME NEW q, NEW j, Freezable(q, Core)
    PROVE  Freezable(q, PoliciesOf(j))
<1>1. Profiles(Core) \subseteq Profiles(PoliciesOf(j))
    BY LibrariesAre DEF Profiles
<1> QED BY <1>1 DEF Freezable

-----------------------------------------------------------------------------
(* The jobs of a wave.                                                     *)

\* Where a wave has come to: what is published, and that the job has its dependencies.
LEMMA JobIs ==
    ASSUME WaveInv
    PROVE  /\ DOMAIN results \subseteq Jobs
           /\ \A j \in DOMAIN results : Dependencies(j) \subseteq DOMAIN results
           /\ turn <= Len(wave) =>
                /\ Job \in Jobs /\ Job \notin DOMAIN results
                /\ Dependencies(Job) \subseteq DOMAIN results
                /\ {wave[k] : k \in 1 .. turn} = DOMAIN results \cup {Job}
           /\ Len(wave) \in Nat
<1>1. /\ wave \in Seq(Jobs) /\ IsInjective(wave)
      /\ \A i \in DOMAIN wave : Dependencies(wave[i]) \subseteq {wave[k] : k \in 1 .. (i - 1)}
    BY WaveAssumption DEF WaveInv
<1>2. Len(wave) \in Nat /\ DOMAIN wave = 1 .. Len(wave) /\ \A k \in 1 .. Len(wave) : wave[k] \in Jobs
    BY <1>1
<1>3. turn \in 1 .. (Len(wave) + 1) /\ DOMAIN results = {wave[k] : k \in 1 .. (turn - 1)}
    BY DEF WaveInv
<1>4. \A i \in 1 .. Len(wave) : i <= turn => {wave[k] : k \in 1 .. (i - 1)} \subseteq DOMAIN results
    BY <1>2, <1>3
<1>5. \A k \in 1 .. (turn - 1) : k \in 1 .. Len(wave) /\ k <= turn
    BY <1>2, <1>3
<1>6. ASSUME turn <= Len(wave)
      PROVE  /\ Job \in Jobs /\ Job \notin DOMAIN results
             /\ Dependencies(Job) \subseteq DOMAIN results
             /\ {wave[k] : k \in 1 .. turn} = DOMAIN results \cup {Job}
    <2>1. turn \in 1 .. Len(wave)
        BY <1>3, <1>6
    <2>2. Job \in Jobs /\ Dependencies(Job) \subseteq DOMAIN results
        BY <1>1, <1>2, <1>4, <2>1 DEF Job
    <2>3. Job \notin DOMAIN results
        <3>1. \A k \in 1 .. (turn - 1) : wave[k] # wave[turn]
            <4> SUFFICES ASSUME NEW k \in 1 .. (turn - 1), wave[k] = wave[turn] PROVE FALSE
                OBVIOUS
            <4>1. k \in DOMAIN wave /\ turn \in DOMAIN wave /\ k # turn
                BY <1>2, <1>5, <2>1
            <4> QED BY <1>1, <4>1 DEF IsInjective
        <3> QED BY <1>3, <3>1 DEF Job
    <2>4. \A k : k \in 1 .. turn <=> k \in 1 .. (turn - 1) \/ k = turn
        BY <2>1
    <2> QED BY <1>3, <2>2, <2>3, <2>4 DEF Job
<1> QED BY <1>1, <1>2, <1>3, <1>4, <1>5, <1>6

-----------------------------------------------------------------------------
(* What steps of the runner have in common.                                *)

\* The job in progress.
Runs == RunInv /\ turn <= Len(wave)

\* The invariant, of a job that is in progress.
LEMMA RunningJob ==
    ASSUME Runs
    PROVE  /\ Job \in Jobs /\ Job \notin DOMAIN results /\ Dependencies(Job) \subseteq DOMAIN results
           /\ ScriptInv /\ HeldInv /\ TrialInv /\ DiskInv /\ PlansInv /\ RemoteInv /\ BeatInv
           /\ SelectionInv /\ ResultsInv
           /\ Len(Script[Job]) \in Nat /\ DOMAIN Script[Job] = 1 .. Len(Script[Job])
           /\ pos \in Nat /\ pos >= 1
           /\ pos <= Len(Script[Job]) => pos \in DOMAIN Script[Job]
<1>1. Job \in Jobs /\ Job \notin DOMAIN results /\ Dependencies(Job) \subseteq DOMAIN results
    BY JobIs DEF Runs, RunInv
<1>2. Len(Script[Job]) \in Nat /\ DOMAIN Script[Job] = 1 .. Len(Script[Job])
    BY <1>1, LengthsAre
<1>3. JobInv /\ turn <= Len(wave) /\ ResultsInv
    BY DEF Runs, RunInv
<1> QED BY <1>1, <1>2, <1>3 DEF JobInv, ScriptInv

\* The job stays the same within a turn.
LEMMA PlaceStays ==
    ASSUME UNCHANGED <<wave, turn>>
    PROVE  Job' = Job
BY DEF Job

\* Another step of the script has given what it gives.
LEMMA HoldsStep ==
    ASSUME Runs, pos <= Len(Script[Job]), Now.do # "stage", UNCHANGED <<wave, turn>>,
           disk'.store.plans = disk.store.plans,
           NEW payload, Holds(payload),
           Gives(Job, Now) \subseteq DOMAIN payload, DOMAIN payload \subseteq Gives(Job, Now) \cup DOMAIN held
    PROVE  /\ ScriptInv' /\ TrialInv' /\ PlannedInv'
           /\ DOMAIN held' = Before(Job, pos') /\ held' = Merged(payload, held)
           /\ pos' = pos + 1 /\ step' = "look"
           /\ Before(Job, pos') = Before(Job, pos) \cup Gives(Job, Now)
<1>0. Job \in Jobs /\ Job' = Job /\ pos \in DOMAIN Script[Job] /\ pos \in Nat /\ pos >= 1
      /\ DOMAIN Script[Job] = 1 .. Len(Script[Job]) /\ Len(Script[Job]) \in Nat
    BY RunningJob, PlaceStays
<1>1. held' = Merged(payload, held) /\ pos' = pos + 1 /\ step' = "look"
    BY DEF Holds
<1>2. DOMAIN held' = DOMAIN payload \cup DOMAIN held
    BY <1>1, MergedIs
<1>3. Before(Job, pos + 1) = Before(Job, pos) \cup Gives(Job, Now)
    BY <1>0, BeforeStep DEF Now
<1>4. DOMAIN held = Before(Job, pos)
    BY RunningJob DEF HeldInv
<1>5. DOMAIN held' = Before(Job, pos')
    BY <1>1, <1>2, <1>3, <1>4
<1>6. ScriptInv'
    <2>1. pos + 1 \in 1 .. (Len(Script[Job]) + 1)
        BY <1>0
    <2> QED BY <1>0, <1>1, <2>1 DEF ScriptInv
<1>7. TrialInv'
    BY <1>1 DEF TrialInv
<1>8. PlannedInv'
    <2> SUFFICES ASSUME NEW i \in Planned', Script[Job][i].do = "stage"
                 PROVE  disk'.store.plans[Script[Job][i].on] = Plan(Job, Script[Job][i].on, held')
        BY <1>0, Zenon DEF PlannedInv
    <2>1. i \in DOMAIN Script[Job] /\ i < pos + 1
        BY <1>0, <1>1 DEF Planned
    <2>2. i # pos
        BY DEF Now
    <2>3. i < pos
        BY <1>0, <2>1, <2>2
    <2>4. Fixed(Job, Script[Job][i].on)
        BY <1>0, <2>1, <2>3, StagesAreOrdered DEF Now
    <2>5. Plan(Job, Script[Job][i].on, held') = Plan(Job, Script[Job][i].on, held)
        <3>1. Script[Job][i].on # "transplant_audit"
            BY <2>4 DEF Fixed
        <3> QED BY <1>0, <2>4, <3>1, PlanDepends
    <2>6. disk.store.plans[Script[Job][i].on] = Plan(Job, Script[Job][i].on, held)
        BY <2>1, <2>3, RunningJob DEF PlannedInv, PlansInv, Planned
    <2> QED BY <2>5, <2>6
<1> QED BY <1>1, <1>3, <1>5, <1>6, <1>7, <1>8

\* What is stored stays.
LEMMA StoresStay ==
    ASSUME Runs, UNCHANGED <<wave, turn, faults, results, remote, beat>>, disk'.store = disk.store
    PROVE  /\ StoreShape(disk'.store) /\ ChunksOK(Job', disk'.store)
           /\ AttemptsOK(First(disk'.store), disk.attempts)
           /\ DeterminedInv' /\ RemoteInv' /\ BeatInv'
           /\ faults' # {"disk_lost", "slow_upload"} => TuningPlanOK(Job', disk'.store)
<1>0. Job' = Job
    BY PlaceStays
<1>1. DiskInv /\ PlansInv /\ RemoteInv /\ BeatInv
    BY RunningJob
<1>2. StoreShape(disk'.store) /\ ChunksOK(Job', disk'.store) /\ AttemptsOK(First(disk'.store), disk.attempts)
    BY <1>0, <1>1 DEF DiskInv
<1>3. DeterminedInv'
    BY <1>0, <1>1, Zenon DEF PlansInv, DeterminedInv
<1>4. RemoteInv'
    BY <1>0, <1>1, Zenon DEF RemoteInv
<1>5. BeatInv'
    BY <1>0, <1>1, Zenon DEF BeatInv
<1>6. faults' # {"disk_lost", "slow_upload"} => TuningPlanOK(Job', disk'.store)
    BY <1>0, <1>1, Zenon DEF PlansInv
<1> QED BY <1>2, <1>3, <1>4, <1>5, <1>6

\* What holds of the disk and of the store, in a step that changes neither.
LEMMA DiskStays ==
    ASSUME Runs, UNCHANGED <<wave, turn, faults, results, remote, beat, disk>>
    PROVE  /\ DiskInv' /\ DeterminedInv' /\ RemoteInv' /\ BeatInv'
           /\ faults' # {"disk_lost", "slow_upload"} => TuningPlanOK(Job', disk'.store)
<1>1. DiskInv
    BY RunningJob
<1> QED BY <1>1, StoresStay, Zenon DEF DiskInv

\* Nothing was published and nothing failed.
LEMMA ResultsStay ==
    ASSUME RunInv, UNCHANGED <<wave, turn, faults, results, selection, failure>>
    PROVE  WaveInv' /\ ResultsInv' /\ RestartGoesOn'
<1>1. WaveInv /\ ResultsInv /\ RestartGoesOn
    BY DEF RunInv
<1> QED BY <1>1, Zenon DEF WaveInv, ResultsInv, RestartGoesOn

\* What a step of the runner does not touch.
LEMMA KeepsAll ==
    ASSUME Keeps
    PROVE  UNCHANGED <<wave, faults, turn, remote, beat, failure, selection, results>>
BY DEF Keeps, host, outcome, published

\* The invariant of a job, from its parts.
LEMMA JobInvHolds ==
    ASSUME ScriptInv, HeldInv, TrialInv, DiskInv, PlansInv, RemoteInv, BeatInv, SelectionInv
    PROVE  JobInv
BY DEF JobInv

\* The step a runner is at.
LEMMA AtIs ==
    ASSUME RunInv, NEW do, At(do)
    PROVE  Runs /\ Now.do = do /\ pos <= Len(Script[Job]) /\ failure = "none"
BY DEF Runs, At, Active

-----------------------------------------------------------------------------
(* Attempts.                                                               *)

\* The least of some numbers.
LEMMA LeastIs ==
    ASSUME NEW S, S \subseteq Nat, S # {}
    PROVE  Min(S) \in S /\ \A y \in S : Min(S) <= y
<1> DEFINE Less == {ss \in Nat \X Nat : ss[1] < ss[2]}
<1>1. IsWellFoundedOn(Less, Nat)
    <2>1. OpToRel(<, Nat) = Less
        BY DEF OpToRel
    <2> QED BY <2>1, NatLessThanWellFounded, Zenon
<1>2. PICK c \in S : \A d \in S : ~ (<<d, c>> \in Less)
    <2> HIDE DEF Less
    <2> QED BY <1>1, WFMin, Zenon
<1>3. \A m, n \in Nat : m < n => <<m, n>> \in Less
    OBVIOUS
<1>4. \A d \in S : ~ (d < c)
    <2> HIDE DEF Less
    <2> QED BY <1>2, <1>3, Zenon
<1>5. \A d \in S : c <= d
    BY <1>4
<1> QED BY <1>5 DEF Min

\* A list is one of its own elements.
LEMMA ListOfItself ==
    ASSUME NEW S, NEW s \in Seq(S)
    PROVE  s \in Seq(Range(s))
<1>1. DOMAIN s = 1 .. Len(s) /\ Len(s) \in Nat
    OBVIOUS
<1>2. \A i \in 1 .. Len(s) : s[i] \in Range(s)
    BY <1>1 DEF Range
<1> QED BY <1>1, <1>2

\* The empty dict.
LEMMA NothingIs == DOMAIN Nothing = {}
BY DEF Nothing

\* A payload that needs no committed DSS run is right next to any.
LEMMA PayloadGrows ==
    ASSUME NEW first, NEW payload, PayloadOK(Nothing, payload)
    PROVE  PayloadOK(first, payload)
BY NothingIs DEF PayloadOK

\* An attempt of the runner: what it measures, and where it is in the script.
LEMMA AttemptIs ==
    ASSUME Runs, pos <= Len(Script[Job]), Now.do = "attempt"
    PROVE  /\ Job \in Timing /\ PoliciesOf(Job) = Core /\ Gives(Job, Now) = Range(Parts(Now.on))
           /\ Job = "tuning" =>
                /\ Now.on \in Labels("tuning") /\ Parts(Now.on) = <<Now.on>>
                /\ pos # 1 => IsMwu(Now.on)
                /\ pos = 1 => Now.on = "dss"
           /\ Job # "tuning" =>
                /\ Job \in Runtime /\ DOMAIN disk.store.chunks = {}
                /\ Now.on \in {"pair", "full", "cg"} /\ (pos # 1 => Now.on \in {"full", "cg"})
<1>0. Job \in Jobs /\ pos \in DOMAIN Script[Job] /\ Now = Script[Job][pos]
    BY RunningJob DEF Now
<1>1. Job \in Timing
    BY <1>0, EntriesAre
<1>2. PoliciesOf(Job) = Core
    BY <1>1, LibrariesAre DEF Timing
<1>3. Gives(Job, Now) = Range(Parts(Now.on))
    BY DEF Gives
<1>4. ASSUME Job = "tuning"
      PROVE  /\ Now.on \in Labels("tuning") /\ Parts(Now.on) = <<Now.on>>
             /\ pos # 1 => IsMwu(Now.on)
             /\ pos = 1 => Now.on = "dss"
    BY <1>0, <1>4, TuningKeys, LabelIsKey DEF KeyAt
<1>5. ASSUME Job # "tuning"
      PROVE  /\ Job \in Runtime /\ DOMAIN disk.store.chunks = {}
             /\ Now.on \in {"pair", "full", "cg"} /\ (pos # 1 => Now.on \in {"full", "cg"})
    <2>1. Job \in Runtime
        BY <1>1, <1>5 DEF Timing, Runtime
    <2>2. DOMAIN disk.store.chunks = {}
        BY <1>5, RunningJob DEF DiskInv, ChunksOK
    <2> QED BY <1>0, <2>1, <2>2, RuntimeEntries
<1> QED BY <1>1, <1>2, <1>3, <1>4, <1>5

\* After its first step the tuning job holds the DSS run.
LEMMA DssIsFirst ==
    ASSUME NEW p \in Nat, p >= 2
    PROVE  "dss" \in Before("tuning", p)
<1>1. 1 \in DOMAIN Script["tuning"] /\ Script["tuning"][1].do = "attempt" /\ KeyAt(1) = "dss"
    <2>1. 1 \in DOMAIN Script["tuning"]
        BY LengthsAre, ScriptsAre, ConfigsAre
    <2> QED BY <2>1, TuningEntries, ConfigsAre DEF KeyAt
<1>2. Gives("tuning", Script["tuning"][1]) = {"dss"}
    BY <1>1, LabelIsKey
<1>3. 1 \in 1 .. (p - 1)
    OBVIOUS
<1> QED BY <1>2, <1>3 DEF Before

\* What is held of a tuning job and committed has the time of the committed DSS run.
LEMMA CommittedIsBudgeted ==
    ASSUME NEW store, ChunksOK("tuning", store), NEW f, Committed(f, store),
           NEW p \in Nat, p >= 1, DOMAIN f = Before("tuning", p)
    PROVE  Budgeted(f) /\ Sound("tuning", f)
<1>1. Sound("tuning", f)
    <2>1. PoliciesOf("tuning") = Core
        BY LibrariesAre
    <2> QED BY <2>1 DEF Sound, Committed, ChunksOK, PayloadOK
<1>2. ASSUME NEW l \in DOMAIN f, IsMwu(l)
      PROVE  "dss" \in DOMAIN f /\ f[l].budget = f["dss"].time
    <2>1. l # "dss"
        BY <1>2 DEF IsMwu
    <2>2. l \in DOMAIN store.chunks /\ f[l] = store.chunks[l][l] /\ DOMAIN store.chunks[l] = {l}
        BY DEF Committed, ChunksOK
    <2>3. PayloadOK(First(store), store.chunks[l])
        BY <2>2 DEF ChunksOK
    <2>4. "dss" \in DOMAIN First(store) /\ f[l].budget = First(store)["dss"].time
        BY <1>2, <2>1, <2>2, <2>3 DEF PayloadOK
    <2>5. "dss" \in DOMAIN store.chunks /\ First(store) = store.chunks["dss"]
        BY <2>4, NothingIs DEF First
    <2>6. p # 1
        BY BeforeFirst
    <2>7. "dss" \in DOMAIN f
        BY <2>6, DssIsFirst
    <2>8. f["dss"] = store.chunks["dss"]["dss"]
        BY <2>7 DEF Committed
    <2> QED BY <2>4, <2>5, <2>7, <2>8
<1> QED BY <1>1, <1>2 DEF Budgeted

\* The stages before the runner are those before it where it does not go on.
LEMMA PlannedStays ==
    ASSUME Runs, UNCHANGED <<wave, turn, pos, held>>, disk'.store.plans = disk.store.plans,
           step' # "blocks"
    PROVE  PlannedInv'
<1>0. Job' = Job /\ Planned' \subseteq Planned
    BY PlaceStays DEF Planned
<1>1. PlannedInv
    BY RunningJob DEF PlansInv
<1> QED BY <1>0, <1>1 DEF PlannedInv

\* What is held stays committed when it grows by a committed attempt.
LEMMA MergedCommitted ==
    ASSUME NEW store, NEW f, Committed(f, store), NEW key \in DOMAIN store.chunks,
           DOMAIN store.chunks[key] = {key}
    PROVE  Committed(Merged(store.chunks[key], f), store)
<1> DEFINE payload == store.chunks[key]
<1> DEFINE g == Merged(payload, f)
<1> SUFFICES ASSUME NEW l \in DOMAIN g
             PROVE  l \in DOMAIN store.chunks /\ store.chunks[l][l] = g[l]
    BY DEF Committed
<1>1. /\ DOMAIN g = DOMAIN payload \cup DOMAIN f
      /\ \A x \in DOMAIN payload : g[x] = payload[x]
      /\ \A x \in DOMAIN f \ DOMAIN payload : g[x] = f[x]
    BY MergedIs
<1> HIDE DEF g
<1>2. CASE l = key
    BY <1>1, <1>2
<1>3. CASE l # key
    BY <1>1, <1>3 DEF Committed
<1> QED BY <1>2, <1>3

\* An attempt restored from its chunk keeps the invariant.
LEMMA RestoredStep == RunInv /\ TakeRestored => JobInv'
<1> SUFFICES ASSUME RunInv, TakeRestored PROVE JobInv'
    OBVIOUS
<1>0. Runs /\ Now.do = "attempt" /\ pos <= Len(Script[Job])
    BY AtIs DEF TakeRestored
<1>1. /\ UNCHANGED <<wave, faults, turn, remote, beat, failure, selection, results>>
      /\ disk' = disk /\ Job' = Job
    BY KeepsAll, PlaceStays DEF TakeRestored
<1> DEFINE payload == disk.store.chunks[Now.on]
<1>2. Now.on \in DOMAIN disk.store.chunks /\ Holds(payload)
    BY DEF TakeRestored, Restored
<1>3. Job = "tuning" /\ Now.on \in Labels("tuning") /\ Gives(Job, Now) = {Now.on}
    BY <1>0, <1>2, AttemptIs DEF Range
<1>4. ChunksOK("tuning", disk.store) /\ DOMAIN payload = {Now.on}
    BY <1>0, <1>2, <1>3, RunningJob DEF DiskInv, ChunksOK
<1>5. /\ ScriptInv' /\ TrialInv' /\ PlannedInv'
      /\ DOMAIN held' = Before(Job, pos') /\ held' = Merged(payload, held) /\ pos' = pos + 1
    BY <1>0, <1>1, <1>2, <1>3, <1>4, HoldsStep
<1>6. DiskInv' /\ PlansInv' /\ RemoteInv' /\ BeatInv'
    BY <1>0, <1>1, <1>5, DiskStays DEF PlansInv
<1>7. HeldInv'
    <2>1. Committed(held, disk.store)
        BY <1>0, <1>3, RunningJob DEF HeldInv
    <2>2. Committed(held', disk.store)
        BY <1>2, <1>4, <1>5, <2>1, MergedCommitted
    <2>3. pos' \in Nat /\ pos' >= 1
        BY <1>0, <1>5, RunningJob
    <2>4. Budgeted(held') /\ Sound("tuning", held')
        BY <1>3, <1>4, <1>5, <2>2, <2>3, CommittedIsBudgeted
    <2>5. Follows(results, "tuning", held')
        BY DEF Follows, Timing
    <2> QED BY <1>1, <1>3, <1>5, <2>2, <2>4, <2>5 DEF HeldInv
<1>8. SelectionInv'
    BY <1>1, <1>3 DEF SelectionInv, Runtime
<1> QED BY <1>5, <1>6, <1>7, <1>8 DEF JobInv

\* What the runner holds stays while it stays where it is.
LEMMA HeldStays ==
    ASSUME Runs, UNCHANGED <<wave, turn, pos, held, results>>, disk'.store.chunks = disk.store.chunks
    PROVE  HeldInv'
<1>0. Job' = Job
    BY PlaceStays
<1>1. HeldInv
    BY RunningJob
<1>2. Committed(held, disk.store) => Committed(held', disk'.store)
    BY DEF Committed
<1>3. Before(Job', pos') = Before(Job, pos)
    BY <1>0
<1> QED BY <1>0, <1>1, <1>2, <1>3, Zenon DEF HeldInv

\* An attempt that is complete on disk keeps the invariant.
LEMMA CompletedStep == RunInv /\ TakeCompleted => JobInv'
<1> SUFFICES ASSUME RunInv, TakeCompleted PROVE JobInv'
    OBVIOUS
<1>0. Runs /\ Now.do = "attempt" /\ pos <= Len(Script[Job]) /\ step = "look"
    BY AtIs DEF TakeCompleted
<1>1. /\ UNCHANGED <<wave, faults, turn, remote, beat, failure, selection, results>>
      /\ disk' = disk /\ pos' = pos /\ held' = held /\ step' = "commit" /\ Job' = Job /\ Now' = Now
    <2>1. UNCHANGED <<wave, faults, turn, remote, beat, failure, selection, results>>
        BY KeepsAll DEF TakeCompleted
    <2> QED BY <2>1, PlaceStays DEF TakeCompleted, Now
<1> DEFINE key == Now.on
<1> DEFINE made == Made(key)
<1> DEFINE least == Min(Completed(key))
<1>2. trial' = made[least] /\ key \notin DOMAIN disk.store.chunks /\ Completed(key) # {}
    BY DEF TakeCompleted, Restored, FoundOnDisk
<1>3. key \in DOMAIN disk.attempts /\ made = disk.attempts[key] /\ made \in Seq(Range(made))
    <2>1. key \in DOMAIN disk.attempts
        BY <1>2 DEF Completed, Made
    <2> QED BY <1>0, <2>1, RunningJob DEF Made, DiskInv, AttemptsOK
<1>4. least \in DOMAIN made /\ made[least] # Nothing
    <2>1. Completed(key) \subseteq Nat
        BY <1>3 DEF Completed
    <2>2. least \in Completed(key)
        BY <1>2, <2>1, LeastIs
    <2> QED BY <2>2 DEF Completed
<1>5. DOMAIN trial' = Range(Parts(key)) /\ PayloadOK(First(disk.store), trial')
    BY <1>0, <1>2, <1>3, <1>4, RunningJob DEF DiskInv, AttemptsOK
<1>6. TrialInv'
    <2>1. PayloadOK(First(disk'.store), trial')
        BY <1>1, <1>5
    <2> QED BY <1>1, <1>2, <1>5, <2>1 DEF TrialInv
<1>7. ScriptInv'
    BY <1>0, <1>1, RunningJob DEF ScriptInv
<1>8. HeldInv' /\ PlannedInv'
    BY <1>0, <1>1, HeldStays, PlannedStays
<1>9. DiskInv' /\ PlansInv' /\ RemoteInv' /\ BeatInv'
    BY <1>0, <1>1, <1>8, DiskStays DEF PlansInv
<1>10. SelectionInv'
    BY <1>0, <1>1, <1>3, RunningJob DEF SelectionInv
<1> QED BY <1>6, <1>7, <1>8, <1>9, <1>10, Zenon DEF JobInv

\* The list of attempts for one more label, or one that is longer.
LEMMA AttemptsGrow ==
    ASSUME NEW first, NEW attempts, AttemptsOK(first, attempts), NEW key, NEW made,
           made \in Seq(Range(made)),
           \A i \in DOMAIN made : made[i] # Nothing =>
               DOMAIN made[i] = Range(Parts(key)) /\ PayloadOK(first, made[i])
    PROVE  AttemptsOK(first, With(attempts, key, made))
<1> DEFINE g == With(attempts, key, made)
<1>1. DOMAIN g = DOMAIN attempts \cup {key} /\ g[key] = made /\ \A x \in DOMAIN attempts \ {key} : g[x] = attempts[x]
    BY DEF With
<1> SUFFICES ASSUME NEW k \in DOMAIN g
             PROVE  /\ g[k] \in Seq(Range(g[k]))
                    /\ \A i \in DOMAIN g[k] : g[k][i] # Nothing =>
                        DOMAIN g[k][i] = Range(Parts(k)) /\ PayloadOK(first, g[k][i])
    BY Zenon DEF AttemptsOK
<1> HIDE DEF g
<1>2. CASE k = key
    BY <1>1, <1>2
<1>3. CASE k # key
    BY <1>1, <1>3 DEF AttemptsOK
<1> QED BY <1>2, <1>3

\* The attempts that were made under a label.
LEMMA MadeIs ==
    ASSUME Runs, NEW key
    PROVE  /\ Made(key) \in Seq(Range(Made(key)))
           /\ \A i \in DOMAIN Made(key) : Made(key)[i] # Nothing =>
               DOMAIN Made(key)[i] = Range(Parts(key)) /\ PayloadOK(First(disk.store), Made(key)[i])
<1>1. AttemptsOK(First(disk.store), disk.attempts)
    BY RunningJob DEF DiskInv
<1>2. CASE key \in DOMAIN disk.attempts
    BY <1>1, <1>2 DEF Made, AttemptsOK
<1>3. CASE key \notin DOMAIN disk.attempts
    <2>1. Made(key) = <<>>
        BY <1>3 DEF Made
    <2> QED BY <2>1 DEF Range
<1> QED BY <1>2, <1>3

\* A directory of the attempts of a step is written.
LEMMA AttemptsWritten ==
    ASSUME Runs, UNCHANGED <<wave, turn, faults, results, remote, beat>>,
           NEW key, NEW made, disk' = WithAttempts(key, made), made \in Seq(Range(made)),
           \A i \in DOMAIN made : made[i] # Nothing =>
               DOMAIN made[i] = Range(Parts(key)) /\ PayloadOK(First(disk.store), made[i])
    PROVE  /\ DiskInv' /\ DeterminedInv' /\ RemoteInv' /\ BeatInv'
           /\ faults' # {"disk_lost", "slow_upload"} => TuningPlanOK(Job', disk'.store)
           /\ disk'.store = disk.store /\ disk'.attempts = With(disk.attempts, key, made)
<1>1. disk = [store |-> disk.store, attempts |-> disk.attempts]
    BY RunningJob DEF DiskInv
<1>2. disk' = [store |-> disk.store, attempts |-> With(disk.attempts, key, made)]
    BY <1>1 DEF WithAttempts
<1>3. disk'.store = disk.store /\ disk'.attempts = With(disk.attempts, key, made)
    BY <1>2
<1>4. AttemptsOK(First(disk'.store), disk.attempts)
    BY <1>3, StoresStay
<1>5. AttemptsOK(First(disk'.store), disk'.attempts)
    BY <1>3, <1>4, AttemptsGrow
<1>6. DiskInv'
    BY <1>2, <1>3, <1>5, StoresStay DEF DiskInv
<1> QED BY <1>3, <1>6, StoresStay

\* A new attempt keeps the invariant.
LEMMA StartStep == RunInv /\ StartAttempt => JobInv'
<1> SUFFICES ASSUME RunInv, StartAttempt PROVE JobInv'
    OBVIOUS
<1>0. Runs /\ Now.do = "attempt" /\ pos <= Len(Script[Job]) /\ step = "look"
    BY AtIs DEF StartAttempt
<1>1. /\ UNCHANGED <<wave, faults, turn, remote, beat, failure, selection, results>>
      /\ pos' = pos /\ held' = held /\ step' = "measure" /\ trial' = Nothing /\ Job' = Job /\ Now' = Now
    <2>1. UNCHANGED <<wave, faults, turn, remote, beat, failure, selection, results>>
        BY KeepsAll DEF StartAttempt
    <2> QED BY <2>1, PlaceStays DEF StartAttempt, Now
<1> DEFINE key == Now.on
<1> DEFINE made == Append(Made(key), Nothing)
<1>2. disk' = WithAttempts(key, made) /\ key \notin DOMAIN disk.store.chunks
    BY DEF StartAttempt, Restored
<1>3. made \in Seq(Range(Made(key)) \cup {Nothing}) /\ made # <<>>
      /\ \A i \in DOMAIN made : made[i] = Nothing \/ (i \in DOMAIN Made(key) /\ made[i] = Made(key)[i])
    <2>1. Made(key) \in Seq(Range(Made(key)) \cup {Nothing})
        BY <1>0, MadeIs
    <2> QED BY <2>1
<1>4. made \in Seq(Range(made))
    BY <1>3, ListOfItself
<1>5. \A i \in DOMAIN made : made[i] # Nothing =>
          DOMAIN made[i] = Range(Parts(key)) /\ PayloadOK(First(disk.store), made[i])
    BY <1>0, <1>3, MadeIs
<1> HIDE DEF made
<1>6. /\ DiskInv' /\ DeterminedInv' /\ RemoteInv' /\ BeatInv'
      /\ faults' # {"disk_lost", "slow_upload"} => TuningPlanOK(Job', disk'.store)
      /\ disk'.store = disk.store /\ disk'.attempts = With(disk.attempts, key, made)
    BY <1>0, <1>1, <1>2, <1>4, <1>5, AttemptsWritten
<1>7. key \in DOMAIN disk'.attempts /\ disk'.attempts[key] = made
    BY <1>6 DEF With
<1>8. TrialInv'
    <2>1. PayloadOK(First(disk'.store), trial') /\ DOMAIN trial' = {}
        BY <1>1, NothingIs DEF PayloadOK
    <2> QED BY <1>1, <1>2, <1>3, <1>6, <1>7, <2>1 DEF TrialInv
<1>9. ScriptInv'
    BY <1>0, <1>1, RunningJob DEF ScriptInv
<1>10. HeldInv' /\ PlannedInv'
    BY <1>0, <1>1, <1>6, HeldStays, PlannedStays
<1>11. PlansInv'
    BY <1>6, <1>10 DEF PlansInv
<1>12. SelectionInv'
    BY <1>1, Zenon DEF SelectionInv, StartAttempt, SelectionLoaded, Runtime
<1> QED BY <1>6, <1>8, <1>9, <1>10, <1>11, <1>12, Zenon DEF JobInv

\* The distributions an attempt measures.
LEMMA PartsAre ==
    /\ DOMAIN Parts("pair") = 1 .. 2 /\ Parts("pair")[1] = "dss" /\ Parts("pair")[2] = "mwu"
    /\ Range(Parts("pair")) = {"dss", "mwu"}
    /\ \A key : key # "pair" =>
        DOMAIN Parts(key) = {1} /\ Parts(key)[1] = key /\ Range(Parts(key)) = {key}
<1>1. Parts("pair") = <<"dss", "mwu">>
    BY DEF Parts
<1>2. ASSUME NEW key, key # "pair"
      PROVE  DOMAIN Parts(key) = {1} /\ Parts(key)[1] = key /\ Range(Parts(key)) = {key}
    <2>1. Parts(key) = <<key>>
        BY <1>2 DEF Parts
    <2> QED BY <2>1 DEF Range
<1>3. Range(Parts("pair")) = {"dss", "mwu"}
    BY <1>1 DEF Range
<1> QED BY <1>1, <1>2, <1>3

\* What a solver finds is a distribution of the core game.
LEMMA MeasurementIs ==
    ASSUME Runs, Job \in Timing, NEW label, NEW m \in Measurement(label)
    PROVE  /\ Freezable(m.q, Core)
           /\ IsMwu(label) => m.budget = Merged(trial, held)["dss"].time
<1>1. Freezable(Solved[Job], Core)
    <2>1. Job \in Jobs \ {"evidence", "sparse", "transplant"} /\ Job # "expanded"
        BY RunningJob DEF Timing
    <2> QED BY <2>1, SolverAssumption, LibrariesAre
<1>2. CASE IsMwu(label)
    <2>1. m \in MwuRun(Merged(trial, held)["dss"].time)
        <3>1. Measurement(label) = MwuRun(Merged(trial, held)["dss"].time)
            BY <1>2 DEF Measurement, IsMwu
        <3> QED BY <3>1
    <2>2. PICK q \in Measured : m = [q |-> q, time |-> 0, budget |-> Merged(trial, held)["dss"].time, confirmed |-> FALSE]
        BY <2>1 DEF MwuRun
    <2> QED BY <2>2, SolverAssumption
<1>3. CASE label = "dss"
    <2>1. m \in DssRun /\ ~IsMwu(label)
        BY <1>3 DEF Measurement, IsMwu
    <2> QED BY <1>1, <2>1 DEF DssRun
<1>4. CASE ~IsMwu(label) /\ label # "dss"
    <2>1. m \in ExactRun
        BY <1>4 DEF Measurement
    <2> QED BY <1>1, <1>4, <2>1 DEF ExactRun
<1> QED BY <1>2, <1>3, <1>4

\* A measurement next to the others of its attempt: MWU has the time of the DSS run of its
\* own attempt or, in the tuning pipeline, of the committed one.
LEMMA OneMore ==
    ASSUME Runs, pos <= Len(Script[Job]), Now.do = "attempt", step = "measure",
           NEW i \in DOMAIN Parts(Now.on), NEW label, label = Parts(Now.on)[i], label \notin DOMAIN trial,
           \A k \in 1 .. (i - 1) : Parts(Now.on)[k] \in DOMAIN trial,
           NEW m \in Measurement(label)
    PROVE  PayloadOK(First(disk.store), With(trial, label, m))
<1> DEFINE f == With(trial, label, m)
<1> DEFINE first == First(disk.store)
<1>1. /\ DOMAIN f = DOMAIN trial \cup {label} /\ f[label] = m
      /\ \A x \in DOMAIN trial : f[x] = trial[x]
    BY DEF With
<1>2. PayloadOK(first, trial) /\ DOMAIN trial \subseteq Range(Parts(Now.on))
    BY RunningJob DEF TrialInv
<1>3. Freezable(m.q, Core) /\ (IsMwu(label) => m.budget = Merged(trial, held)["dss"].time)
    BY AttemptIs, MeasurementIs
<1> HIDE DEF f
<1>4. ASSUME NEW l \in DOMAIN f
      PROVE  Freezable(f[l].q, Core)
    BY <1>1, <1>2, <1>3 DEF PayloadOK
<1>5. ASSUME NEW l \in DOMAIN f, IsMwu(l), "dss" \in DOMAIN f
      PROVE  f[l].budget = f["dss"].time
    <2>0. l # "dss" /\ l \in Range(Parts(Now.on)) /\ "dss" \in Range(Parts(Now.on))
        <3>1. label \in Range(Parts(Now.on))
            BY DEF Range
        <3> QED BY <1>1, <1>2, <1>5, <3>1 DEF IsMwu
    <2>1. Now.on = "pair" /\ l = "mwu"
        BY <2>0, PartsAre
    <2>2. first = Nothing
        <3>1. Job # "tuning"
            BY <2>0, <2>1, AttemptIs, PartsAre
        <3>2. DOMAIN disk.store.chunks = {}
            BY <3>1, AttemptIs
        <3> QED BY <3>2 DEF First
    <2>3. CASE label = "mwu"
        <3>1. i = 2
            BY <2>1, <2>3, PartsAre
        <3>2. "dss" \in DOMAIN trial
            BY <2>1, <3>1, PartsAre
        <3>3. Merged(trial, held)["dss"] = trial["dss"]
            BY <3>2 DEF Merged
        <3> QED BY <1>1, <1>3, <2>1, <2>3, <3>2, <3>3 DEF IsMwu
    <2>4. CASE label # "mwu"
        <3>1. l \in DOMAIN trial
            BY <1>1, <2>1, <2>4
        <3>2. "dss" \in DOMAIN trial
            BY <1>2, <1>5, <2>2, <3>1, NothingIs DEF PayloadOK
        <3> QED BY <1>1, <1>2, <1>5, <3>1, <3>2 DEF PayloadOK
    <2> QED BY <2>3, <2>4
<1>6. ASSUME NEW l \in DOMAIN f, IsMwu(l), "dss" \notin DOMAIN f
      PROVE  "dss" \in DOMAIN first /\ f[l].budget = first["dss"].time
    <2>1. CASE l # label
        BY <1>1, <1>2, <1>6, <2>1 DEF PayloadOK
    <2>2. CASE l = label
        <3>1. Job = "tuning"
            <4>1. ASSUME Job # "tuning" PROVE FALSE
                <5>1. Now.on \in {"pair", "full", "cg"}
                    BY <4>1, AttemptIs
                <5>2. label = "mwu" /\ Now.on = "pair"
                    BY <1>6, <2>2, <5>1, PartsAre DEF IsMwu
                <5>3. i = 2
                    <6>1. i \in DOMAIN Parts("pair") /\ Parts("pair")[i] = "mwu"
                        BY <5>2
                    <6> QED BY ONLY <6>1, PartsAre
                <5>4. "dss" \in DOMAIN trial
                    BY <5>2, <5>3, PartsAre
                <5> QED BY <1>1, <1>6, <5>4
            <4> QED BY <4>1
        <3>2. label = Now.on
            BY <3>1, AttemptIs
        <3>3. pos # 1
            BY <1>6, <2>2, <3>1, <3>2, AttemptIs DEF IsMwu
        <3>4. "dss" \in DOMAIN held
            <4>1. pos \in Nat /\ pos >= 2 /\ DOMAIN held = Before("tuning", pos)
                BY <3>1, <3>3, RunningJob DEF HeldInv
            <4> QED BY <4>1, DssIsFirst
        <3>5. "dss" \in DOMAIN disk.store.chunks /\ disk.store.chunks["dss"]["dss"] = held["dss"]
            BY <3>1, <3>4, RunningJob DEF HeldInv, Committed
        <3>6. first = disk.store.chunks["dss"] /\ DOMAIN first = {"dss"}
            <4>1. ChunksOK(Job, disk.store)
                BY RunningJob DEF DiskInv
            <4> QED BY <3>5, <4>1 DEF First, ChunksOK
        <3>7. Merged(trial, held)["dss"] = held["dss"]
            <4>1. "dss" \in DOMAIN held \ DOMAIN trial
                BY <1>1, <1>6, <3>4
            <4> QED BY <4>1 DEF Merged
        <3> QED BY <1>1, <1>3, <1>6, <2>2, <3>5, <3>6, <3>7
    <2> QED BY <2>1, <2>2
<1> HIDE DEF first
<1>7. PayloadOK(first, f)
    BY ONLY <1>4, <1>5, <1>6, Zenon DEF PayloadOK
<1> QED BY <1>7 DEF f, first

\* A measurement keeps the invariant: MWU gets the time of the DSS run that is held.
LEMMA MeasureStep == RunInv /\ Measure => JobInv'
<1> SUFFICES ASSUME RunInv, Measure PROVE JobInv'
    OBVIOUS
<1>0. Runs /\ Now.do = "attempt" /\ pos <= Len(Script[Job]) /\ step = "measure"
    BY AtIs DEF Measure
<1>1. /\ UNCHANGED <<wave, faults, turn, remote, beat, failure, selection, results>>
      /\ disk' = disk /\ pos' = pos /\ held' = held /\ step' = step /\ Job' = Job /\ Now' = Now
    <2>1. UNCHANGED <<wave, faults, turn, remote, beat, failure, selection, results>>
        BY KeepsAll DEF Measure
    <2> QED BY <2>1, PlaceStays DEF Measure, Now
<1>2. PICK i \in DOMAIN Parts(Now.on) :
        LET label == Parts(Now.on)[i] IN
        /\ label \notin DOMAIN trial
        /\ \A k \in 1 .. (i - 1) : Parts(Now.on)[k] \in DOMAIN trial
        /\ \E m \in Measurement(label) : trial' = With(trial, label, m)
    BY DEF Measure
<1> DEFINE label == Parts(Now.on)[i]
<1>3. /\ label \notin DOMAIN trial /\ label \in Range(Parts(Now.on))
      /\ \A k \in 1 .. (i - 1) : Parts(Now.on)[k] \in DOMAIN trial
    BY <1>2 DEF Range
<1>4. PICK m \in Measurement(label) : trial' = With(trial, label, m)
    BY <1>2
<1>5. PayloadOK(First(disk.store), trial')
    BY <1>0, <1>3, <1>4, OneMore
<1>6. DOMAIN trial' = DOMAIN trial \cup {label}
    BY <1>4 DEF With
<1> HIDE DEF label
<1>7. TrialInv'
    <2>1. TrialInv
        BY <1>0, RunningJob
    <2>2. PayloadOK(First(disk'.store), trial')
        BY <1>1, <1>5
    <2> QED BY <1>0, <1>1, <1>3, <1>6, <2>1, <2>2 DEF TrialInv
<1>8. ScriptInv'
    BY <1>0, <1>1, RunningJob DEF ScriptInv
<1>9. HeldInv' /\ PlannedInv'
    BY <1>0, <1>1, HeldStays, PlannedStays
<1>10. DiskInv' /\ PlansInv' /\ RemoteInv' /\ BeatInv'
    BY <1>0, <1>1, <1>9, DiskStays DEF PlansInv
<1>11. SelectionInv'
    BY <1>0, <1>1, RunningJob DEF SelectionInv
<1> QED BY <1>7, <1>8, <1>9, <1>10, <1>11, Zenon DEF JobInv

\* The completion of an attempt keeps the invariant.
LEMMA CompleteStep == RunInv /\ CompleteAttempt => JobInv'
<1> SUFFICES ASSUME RunInv, CompleteAttempt PROVE JobInv'
    OBVIOUS
<1>0. Runs /\ Now.do = "attempt" /\ pos <= Len(Script[Job]) /\ step = "measure"
    BY AtIs DEF CompleteAttempt
<1>1. /\ UNCHANGED <<wave, faults, turn, remote, beat, failure, selection, results>>
      /\ pos' = pos /\ held' = held /\ trial' = trial /\ step' = "commit" /\ Job' = Job /\ Now' = Now
    <2>1. UNCHANGED <<wave, faults, turn, remote, beat, failure, selection, results>>
        BY KeepsAll DEF CompleteAttempt
    <2> QED BY <2>1, PlaceStays DEF CompleteAttempt, Now
<1> DEFINE key == Now.on
<1> DEFINE made == [Made(key) EXCEPT ![Len(Made(key))] = trial]
<1>2. disk' = WithAttempts(key, made) /\ DOMAIN trial = Range(Parts(key))
    BY DEF CompleteAttempt
<1>3. TrialInv /\ PayloadOK(First(disk.store), trial) /\ Made(key) # <<>>
    BY <1>0, RunningJob DEF TrialInv, Made
<1>4. /\ made \in Seq(Range(Made(key)) \cup {trial})
      /\ \A i \in DOMAIN made : made[i] = trial \/ (i \in DOMAIN Made(key) /\ made[i] = Made(key)[i])
    <2>1. Made(key) \in Seq(Range(Made(key)) \cup {trial})
        BY <1>0, MadeIs
    <2>2. Len(Made(key)) \in DOMAIN Made(key)
        BY <1>3, <2>1
    <2> QED BY <2>1, <2>2
<1>5. made \in Seq(Range(made))
    BY <1>4, ListOfItself
<1>6. \A i \in DOMAIN made : made[i] # Nothing =>
          DOMAIN made[i] = Range(Parts(key)) /\ PayloadOK(First(disk.store), made[i])
    BY <1>0, <1>2, <1>3, <1>4, MadeIs
<1> HIDE DEF made
<1>7. /\ DiskInv' /\ DeterminedInv' /\ RemoteInv' /\ BeatInv'
      /\ faults' # {"disk_lost", "slow_upload"} => TuningPlanOK(Job', disk'.store)
      /\ disk'.store = disk.store
    BY <1>0, <1>1, <1>2, <1>5, <1>6, AttemptsWritten
<1>8. TrialInv'
    <2>1. PayloadOK(First(disk'.store), trial')
        BY <1>1, <1>3, <1>7
    <2> QED BY <1>0, <1>1, <1>2, <1>3, <1>7, <2>1 DEF TrialInv
<1>9. ScriptInv'
    BY <1>0, <1>1, RunningJob DEF ScriptInv
<1>10. HeldInv' /\ PlannedInv'
    BY <1>0, <1>1, <1>7, HeldStays, PlannedStays
<1>11. PlansInv'
    BY <1>7, <1>10 DEF PlansInv
<1>12. SelectionInv'
    BY <1>0, <1>1, RunningJob DEF SelectionInv
<1> QED BY <1>7, <1>8, <1>9, <1>10, <1>11, <1>12, Zenon DEF JobInv

\* A store that a committed attempt was added to.
AddsChunk(store, grown, key, payload) ==
    grown = [chunks |-> With(store.chunks, key, payload), plans |-> store.plans, blocks |-> store.blocks]

\* What a store has that differs by one chunk.
LEMMA ChunkAdded ==
    ASSUME NEW store, StoreShape(store), NEW grown, NEW key, NEW payload,
           AddsChunk(store, grown, key, payload)
    PROVE  /\ grown.chunks = With(store.chunks, key, payload) /\ StoreShape(grown)
           /\ DOMAIN grown.chunks = DOMAIN store.chunks \cup {key} /\ grown.chunks[key] = payload
           /\ \A k \in DOMAIN store.chunks : k # key => grown.chunks[k] = store.chunks[k]
           /\ grown.plans = store.plans /\ grown.blocks = store.blocks
<1>1. /\ grown.chunks = With(store.chunks, key, payload)
      /\ grown.plans = store.plans /\ grown.blocks = store.blocks
      /\ grown = [chunks |-> grown.chunks, plans |-> grown.plans, blocks |-> grown.blocks]
    BY DEF AddsChunk
<1>2. StoreShape(grown)
    BY <1>1, Zenon DEF StoreShape
<1>3. /\ DOMAIN grown.chunks = DOMAIN store.chunks \cup {key} /\ grown.chunks[key] = payload
      /\ \A k \in DOMAIN store.chunks : k # key => grown.chunks[k] = store.chunks[k]
    BY <1>1 DEF With
<1> QED BY <1>1, <1>2, <1>3

\* The committed DSS run is still the one that counts, if there was one.
LEMMA FirstStays ==
    ASSUME NEW store, StoreShape(store), NEW grown, NEW key, NEW payload,
           AddsChunk(store, grown, key, payload), key \notin DOMAIN store.chunks,
           NEW p, PayloadOK(First(store), p)
    PROVE  PayloadOK(First(grown), p)
<1>1. /\ DOMAIN grown.chunks = DOMAIN store.chunks \cup {key}
      /\ \A k \in DOMAIN store.chunks : grown.chunks[k] = store.chunks[k]
    BY ChunkAdded
<1>2. CASE "dss" \in DOMAIN store.chunks
    <2>1. First(grown) = First(store)
        BY <1>1, <1>2 DEF First
    <2> QED BY <2>1
<1>3. CASE "dss" \notin DOMAIN store.chunks
    <2>1. First(store) = Nothing
        BY <1>3 DEF First
    <2> QED BY <2>1, PayloadGrows
<1> QED BY <1>2, <1>3

\* A chunk that is right keeps a store right.
LEMMA ChunksStaySound ==
    ASSUME NEW store, StoreShape(store), ChunksOK("tuning", store), NEW grown, NEW key, NEW payload,
           AddsChunk(store, grown, key, payload), key \notin DOMAIN store.chunks,
           key \in Labels("tuning"), DOMAIN payload = {key}, PayloadOK(First(store), payload)
    PROVE  ChunksOK("tuning", grown)
<1>1. /\ DOMAIN grown.chunks = DOMAIN store.chunks \cup {key} /\ grown.chunks[key] = payload
      /\ \A k \in DOMAIN store.chunks : grown.chunks[k] = store.chunks[k]
    BY ChunkAdded
<1> SUFFICES ASSUME NEW k \in DOMAIN grown.chunks
             PROVE  /\ DOMAIN grown.chunks[k] = {k} /\ k \in Labels("tuning")
                    /\ PayloadOK(First(grown), grown.chunks[k])
    BY DEF ChunksOK
<1>2. PayloadOK(First(store), grown.chunks[k]) /\ DOMAIN grown.chunks[k] = {k} /\ k \in Labels("tuning")
    BY <1>1 DEF ChunksOK
<1> QED BY <1>2, FirstStays

\* The attempts on disk stay right next to one more chunk.
LEMMA AttemptsStaySound ==
    ASSUME NEW store, StoreShape(store), NEW grown, NEW key, NEW payload,
           AddsChunk(store, grown, key, payload), key \notin DOMAIN store.chunks,
           NEW attempts, AttemptsOK(First(store), attempts)
    PROVE  AttemptsOK(First(grown), attempts)
<1>1. \A p : PayloadOK(First(store), p) => PayloadOK(First(grown), p)
    BY FirstStays
<1> QED BY <1>1, Zenon DEF AttemptsOK

\* What the runner holds after an attempt that stays in its directory.
LEMMA RuntimeHolds ==
    ASSUME Runs, pos <= Len(Script[Job]), Now.do = "attempt", step = "commit", Job # "tuning"
    PROVE  Budgeted(Merged(trial, held)) /\ Sound(Job, Merged(trial, held))
<1> DEFINE f == Merged(trial, held)
<1>0. Job \in Runtime /\ PoliciesOf(Job) = Core /\ Now.on \in {"pair", "full", "cg"}
      /\ (pos # 1 => Now.on \in {"full", "cg"}) /\ DOMAIN disk.store.chunks = {}
    BY AttemptIs
<1>1. HeldInv /\ Job \in Timed
    BY <1>0, RunningJob DEF Runtime, Timed
<1>2. Budgeted(held) /\ Sound(Job, held) /\ DOMAIN held = Before(Job, pos)
    BY <1>1 DEF HeldInv
<1>3. DOMAIN trial = Range(Parts(Now.on)) /\ PayloadOK(First(disk.store), trial)
    BY RunningJob DEF TrialInv
<1>4. First(disk.store) = Nothing
    BY <1>0 DEF First
<1>5. /\ DOMAIN f = DOMAIN trial \cup DOMAIN held
      /\ \A x \in DOMAIN trial : f[x] = trial[x]
      /\ \A x \in DOMAIN held \ DOMAIN trial : f[x] = held[x]
    BY DEF Merged
<1> HIDE DEF f
<1>6. Sound(Job, f)
    BY <1>0, <1>2, <1>3, <1>5 DEF Sound, PayloadOK
<1>7. Budgeted(f)
    <2>1. CASE Now.on = "pair"
        <3>1. pos = 1
            BY <1>0, <2>1
        <3>2. DOMAIN held = {}
            BY <1>2, <3>1, BeforeFirst
        <3>3. "dss" \in DOMAIN trial
            BY <1>3, <2>1, PartsAre
        <3> QED BY <1>3, <1>5, <3>2, <3>3 DEF Budgeted, PayloadOK
    <2>2. CASE Now.on \in {"full", "cg"}
        <3>1. DOMAIN trial = {Now.on}
            BY <1>3, <2>2, PartsAre
        <3>2. "dss" \notin DOMAIN trial /\ \A l \in DOMAIN trial : ~IsMwu(l)
            BY <2>2, <3>1 DEF IsMwu
        <3> QED BY <1>2, <1>5, <3>2 DEF Budgeted
    <2> QED BY <1>0, <2>1, <2>2
<1> QED BY <1>6, <1>7 DEF f

\* The end of an attempt of a runtime job keeps the invariant.
LEMMA CommitRuntimeStep == RunInv /\ CommitAttempt /\ Job # "tuning" => JobInv'
<1> SUFFICES ASSUME RunInv, CommitAttempt, Job # "tuning" PROVE JobInv'
    OBVIOUS
<1>0. Runs /\ Now.do = "attempt" /\ pos <= Len(Script[Job]) /\ step = "commit"
    BY AtIs DEF CommitAttempt
<1>1. /\ UNCHANGED <<wave, faults, turn, remote, beat, failure, selection, results>>
      /\ disk' = disk /\ Job' = Job /\ Holds(trial)
    <2>1. UNCHANGED <<wave, faults, turn, remote, beat, failure, selection, results>>
        BY KeepsAll DEF CommitAttempt
    <2> QED BY <2>1, PlaceStays DEF CommitAttempt
<1>2. DOMAIN trial = Range(Parts(Now.on)) /\ Gives(Job, Now) = Range(Parts(Now.on))
    BY <1>0, RunningJob, AttemptIs DEF TrialInv
<1>3. /\ ScriptInv' /\ TrialInv' /\ PlannedInv'
      /\ DOMAIN held' = Before(Job, pos') /\ held' = Merged(trial, held) /\ pos' = pos + 1
    BY <1>0, <1>1, <1>2, HoldsStep
<1>4. Job \in Runtime /\ Job \in Timing
    BY <1>0, AttemptIs
<1>5. HeldInv'
    <2>1. Budgeted(held') /\ Sound(Job, held')
        BY <1>0, <1>3, RuntimeHolds
    <2>2. Follows(results, Job, held')
        BY <1>4 DEF Follows
    <2> QED BY <1>1, <1>3, <2>1, <2>2 DEF HeldInv
<1>6. DiskInv' /\ PlansInv' /\ RemoteInv' /\ BeatInv'
    BY <1>0, <1>1, <1>3, DiskStays DEF PlansInv
<1>7. SelectionInv'
    BY <1>0, <1>1, RunningJob DEF SelectionInv
<1> QED BY <1>3, <1>5, <1>6, <1>7, Zenon DEF JobInv

\* A chunk the tuning job commits keeps the invariant.
LEMMA CommitTuningStep == RunInv /\ CommitAttempt /\ Job = "tuning" => JobInv'
<1> SUFFICES ASSUME RunInv, CommitAttempt, Job = "tuning" PROVE JobInv'
    OBVIOUS
<1>0. Runs /\ Now.do = "attempt" /\ pos <= Len(Script[Job]) /\ step = "commit"
    BY AtIs DEF CommitAttempt
<1>1. /\ UNCHANGED <<wave, faults, turn, remote, beat, failure, selection, results>>
      /\ Job' = "tuning" /\ Holds(trial) /\ MayRun
      /\ disk' = [disk EXCEPT !.store.chunks = With(@, Now.on, trial)]
    <2>1. UNCHANGED <<wave, faults, turn, remote, beat, failure, selection, results>>
        BY KeepsAll DEF CommitAttempt
    <2> QED BY <2>1, PlaceStays DEF CommitAttempt
<1> DEFINE key == Now.on
<1>2. key \in Labels("tuning") /\ Gives(Job, Now) = {key} /\ Range(Parts(key)) = {key}
    BY <1>0, AttemptIs DEF Range
<1>3. DOMAIN trial = {key} /\ PayloadOK(First(disk.store), trial) /\ key \notin DOMAIN disk.store.chunks
    BY <1>0, <1>2, RunningJob DEF TrialInv
<1>4. /\ disk = [store |-> disk.store, attempts |-> disk.attempts]
      /\ StoreShape(disk.store) /\ ChunksOK("tuning", disk.store)
      /\ AttemptsOK(First(disk.store), disk.attempts)
    BY <1>0, RunningJob DEF DiskInv
<1>5. /\ AddsChunk(disk.store, disk'.store, key, trial) /\ disk'.attempts = disk.attempts
      /\ disk' = [store |-> disk'.store, attempts |-> disk'.attempts]
    <2>1. disk.store = [chunks |-> disk.store.chunks, plans |-> disk.store.plans, blocks |-> disk.store.blocks]
        BY <1>4 DEF StoreShape
    <2>2. disk' = [store |-> [chunks |-> With(disk.store.chunks, key, trial), plans |-> disk.store.plans,
                              blocks |-> disk.store.blocks],
                   attempts |-> disk.attempts]
        BY ONLY <1>1, <1>4, <2>1
    <2> QED BY ONLY <2>2 DEF AddsChunk
<1>6. /\ StoreShape(disk'.store) /\ disk'.store.plans = disk.store.plans
      /\ DOMAIN disk'.store.chunks = DOMAIN disk.store.chunks \cup {key} /\ disk'.store.chunks[key] = trial
      /\ \A k \in DOMAIN disk.store.chunks : disk'.store.chunks[k] = disk.store.chunks[k]
    BY <1>3, <1>4, <1>5, ChunkAdded
<1>7. ChunksOK("tuning", disk'.store) /\ AttemptsOK(First(disk'.store), disk.attempts)
    BY <1>2, <1>3, <1>4, <1>5, ChunksStaySound, AttemptsStaySound
<1>8. DiskInv'
    <2>1. AttemptsOK(First(disk'.store), disk'.attempts)
        BY <1>5, <1>7
    <2> QED BY <1>1, <1>5, <1>6, <1>7, <2>1 DEF DiskInv
<1>9. /\ ScriptInv' /\ TrialInv' /\ PlannedInv'
      /\ DOMAIN held' = Before(Job, pos') /\ held' = Merged(trial, held) /\ pos' = pos + 1
    BY <1>0, <1>1, <1>2, <1>3, <1>6, HoldsStep
<1>10. HeldInv'
    <2>1. Committed(held, disk'.store)
        BY <1>0, <1>6, RunningJob DEF HeldInv, Committed
    <2>2. Committed(held', disk'.store)
        BY <1>3, <1>6, <1>9, <2>1, MergedCommitted
    <2>3. pos' \in Nat /\ pos' >= 1
        BY <1>0, <1>9, RunningJob
    <2>4. Budgeted(held') /\ Sound("tuning", held')
        BY <1>7, <1>9, <2>2, <2>3, CommittedIsBudgeted
    <2>5. Follows(results', "tuning", held')
        BY DEF Follows, Timing
    <2> QED BY <1>1, <1>9, <2>2, <2>4, <2>5 DEF HeldInv
<1>11. PlansInv'
    <2>1. DeterminedInv'
        BY <1>1 DEF DeterminedInv, Timing
    <2>2. faults' # {"disk_lost", "slow_upload"} => TuningPlanOK(Job', disk'.store)
        <3>1. PlansInv
            BY <1>0, RunningJob
        <3> QED BY <1>1, <1>2, <1>3, <1>6, <3>1 DEF PlansInv, TuningPlanOK
    <2> QED BY <1>9, <2>1, <2>2 DEF PlansInv
<1>12. RemoteInv'
    <2>1. RemoteInv
        BY <1>0, RunningJob
    <2>2. Uploaded(remote, disk'.store)
        BY <1>3, <1>6, <2>1 DEF RemoteInv, Uploaded
    <2> QED BY <1>1, <2>1, <2>2 DEF RemoteInv
<1>13. BeatInv'
    <2>1. BeatInv
        BY <1>0, RunningJob
    <2>2. beat.at > 0 => "slow_upload" \in faults
        BY <1>1, <2>1 DEF MayRun, BeatInv
    <2>3. TuningBeat(beat.at, beat.todo, disk.store, remote, "slow_upload" \in faults)
        BY <2>1 DEF BeatInv
    <2>4. TuningBeat(beat.at, beat.todo, disk'.store, remote, "slow_upload" \in faults)
        BY <1>6, <2>2, <2>3 DEF TuningBeat
    <2> QED BY <1>1, <2>1, <2>4 DEF BeatInv
<1>14. SelectionInv'
    BY <1>1 DEF SelectionInv, Runtime
<1> QED BY <1>8, <1>9, <1>10, <1>11, <1>12, <1>13, <1>14, Zenon DEF JobInv

-----------------------------------------------------------------------------
(* What the runner loads and what it solves.                               *)

\* Distributions that are right stay it when they are joined.
LEMMA MergedSound ==
    ASSUME NEW res, NEW j, NEW f, NEW g, Sound(j, f), Sound(j, g), Follows(res, j, f), Follows(res, j, g)
    PROVE  Sound(j, Merged(f, g)) /\ Follows(res, j, Merged(f, g))
<1>1. /\ DOMAIN Merged(f, g) = DOMAIN f \cup DOMAIN g
      /\ \A x \in DOMAIN f : Merged(f, g)[x] = f[x]
      /\ \A x \in DOMAIN g \ DOMAIN f : Merged(f, g)[x] = g[x]
    BY MergedIs
<1>2. \A x \in DOMAIN Merged(f, g) :
        (x \in DOMAIN f /\ Merged(f, g)[x] = f[x]) \/ (x \in DOMAIN g /\ Merged(f, g)[x] = g[x])
    BY <1>1
<1> QED BY <1>2 DEF Sound, Follows

\* What is loaded or solved is held by the runner, that goes on.
LEMMA HoldsGoesOn ==
    ASSUME RunInv, Runs, pos <= Len(Script[Job]), Now.do # "stage", Job \notin Timing,
           UNCHANGED <<wave, faults, turn, remote, beat, selection, results, disk>>,
           NEW payload, Holds(payload),
           Gives(Job, Now) \subseteq DOMAIN payload, DOMAIN payload \subseteq Gives(Job, Now) \cup DOMAIN held,
           Sound(Job, payload), Follows(results, Job, payload),
           Job \in {"evidence", "sparse"} => DOMAIN payload = Labels(Job) /\ Budgeted(payload)
    PROVE  JobInv'
<1>1. /\ ScriptInv' /\ TrialInv' /\ PlannedInv'
      /\ DOMAIN held' = Before(Job, pos') /\ held' = Merged(payload, held)
    BY HoldsStep
<1>2. Job' = Job
    BY PlaceStays
<1>3. HeldInv'
    <2>1. Sound(Job, held) /\ Follows(results, Job, held) /\ DOMAIN held = Before(Job, pos)
        BY RunningJob DEF HeldInv
    <2>2. Sound(Job, held') /\ Follows(results, Job, held')
        BY <1>1, <2>1, MergedSound
    <2>3. Job \in Timed => Job \in {"evidence", "sparse"}
        BY DEF Timed, Timing
    <2>4. Job \in Timed => Budgeted(held')
        <3> SUFFICES ASSUME Job \in Timed PROVE Budgeted(held')
            OBVIOUS
        <3>1. DOMAIN payload = Labels(Job) /\ Budgeted(payload)
            BY <2>3
        <3>2. DOMAIN held \subseteq Labels(Job)
            BY <2>1, RunningJob, BeforeStep
        <3>3. DOMAIN held' = DOMAIN payload /\ \A x \in DOMAIN payload : held'[x] = payload[x]
            BY <1>1, <3>1, <3>2 DEF Merged
        <3> QED BY <3>1, <3>3 DEF Budgeted
    <2>5. Job # "tuning"
        BY DEF Timing
    <2> QED BY <1>1, <1>2, <2>2, <2>4, <2>5 DEF HeldInv
<1>4. DiskInv' /\ PlansInv' /\ RemoteInv' /\ BeatInv'
    BY <1>1, <1>2, DiskStays DEF PlansInv
<1>5. SelectionInv'
    BY <1>2 DEF SelectionInv, Runtime, Timing
<1> QED BY <1>1, <1>3, <1>4, <1>5, Zenon DEF JobInv

\* What a published result of another job is.
LEMMA DependencyIs ==
    ASSUME Runs
    PROVE  /\ Job = "evidence" => ResultOK(results, selection, "runtime", results["runtime"])
           /\ Job = "sparse" => ResultOK(results, selection, "sparse_runtime", results["sparse_runtime"])
           /\ Job = "transplant" =>
                /\ ResultOK(results, selection, "source", results["source"])
                /\ ResultOK(results, selection, "target", results["target"])
           /\ Job = "expanded" => ResultOK(results, selection, "core", results["core"])
BY RunningJob DEF ResultsInv, Dependencies

\* The result of a runtime job: MWU had the time of DSS.
LEMMA RuntimeResultIs ==
    ASSUME NEW j \in Runtime, ResultOK(results, selection, j, results[j])
    PROVE  /\ DOMAIN results[j].solvers = Labels(j) /\ Budgeted(results[j].solvers)
           /\ \A l \in DOMAIN results[j].solvers : Freezable(results[j].solvers[l].q, Core)
           /\ results[j].selection = selection
           /\ results[j].solvers["mwu"].budget = results[j].solvers["dss"].time
<1>1. /\ DOMAIN results[j].solvers = Labels(j) /\ Sound(j, results[j].solvers)
      /\ Budgeted(results[j].solvers) /\ results[j].selection = selection
    BY DEF ResultOK, Runtime, Timed
<1>2. PoliciesOf(j) = Core
    BY LibrariesAre DEF Runtime
<1>3. "mwu" \in Labels(j) /\ IsMwu("mwu")
    BY LabelsAre DEF Runtime, FullBundle, PairBundle, IsMwu
<1>4. results[j].solvers["mwu"].budget = results[j].solvers["dss"].time
    BY <1>1, <1>3 DEF Budgeted
<1> QED BY <1>1, <1>2, <1>4 DEF Sound

\* A dependency is never refused.
LEMMA LoadedIs ==
    ASSUME Runs, Job \in Loaders
    PROVE  /\ ~Refused
           /\ Loads(Job) \subseteq DOMAIN FromResults /\ DOMAIN FromResults \subseteq Loads(Job) \cup DOMAIN held
           /\ Sound(Job, FromResults) /\ Follows(results, Job, FromResults)
           /\ Job \in {"evidence", "sparse"} => DOMAIN FromResults = Labels(Job) /\ Budgeted(FromResults)
<1>1. CASE Job \in {"evidence", "sparse"}
    <2>1. PICK j \in Runtime : j = Source /\ ResultOK(results, selection, j, results[j])
                               /\ Labels(j) = Labels(Job) /\ Labels(j) = Loads(Job)
        BY <1>1, DependencyIs, LabelsAre DEF Runtime, Source, Loads, FullBundle, PairBundle
    <2>2. FromResults = results[j].solvers
        BY <1>1, <2>1 DEF FromResults, RuntimeQ
    <2>3. RuntimeFits
        BY <2>1, RuntimeResultIs DEF RuntimeFits, RuntimeQ
    <2>4. PoliciesOf(Job) = Core
        BY <1>1, LibrariesAre
    <2>5. Sound(Job, FromResults) /\ DOMAIN FromResults = Labels(Job) /\ Budgeted(FromResults)
        BY <2>1, <2>2, <2>4, RuntimeResultIs DEF Sound
    <2>6. Follows(results, Job, FromResults)
        <3>1. \A l : Expected(results, Job, l) = results[j].solvers[l].q
            BY <1>1, <2>1 DEF Expected, Source
        <3> QED BY <2>2, <3>1 DEF Follows
    <2>7. ~Refused
        BY <1>1, <2>3, <2>5 DEF Refused, Sound
    <2> QED BY <2>1, <2>5, <2>6, <2>7
<1>2. CASE Job = "transplant"
    <2>1. FromResults = TransplantQ
        BY <1>2 DEF FromResults
    <2>2. \A j \in {"source", "target"} :
            DOMAIN results[j].solvers = {"platform"} /\ Freezable(results[j].solvers["platform"].q, Core)
        <3> SUFFICES ASSUME NEW j \in {"source", "target"}
                     PROVE  DOMAIN results[j].solvers = {"platform"} /\ Freezable(results[j].solvers["platform"].q, Core)
            OBVIOUS
        <3>1. ResultOK(results, selection, j, results[j])
            BY <1>2, DependencyIs
        <3>2. Labels(j) = {"platform"} /\ PoliciesOf(j) = Core
            BY LabelsAre, LibrariesAre DEF CncJobs
        <3> QED BY <3>1, <3>2 DEF ResultOK, Sound
    <2>3. /\ DOMAIN FromResults = {"source", "target"} /\ PoliciesOf(Job) = Core
          /\ \A l \in {"source", "target"} : FromResults[l] = results[l].solvers["platform"]
        BY <1>2, <2>1, LibrariesAre DEF TransplantQ
    <2>4. Sound(Job, FromResults)
        BY <2>2, <2>3 DEF Sound
    <2>5. Follows(results, Job, FromResults)
        <3>1. \A l : Expected(results, Job, l) = results[l].solvers["platform"].q
            BY <1>2 DEF Expected
        <3> QED BY <2>3, <3>1 DEF Follows
    <2>6. ~Refused
        BY <1>2, <2>4 DEF Refused, Sound
    <2>7. Loads(Job) = {"source", "target"}
        BY <1>2 DEF Loads
    <2> QED BY <1>2, <2>3, <2>4, <2>5, <2>6, <2>7
<1>3. CASE Job = "expanded"
    <2> DEFINE core == results["core"].solvers["platform"]
    <2>1. FromResults = With(held, "core", core)
        BY <1>3 DEF FromResults, CoreQ
    <2>2. Freezable(core.q, PoliciesOf(Job))
        <3>1. ResultOK(results, selection, "core", results["core"])
            BY <1>3, DependencyIs
        <3>2. Labels("core") = {"platform"} /\ PoliciesOf("core") = Core
            BY LabelsAre, LibrariesAre DEF CncJobs
        <3>3. Freezable(core.q, Core)
            BY <3>1, <3>2 DEF ResultOK, Sound
        <3> QED BY <3>3, LibraryGrows
    <2>3. Sound(Job, held) /\ Follows(results, Job, held)
        BY RunningJob DEF HeldInv
    <2>4. /\ DOMAIN FromResults = DOMAIN held \cup {"core"} /\ FromResults["core"] = core
          /\ \A l \in DOMAIN held : l # "core" => FromResults[l] = held[l]
        BY <2>1 DEF With
    <2>5. Sound(Job, FromResults)
        BY <2>2, <2>3, <2>4 DEF Sound
    <2>6. Follows(results, Job, FromResults)
        <3>1. Expected(results, Job, "core") = core.q
            BY <1>3 DEF Expected
        <3> QED BY <2>3, <2>4, <3>1 DEF Follows
    <2>7. ~Refused
        BY <1>3, <2>5 DEF Refused, Sound
    <2>8. Loads(Job) = {"core"}
        BY <1>3 DEF Loads
    <2> QED BY <1>3, <2>4, <2>5, <2>6, <2>7, <2>8
<1> QED BY <1>1, <1>2, <1>3 DEF Loaders

\* Loading what was published keeps the invariant and fails never.
LEMMA LoadStep == RunInv /\ LoadDependencies => JobInv' /\ failure' = failure
<1> SUFFICES ASSUME RunInv, LoadDependencies PROVE JobInv' /\ failure' = failure
    OBVIOUS
<1>0. Runs /\ Now.do = "load" /\ pos <= Len(Script[Job])
    BY AtIs DEF LoadDependencies
<1>1. Job \in Loaders /\ Job \notin Timing /\ Gives(Job, Now) = Loads(Job)
    <2>1. Job \in Jobs /\ pos \in DOMAIN Script[Job] /\ Script[Job][pos].do = "load"
        BY <1>0, RunningJob DEF Now
    <2>2. Job \in Loaders
        BY <2>1, EntriesAre
    <2> QED BY <1>0, <2>2 DEF Loaders, Timing, Gives
<1>2. ~Refused
    BY <1>0, <1>1, LoadedIs
<1>3. /\ UNCHANGED <<wave, faults, turn, remote, beat, failure, selection, results, disk>>
      /\ Holds(FromResults)
    BY <1>2 DEF LoadDependencies, host, published
<1> QED BY <1>0, <1>1, <1>3, LoadedIs, HoldsGoesOn

\* Solving keeps the invariant.
LEMMA SolveStep == RunInv /\ SolveTraining => JobInv'
<1> SUFFICES ASSUME RunInv, SolveTraining PROVE JobInv'
    OBVIOUS
<1> DEFINE payload ==
        [l \in SolvedLabels(Job) |-> [q |-> Solved[Job], time |-> 0, budget |-> 0, confirmed |-> FALSE]]
<1>0. Runs /\ Now.do = "solve" /\ pos <= Len(Script[Job])
    BY AtIs DEF SolveTraining
<1>1. Job \in Solvers /\ Job \in Jobs /\ Gives(Job, Now) = SolvedLabels(Job)
    <2>1. Job \in Jobs /\ pos \in DOMAIN Script[Job] /\ Script[Job][pos].do = "solve"
        BY <1>0, RunningJob DEF Now
    <2> QED BY <1>0, <2>1, EntriesAre DEF Gives
<1>2. Job \notin Timing /\ Job \notin {"evidence", "sparse", "transplant"}
    BY <1>1 DEF Solvers, CncJobs, Timing
<1>3. /\ UNCHANGED <<wave, faults, turn, remote, beat, selection, results, disk>>
      /\ Holds(payload)
    BY KeepsAll DEF SolveTraining
<1>4. DOMAIN payload = SolvedLabels(Job) /\ \A l \in SolvedLabels(Job) : payload[l].q = Solved[Job]
    OBVIOUS
<1> HIDE DEF payload
<1>5. Sound(Job, payload)
    <2>1. Freezable(Solved[Job], PoliciesOf(Job))
        BY <1>1, <1>2, SolverAssumption
    <2> QED BY <1>4, <2>1 DEF Sound
<1>6. Follows(results, Job, payload)
    <2>1. ASSUME NEW l \in SolvedLabels(Job) PROVE Expected(results, Job, l) = Solved[Job]
        <3>1. ~(Job = "expanded" /\ l = "core")
            BY DEF SolvedLabels
        <3> QED BY <1>2, <3>1 DEF Expected
    <2> QED BY <1>4, <2>1 DEF Follows
<1> QED BY <1>0, <1>1, <1>2, <1>3, <1>4, <1>5, <1>6, HoldsGoesOn

-----------------------------------------------------------------------------
(* Stages.                                                                 *)

\* The stages of a job are stages.
LEMMA StagesKnown ==
    ASSUME NEW j \in Jobs, j \notin Runtime, NEW s \in Range(StagesOf(j))
    PROVE  s \in AllStages /\ (s = "transplant_audit" => j = "transplant")
<1>1. j = "tuning" \/ j = "transplant" \/ j \in Evidence \/ j \in CncJobs
    BY ONLY j \in Jobs, j \notin Runtime, JobKinds DEF CncJobs
<1>2. CASE j = "tuning"
    BY <1>2, StagesAre DEF AllStages
<1>3. CASE j = "transplant"
    BY <1>3, StagesAre DEF AllStages
<1>4. CASE j \in Evidence
    <2>1. Range(StagesOf(j)) = {"training", "formal_audit"}
        BY <1>4, StagesAre, Zenon
    <2> QED BY <2>1 DEF AllStages
<1>5. CASE j \in CncJobs
    <2>1. Range(StagesOf(j)) = {"training", "formal_audit", "outcome_evaluation"}
        BY <1>5, StagesAre, Zenon
    <2> QED BY <2>1 DEF AllStages
<1> QED BY <1>1, <1>2, <1>3, <1>4, <1>5

\* The stage a runner is at, and that it has what the plan needs.
LEMMA StageIs ==
    ASSUME Runs, pos <= Len(Script[Job]), Now.do = "stage"
    PROVE  /\ Job \in Jobs /\ pos \in DOMAIN Script[Job] /\ Job \notin Runtime
           /\ Now.on \in Range(StagesOf(Job)) /\ Now.on \in AllStages
           /\ Now.on = "transplant_audit" => Job = "transplant"
           /\ Job = "tuning" => Now.on = "mwu_tuning_audit"
           /\ Fixed(Job, Now.on) \/ DOMAIN held = Labels(Job)
<1>1. Job \in Jobs /\ pos \in DOMAIN Script[Job] /\ Script[Job][pos].do = "stage" /\ Now = Script[Job][pos]
    BY RunningJob DEF Now
<1>2. /\ Job \notin Runtime /\ Now.on \in Range(StagesOf(Job))
      /\ Job = "tuning" => Now.on = "mwu_tuning_audit"
    BY <1>1, EntriesAre
<1>3. Now.on \in AllStages /\ (Now.on = "transplant_audit" => Job = "transplant")
    BY <1>1, <1>2, StagesKnown
<1>5. Fixed(Job, Now.on) \/ DOMAIN held = Labels(Job)
    <2>1. DOMAIN held = Before(Job, pos)
        BY RunningJob DEF HeldInv
    <2> QED BY <1>1, <2>1, StageHasAll
<1> QED BY <1>1, <1>2, <1>3, <1>5

\* The plan of a stage follows from what was published or, in the tuning pipeline, from
\* what is committed.
LEMMA PlanIs ==
    ASSUME Runs, pos <= Len(Script[Job]), Now.do = "stage"
    PROVE  /\ Job \notin Timing =>
                Plan(Job, Now.on, held) = Plan(Job, Now.on, Determined(results, Job))
           /\ Job = "tuning" =>
                /\ Labels("tuning") \subseteq DOMAIN disk.store.chunks
                /\ Plan(Job, Now.on, held) = Plan("tuning", "mwu_tuning_audit", InChunks(disk.store))
<1>1. HeldInv
    BY RunningJob
<1>2. ASSUME Job \notin Timing
      PROVE  Plan(Job, Now.on, held) = Plan(Job, Now.on, Determined(results, Job))
    <2> DEFINE g == Determined(results, Job)
    <2>1. DOMAIN g = Labels(Job) /\ \A l \in Labels(Job) : g[l].q = Expected(results, Job, l)
        BY DEF Determined
    <2>2. \A l \in DOMAIN held : held[l].q = Expected(results, Job, l)
        BY <1>1, <1>2 DEF HeldInv, Follows
    <2> HIDE DEF g
    <2>3. Fixed(Job, Now.on) \/ (DOMAIN held = DOMAIN g /\ DOMAIN held = Labels(Job)
                                 /\ \A l \in DOMAIN held : held[l].q = g[l].q)
        BY <2>1, <2>2, StageIs
    <2>4. Plan(Job, Now.on, held) = Plan(Job, Now.on, g)
        BY <2>3, StageIs, PlanDepends
    <2> QED BY <2>4 DEF g
<1>3. ASSUME Job = "tuning"
      PROVE  /\ Labels("tuning") \subseteq DOMAIN disk.store.chunks
             /\ Plan(Job, Now.on, held) = Plan("tuning", "mwu_tuning_audit", InChunks(disk.store))
    <2> DEFINE g == InChunks(disk.store)
    <2>1. DOMAIN g = Labels("tuning") /\ \A l \in Labels("tuning") : g[l] = disk.store.chunks[l][l]
        BY DEF InChunks
    <2>2. Now.on = "mwu_tuning_audit" /\ DOMAIN held = Labels("tuning")
        BY <1>3, StageIs DEF Fixed
    <2>3. \A l \in DOMAIN held : l \in DOMAIN disk.store.chunks /\ held[l] = disk.store.chunks[l][l]
        BY <1>1, <1>3 DEF HeldInv, Committed
    <2> HIDE DEF g
    <2>4. DOMAIN held = DOMAIN g /\ \A l \in DOMAIN held : held[l].q = g[l].q
        BY <2>1, <2>2, <2>3
    <2>5. Plan("tuning", "mwu_tuning_audit", held) = Plan("tuning", "mwu_tuning_audit", g)
        BY <2>2, <2>4, JobKinds, PlanDepends
    <2>6. Labels("tuning") \subseteq DOMAIN disk.store.chunks
        BY <2>2, <2>3
    <2> QED BY <1>3, <2>2, <2>5, <2>6 DEF g
<1> QED BY <1>2, <1>3

\* A plan that is refused is that of a tuning job on a host that lost its disk while a
\* plan was uploaded ahead of its attempts.
LEMMA RefusedPlan ==
    ASSUME RunInv, WritePlan, failure' # "none"
    PROVE  failure' = "plan" /\ faults = {"disk_lost", "slow_upload"}
<1>0. Runs /\ Now.do = "stage" /\ pos <= Len(Script[Job]) /\ failure = "none"
    BY AtIs DEF WritePlan
<1> DEFINE plan == Plan(Job, Now.on, held)
<1> DEFINE old == disk.store.plans[Now.on]
<1>1. old \notin {{}, plan} /\ failure' = "plan"
    BY <1>0 DEF WritePlan
<1>2. PlansInv
    BY <1>0, RunningJob
<1>3. CASE Job \notin Timing
    <2>1. Now.on \in Range(StagesOf(Job)) /\ plan = Plan(Job, Now.on, Determined(results, Job))
        BY <1>0, <1>3, StageIs, PlanIs
    <2>2. old \in {{}, plan}
        BY <1>2, <1>3, <2>1 DEF PlansInv, DeterminedInv
    <2> QED BY <1>1, <2>2
<1>4. CASE Job = "tuning"
    <2>1. /\ Now.on = "mwu_tuning_audit"
          /\ plan = Plan("tuning", "mwu_tuning_audit", InChunks(disk.store))
        BY <1>0, <1>4, StageIs, PlanIs
    <2>2. ~TuningPlanOK(Job, disk.store)
        BY <1>1, <1>4, <2>1 DEF TuningPlanOK
    <2> QED BY <1>1, <1>2, <2>2 DEF PlansInv
<1>5. Job \in Timing => Job = "tuning"
    BY <1>0, StageIs DEF Timing, Runtime
<1> QED BY <1>3, <1>4, <1>5

\* A step that changes nothing the invariant speaks of.
LEMMA SameStep ==
    ASSUME RunInv, Runs, UNCHANGED <<wave, faults, turn, pos, step, trial, held, disk, remote, beat, selection, results>>
    PROVE  JobInv'
<1>1. Job' = Job /\ Now' = Now
    BY PlaceStays DEF Now
<1>2. ScriptInv'
    BY <1>1, RunningJob DEF ScriptInv
<1>3. HeldInv'
    BY HeldStays
<1>4. TrialInv'
    BY <1>1, RunningJob, Zenon DEF TrialInv
<1>5. DiskInv' /\ DeterminedInv' /\ RemoteInv' /\ BeatInv'
      /\ (faults' # {"disk_lost", "slow_upload"} => TuningPlanOK(Job', disk'.store))
    BY DiskStays
<1>6. PlannedInv'
    <2>1. Planned' = Planned
        BY <1>1 DEF Planned
    <2> QED BY <1>1, <2>1, RunningJob DEF PlansInv, PlannedInv
<1>7. SelectionInv'
    BY <1>1, RunningJob DEF SelectionInv
<1> QED BY <1>2, <1>3, <1>4, <1>5, <1>6, <1>7, Zenon DEF JobInv, PlansInv

\* A plan that is new, or the one that is there, keeps the invariant.
LEMMA WrittenStep ==
    ASSUME RunInv, WritePlan, disk.store.plans[Now.on] \in {{}, Plan(Job, Now.on, held)}
    PROVE  JobInv'
<1>0. Runs /\ Now.do = "stage" /\ pos <= Len(Script[Job]) /\ step = "look"
    BY AtIs DEF WritePlan
<1> DEFINE stage == Now.on
<1> DEFINE plan == Plan(Job, stage, held)
<1>1. /\ UNCHANGED <<wave, faults, turn, pos, trial, held, remote, beat, selection, results>>
      /\ step' = "blocks" /\ disk' = [disk EXCEPT !.store.plans[stage] = plan] /\ Job' = Job /\ Now' = Now
    <2>1. UNCHANGED <<wave, faults, turn, pos, trial, held, remote, beat, selection, results>>
        BY DEF WritePlan, host, published
    <2>2. step' = "blocks" /\ disk' = [disk EXCEPT !.store.plans[stage] = plan]
        BY DEF WritePlan
    <2> QED BY <2>1, <2>2, PlaceStays DEF Now
<1>2. /\ Job \in Jobs /\ pos \in DOMAIN Script[Job] /\ Job \notin Runtime
      /\ stage \in Range(StagesOf(Job)) /\ stage \in AllStages
      /\ Job = "tuning" => stage = "mwu_tuning_audit"
    BY <1>0, StageIs
<1>3. /\ disk = [store |-> disk.store, attempts |-> disk.attempts]
      /\ StoreShape(disk.store) /\ ChunksOK(Job, disk.store)
      /\ AttemptsOK(First(disk.store), disk.attempts)
    BY <1>0, RunningJob DEF DiskInv
<1>4. disk' = [store |-> [chunks |-> disk.store.chunks, plans |-> [disk.store.plans EXCEPT ![stage] = plan],
                          blocks |-> disk.store.blocks],
               attempts |-> disk.attempts]
    <2>1. disk.store = [chunks |-> disk.store.chunks, plans |-> disk.store.plans, blocks |-> disk.store.blocks]
        BY <1>3 DEF StoreShape
    <2> HIDE DEF plan, stage
    <2> QED BY ONLY <1>1, <1>3, <2>1
<1> HIDE DEF plan, stage
<1>5. /\ disk'.store.chunks = disk.store.chunks /\ disk'.attempts = disk.attempts
      /\ disk'.store.blocks = disk.store.blocks
      /\ disk'.store.plans = [disk.store.plans EXCEPT ![stage] = plan]
      /\ disk' = [store |-> disk'.store, attempts |-> disk'.attempts]
      /\ disk'.store = [chunks |-> disk'.store.chunks, plans |-> disk'.store.plans, blocks |-> disk'.store.blocks]
    BY ONLY <1>4
<1>6. /\ DOMAIN disk'.store.plans = AllStages /\ disk'.store.plans = [s \in AllStages |-> disk'.store.plans[s]]
      /\ disk'.store.plans[stage] = plan
      /\ \A s \in AllStages : s # stage => disk'.store.plans[s] = disk.store.plans[s]
    BY <1>2, <1>3, <1>5 DEF StoreShape
<1>7. StoreShape(disk'.store) /\ ChunksOK(Job, disk'.store) /\ First(disk'.store) = First(disk.store)
    <2>1. First(disk'.store) = First(disk.store)
        BY <1>5 DEF First
    <2> QED BY <1>3, <1>5, <1>6, <2>1 DEF StoreShape, ChunksOK
<1>8. DiskInv'
    BY <1>1, <1>3, <1>5, <1>7 DEF DiskInv
<1>9. disk.store.plans[stage] \in {{}, plan}
    BY DEF plan, stage
<1>10. PlannedInv'
    <2> SUFFICES ASSUME NEW i \in Planned', Script[Job][i].do = "stage"
                 PROVE  disk'.store.plans[Script[Job][i].on] = Plan(Job, Script[Job][i].on, held)
        BY <1>1, Zenon DEF PlannedInv
    <2>1. i \in DOMAIN Script[Job] /\ (i = pos \/ i \in Planned)
        BY <1>1 DEF Planned
    <2>2. CASE Script[Job][i].on = stage
        BY <1>6, <2>2 DEF plan
    <2>3. CASE Script[Job][i].on # stage
        <3>1. i \in Planned
            BY <2>1, <2>3 DEF stage, Now
        <3>2. disk.store.plans[Script[Job][i].on] = Plan(Job, Script[Job][i].on, held)
            BY <1>0, <3>1, RunningJob DEF PlansInv, PlannedInv
        <3>3. disk'.store.plans[Script[Job][i].on] = disk.store.plans[Script[Job][i].on]
            BY <1>5, <2>3
        <3> QED BY <3>2, <3>3
    <2> QED BY <2>2, <2>3
<1>11. DeterminedInv'
    <2> SUFFICES ASSUME Job \notin Timing, NEW s \in Range(StagesOf(Job))
                 PROVE  disk'.store.plans[s] \in {{}, Plan(Job, s, Determined(results, Job))}
        BY <1>1, Zenon DEF DeterminedInv
    <2>1. CASE s = stage
        <3>1. plan = Plan(Job, s, Determined(results, Job))
            BY <1>0, <2>1, PlanIs DEF plan, stage
        <3> QED BY <1>6, <2>1, <3>1
    <2>2. CASE s # stage
        <3>1. disk.store.plans[s] \in {{}, Plan(Job, s, Determined(results, Job))}
            BY <1>0, RunningJob DEF PlansInv, DeterminedInv
        <3>2. disk'.store.plans[s] = disk.store.plans[s]
            BY <1>5, <2>2
        <3> QED BY <3>1, <3>2
    <2> QED BY <2>1, <2>2
<1>12. TuningPlanOK(Job, disk'.store)
    <2> SUFFICES ASSUME Job = "tuning" PROVE TuningPlanOK("tuning", disk'.store)
        BY DEF TuningPlanOK
    <2>1. stage = "mwu_tuning_audit" /\ Labels("tuning") \subseteq DOMAIN disk.store.chunks
          /\ plan = Plan("tuning", "mwu_tuning_audit", InChunks(disk.store))
        BY <1>0, <1>2, PlanIs DEF plan, stage
    <2>2. InChunks(disk'.store) = InChunks(disk.store)
        BY <1>5 DEF InChunks
    <2> QED BY <1>5, <1>6, <2>1, <2>2 DEF TuningPlanOK
<1>13. PlansInv'
    BY <1>1, <1>10, <1>11, <1>12 DEF PlansInv
<1>14. RemoteInv'
    <2>1. RemoteInv
        BY <1>0, RunningJob
    <2>2. Uploaded(remote, disk'.store)
        <3>1. \A s \in AllStages : remote.plans[s] \in {{}, disk'.store.plans[s]}
            BY <1>2, <1>6, <1>9, <2>1 DEF RemoteInv, Uploaded
        <3> QED BY <1>5, <2>1, <3>1 DEF RemoteInv, Uploaded
    <2> QED BY <1>1, <2>1, <2>2, Zenon DEF RemoteInv
<1>15. BeatInv'
    <2>1. BeatInv
        BY <1>0, RunningJob
    <2>2. TuningBeat(beat.at, beat.todo, disk.store, remote, "slow_upload" \in faults)
          => TuningBeat(beat.at, beat.todo, disk'.store, remote, "slow_upload" \in faults)
        BY <1>5, Zenon DEF TuningBeat
    <2> QED BY <1>1, <2>1, <2>2, Zenon DEF BeatInv
<1>16. ScriptInv'
    BY <1>0, <1>1, RunningJob DEF ScriptInv
<1>17. TrialInv'
    BY <1>1 DEF TrialInv
<1>18. HeldInv'
    BY <1>0, <1>1, <1>5, HeldStays
<1>19. SelectionInv'
    BY <1>1, <1>2 DEF SelectionInv
<1> QED BY <1>8, <1>13, <1>14, <1>15, <1>16, <1>17, <1>18, <1>19, Zenon DEF JobInv

\* Writing a plan keeps the invariant.
LEMMA PlanStep == RunInv /\ WritePlan => JobInv'
<1> SUFFICES ASSUME RunInv, WritePlan PROVE JobInv'
    OBVIOUS
<1>0. Runs
    BY AtIs DEF WritePlan
<1>1. CASE disk.store.plans[Now.on] \in {{}, Plan(Job, Now.on, held)}
    BY <1>1, WrittenStep
<1>2. CASE disk.store.plans[Now.on] \notin {{}, Plan(Job, Now.on, held)}
    <2>1. UNCHANGED <<disk, step>>
        BY <1>2 DEF WritePlan
    <2>2. UNCHANGED <<wave, faults, turn, pos, trial, held, remote, beat, selection, results>>
        BY DEF WritePlan, host, published
    <2> QED BY <1>0, <2>1, <2>2, SameStep
<1> QED BY <1>1, <1>2

\* What the invariant says of a store is about its chunks and its plans.
SameData(store, other) == other.chunks = store.chunks /\ other.plans = store.plans

\* The invariant speaks of chunks and plans of a store, not of its blocks.
LEMMA DataCounts ==
    ASSUME NEW store, NEW other, SameData(store, other)
    PROVE  /\ First(other) = First(store)
           /\ \A j : ChunksOK(j, store) => ChunksOK(j, other)
           /\ \A j : TuningPlanOK(j, store) => TuningPlanOK(j, other)
           /\ \A s : Uploaded(s, store) => Uploaded(s, other)
           /\ \A s : Uploaded(store, s) => Uploaded(other, s)
           /\ \A at, todo, kept, slow :
                TuningBeat(at, todo, store, kept, slow) => TuningBeat(at, todo, other, kept, slow)
           /\ \A at, todo, s, slow :
                TuningBeat(at, todo, s, store, slow) => TuningBeat(at, todo, s, other, slow)
<1>1. First(other) = First(store)
    BY DEF First, SameData
<1>2. ASSUME NEW j, ChunksOK(j, store) PROVE ChunksOK(j, other)
    BY <1>1, <1>2 DEF ChunksOK, SameData
<1>3. ASSUME NEW j, TuningPlanOK(j, store) PROVE TuningPlanOK(j, other)
    <2>1. InChunks(other) = InChunks(store)
        BY DEF InChunks, SameData
    <2> QED BY <1>3, <2>1 DEF TuningPlanOK, SameData
<1>4. ASSUME NEW s, Uploaded(s, store) PROVE Uploaded(s, other)
    BY <1>4 DEF Uploaded, SameData
<1>5. ASSUME NEW s, Uploaded(store, s) PROVE Uploaded(other, s)
    BY <1>5 DEF Uploaded, SameData
<1>6. ASSUME NEW at, NEW todo, NEW kept, NEW slow, TuningBeat(at, todo, store, kept, slow)
      PROVE  TuningBeat(at, todo, other, kept, slow)
    BY <1>6, Zenon DEF TuningBeat, SameData
<1>7. ASSUME NEW at, NEW todo, NEW s, NEW slow, TuningBeat(at, todo, s, store, slow)
      PROVE  TuningBeat(at, todo, s, other, slow)
    BY <1>7, Zenon DEF TuningBeat, SameData
<1> QED BY <1>1, <1>2, <1>3, <1>4, <1>5, <1>6, <1>7, Zenon

\* A store in which another block of a stage is.
LEMMA BlockAdded ==
    ASSUME NEW store, StoreShape(store), NEW stage \in AllStages, NEW b,
           NEW other, other = [store EXCEPT !.blocks[stage] = @ \cup {b}]
    PROVE  StoreShape(other) /\ SameData(store, other)
<1> DEFINE blocks == [store.blocks EXCEPT ![stage] = @ \cup {b}]
<1>1. other = [chunks |-> store.chunks, plans |-> store.plans, blocks |-> blocks]
    BY DEF StoreShape
<1>2. DOMAIN blocks = AllStages
    BY DEF StoreShape
<1> HIDE DEF blocks
<1>3. other.chunks = store.chunks /\ other.plans = store.plans /\ other.blocks = blocks
    BY ONLY <1>1
<1>4. other = [chunks |-> other.chunks, plans |-> other.plans, blocks |-> other.blocks]
    BY <1>1, <1>3
<1> QED BY <1>2, <1>3, <1>4 DEF StoreShape, SameData

\* A block that is evaluated keeps the invariant.
LEMMA BlockStep == RunInv /\ EvaluateBlock => JobInv'
<1> SUFFICES ASSUME RunInv, EvaluateBlock PROVE JobInv'
    OBVIOUS
<1>0. Runs /\ Now.do = "stage" /\ pos <= Len(Script[Job]) /\ step = "blocks"
    BY AtIs DEF EvaluateBlock
<1>1. /\ UNCHANGED <<wave, faults, turn, pos, step, trial, held, remote, beat, failure, selection, results>>
      /\ Job' = Job /\ Now' = Now
    <2>1. UNCHANGED <<wave, faults, turn, remote, beat, failure, selection, results>>
        BY KeepsAll DEF EvaluateBlock
    <2>2. UNCHANGED <<pos, step, trial, held>>
        BY DEF EvaluateBlock, runner
    <2> QED BY <2>1, <2>2, PlaceStays DEF Now
<1> DEFINE stage == Now.on
<1> DEFINE b == Min(Pending(stage))
<1>2. disk' = [disk EXCEPT !.store.blocks[stage] = @ \cup {b}]
    BY DEF EvaluateBlock
<1>3. stage \in AllStages /\ Job \notin Runtime
    BY <1>0, StageIs
<1>4. DiskInv
    BY <1>0, RunningJob
<1> HIDE DEF stage, b
<1>5. /\ disk'.store = [disk.store EXCEPT !.blocks[stage] = @ \cup {b}] /\ disk'.attempts = disk.attempts
      /\ disk' = [store |-> disk'.store, attempts |-> disk'.attempts]
    <2>1. disk = [store |-> disk.store, attempts |-> disk.attempts]
        BY <1>4 DEF DiskInv
    <2>2. disk' = [store |-> [disk.store EXCEPT !.blocks[stage] = @ \cup {b}], attempts |-> disk.attempts]
        BY ONLY <1>2, <2>1
    <2> QED BY ONLY <2>2
<1>6. StoreShape(disk'.store) /\ SameData(disk.store, disk'.store)
    BY <1>3, <1>4, <1>5, BlockAdded DEF DiskInv
<1>7. DiskInv'
    BY <1>1, <1>4, <1>5, <1>6, DataCounts DEF DiskInv
<1>8. RemoteInv'
    BY <1>0, <1>1, <1>6, DataCounts, RunningJob, Zenon DEF RemoteInv
<1>9. BeatInv'
    BY <1>0, <1>1, <1>6, DataCounts, RunningJob, Zenon DEF BeatInv
<1>10. PlansInv'
    <2>1. Planned' = Planned
        BY <1>1 DEF Planned
    <2>2. PlannedInv' /\ DeterminedInv'
        BY <1>0, <1>1, <1>6, <2>1, RunningJob, Zenon DEF PlansInv, PlannedInv, DeterminedInv, SameData
    <2> QED BY <1>0, <1>1, <1>6, <2>2, DataCounts, RunningJob, Zenon DEF PlansInv
<1>11. ScriptInv'
    BY <1>0, <1>1, RunningJob DEF ScriptInv
<1>12. HeldInv'
    BY <1>0, <1>1, <1>6, HeldStays DEF SameData
<1>13. TrialInv'
    BY <1>0, <1>1, RunningJob DEF TrialInv, ScriptInv
<1>14. SelectionInv'
    BY <1>1, <1>3 DEF SelectionInv
<1> QED BY <1>7, <1>8, <1>9, <1>10, <1>11, <1>12, <1>13, <1>14, Zenon DEF JobInv

\* Where no chunk is pending none of the plan is missing: the stage ends, and does not raise.
LEMMA NothingMissing ==
    ASSUME StageEnds
    PROVE  /\ pos' = pos + 1 /\ step' = "look"
           /\ UNCHANGED <<wave, faults, turn, trial, held, disk, remote, beat, session, failure,
                          selection, results>>
<1>1. BlocksOf(disk.store.plans[Now.on]) \subseteq disk.store.blocks[Now.on]
    BY DEF StageEnds, Pending
<1> QED BY <1>1 DEF StageEnds, host, published

\* The end of a stage keeps the invariant.
LEMMA StageEndsStep == RunInv /\ StageEnds => JobInv'
<1> SUFFICES ASSUME RunInv, StageEnds PROVE JobInv'
    OBVIOUS
<1>0. Runs /\ Now.do = "stage" /\ pos <= Len(Script[Job]) /\ step = "blocks"
    BY AtIs DEF StageEnds
<1>1. /\ UNCHANGED <<wave, faults, turn, trial, held, disk, remote, beat, failure, selection, results>>
      /\ Job' = Job /\ pos' = pos + 1 /\ step' = "look"
    <2>1. UNCHANGED <<wave, faults, turn, remote, beat, failure, selection, results>>
        BY NothingMissing
    <2> QED BY <2>1, PlaceStays, NothingMissing
<1>2. Job \in Jobs /\ pos \in DOMAIN Script[Job] /\ Script[Job][pos].do = "stage" /\ Job \notin Runtime
    BY <1>0, StageIs DEF Now
<1>3. Before(Job, pos') = Before(Job, pos)
    BY <1>1, <1>2, BeforeStep, StageGivesNothing
<1>4. HeldInv'
    <2>1. HeldInv
        BY <1>0, RunningJob
    <2>2. Before(Job', pos') = Before(Job, pos)
        BY <1>1, <1>3
    <2> QED BY <1>1, <2>1, <2>2, Zenon DEF HeldInv
<1>5. ScriptInv'
    <2>1. pos + 1 \in 1 .. (Len(Script[Job]) + 1)
        BY <1>0, RunningJob
    <2> QED BY <1>1, <2>1 DEF ScriptInv
<1>6. TrialInv'
    BY <1>1 DEF TrialInv
<1>7. PlannedInv'
    <2>1. Planned' = Planned
        <3>1. \A i \in DOMAIN Script[Job] : i < pos + 1 <=> i < pos \/ i = pos
            BY <1>0, RunningJob
        <3>2. step' # "blocks"
            BY <1>1
        <3> QED BY <1>0, <1>1, <3>1, <3>2 DEF Planned
    <2> QED BY <1>0, <1>1, <2>1, RunningJob, Zenon DEF PlannedInv, PlansInv
<1>8. DiskInv' /\ PlansInv' /\ RemoteInv' /\ BeatInv'
    BY <1>0, <1>1, <1>7, DiskStays DEF PlansInv
<1>9. SelectionInv'
    BY <1>1, <1>2 DEF SelectionInv
<1> QED BY <1>4, <1>5, <1>6, <1>8, <1>9, Zenon DEF JobInv

-----------------------------------------------------------------------------
(* The heartbeat.                                                          *)

\* What the runner and its disk are does not depend on the heartbeat.
LEMMA RunnerStays ==
    ASSUME RunInv, Runs, UNCHANGED <<wave, faults, turn, pos, step, trial, held, disk, selection, results>>,
           RemoteInv', BeatInv'
    PROVE  JobInv'
<1>1. Job' = Job /\ Now' = Now
    BY PlaceStays DEF Now
<1>2. ScriptInv'
    BY <1>1, RunningJob DEF ScriptInv
<1>3. HeldInv'
    BY HeldStays
<1>4. TrialInv'
    BY <1>1, RunningJob, Zenon DEF TrialInv
<1>5. DiskInv'
    BY <1>1, RunningJob, Zenon DEF DiskInv
<1>6. PlansInv'
    <2>1. Planned' = Planned
        BY <1>1 DEF Planned
    <2> QED BY <1>1, <2>1, RunningJob, Zenon DEF PlansInv, PlannedInv, DeterminedInv
<1>7. SelectionInv'
    BY <1>1, RunningJob DEF SelectionInv
<1> QED BY <1>2, <1>3, <1>4, <1>5, <1>6, <1>7, Zenon DEF JobInv

\* A store that holds the DSS run of another one, and more of it.
LEMMA UploadedIsSound ==
    ASSUME NEW source, ChunksOK("tuning", source), NEW store, Uploaded(store, source),
           DOMAIN store.chunks # {} => "dss" \in DOMAIN store.chunks
    PROVE  ChunksOK("tuning", store)
<1> SUFFICES ASSUME NEW key \in DOMAIN store.chunks
             PROVE  /\ DOMAIN store.chunks[key] = {key} /\ key \in Labels("tuning")
                    /\ PayloadOK(First(store), store.chunks[key])
    BY DEF ChunksOK
<1>1. key \in DOMAIN source.chunks /\ store.chunks[key] = source.chunks[key]
    BY DEF Uploaded
<1>2. First(store) = First(source)
    BY DEF First, Uploaded
<1> QED BY <1>1, <1>2 DEF ChunksOK

\* Where all that is committed is uploaded, the plan is that of what is uploaded.
LEMMA PlanIsUploaded ==
    ASSUME NEW source, TuningPlanOK("tuning", source), NEW store, Uploaded(store, source),
           DOMAIN source.chunks \subseteq DOMAIN store.chunks
    PROVE  TuningPlanOK("tuning", store)
<1> SUFFICES ASSUME store.plans["mwu_tuning_audit"] # {}
             PROVE  /\ Labels("tuning") \subseteq DOMAIN store.chunks
                    /\ store.plans["mwu_tuning_audit"] = Plan("tuning", "mwu_tuning_audit", InChunks(store))
    BY DEF TuningPlanOK
<1>1. store.plans["mwu_tuning_audit"] = source.plans["mwu_tuning_audit"]
    BY DEF Uploaded, AllStages
<1>2. /\ Labels("tuning") \subseteq DOMAIN source.chunks
      /\ source.plans["mwu_tuning_audit"] = Plan("tuning", "mwu_tuning_audit", InChunks(source))
    BY <1>1 DEF TuningPlanOK
<1>3. Labels("tuning") \subseteq DOMAIN store.chunks
    BY <1>2
<1>4. \A l \in Labels("tuning") : store.chunks[l][l] = source.chunks[l][l]
    BY <1>3 DEF Uploaded
<1>5. InChunks(store) = InChunks(source)
    BY <1>4 DEF InChunks
<1> QED BY <1>1, <1>2, <1>3, <1>5

\* Every committed attempt of the tuning pipeline has its place in the script, and the
\* first of them is DSS.
LEMMA DssIsThere ==
    ASSUME NEW store, ChunksOK("tuning", store), DOMAIN store.chunks # {}
    PROVE  "dss" \in DOMAIN store.chunks
<1>1. PICK key \in DOMAIN store.chunks : TRUE
    OBVIOUS
<1>2. DOMAIN store.chunks[key] = {key} /\ key \in Labels("tuning") /\ PayloadOK(First(store), store.chunks[key])
    BY DEF ChunksOK
<1>3. CASE key = "dss"
    BY <1>1, <1>3
<1>4. CASE key # "dss"
    <2>1. IsMwu(key)
        <3>1. PICK i \in DOMAIN Script["tuning"] : Script["tuning"][i].do = "attempt" /\ KeyAt(i) = key
            BY <1>2, LabelIsKey
        <3> QED BY <1>4, <3>1, TuningKeys DEF KeyAt
    <2>2. "dss" \notin DOMAIN store.chunks[key]
        BY <1>2, <1>4
    <2>3. "dss" \in DOMAIN First(store)
        BY <1>2, <2>1, <2>2 DEF PayloadOK
    <2> QED BY <2>3, NothingIs DEF First
<1> QED BY <1>3, <1>4

\* The DSS run is the least that the heartbeat may list.
LEMMA FirstPlace == 1 \in DOMAIN Script["tuning"] /\ KeyAt(1) = "dss" /\ DOMAIN Script["tuning"] \subseteq Nat
<1>1. 1 \in DOMAIN Script["tuning"] /\ DOMAIN Script["tuning"] \subseteq Nat
    BY LengthsAre, ScriptsAre, ConfigsAre
<1>2. Script["tuning"][1].on = "dss"
    BY <1>1, TuningEntries, ConfigsAre
<1> QED BY <1>1, <1>2 DEF KeyAt

\* A store that has the plan another one has of a stage.
TakesPlan(store, other, stage, source) == other = [store EXCEPT !.plans[stage] = source.plans[stage]]

\* A plan that is uploaded leaves a part of what is on disk.
LEMMA PlanUploaded ==
    ASSUME NEW store, StoreShape(store), NEW source, StoreShape(source), Uploaded(store, source),
           NEW stage \in AllStages,
           NEW other, TakesPlan(store, other, stage, source)
    PROVE  /\ StoreShape(other) /\ Uploaded(other, source) /\ other.chunks = store.chunks
           /\ other.plans[stage] = source.plans[stage]
           /\ \A s \in AllStages : s # stage => other.plans[s] = store.plans[s]
<1> DEFINE plan == source.plans[stage]
<1> DEFINE plans == [store.plans EXCEPT ![stage] = plan]
<1>1. other = [chunks |-> store.chunks, plans |-> plans, blocks |-> store.blocks]
    BY DEF StoreShape, TakesPlan
<1>2. /\ DOMAIN plans = AllStages /\ plans[stage] = plan
      /\ \A s \in AllStages : s # stage => plans[s] = store.plans[s]
    BY DEF StoreShape
<1>3. plans = [s \in AllStages |-> plans[s]]
    BY <1>2 DEF StoreShape
<1> HIDE DEF plans
<1>4. other.chunks = store.chunks /\ other.plans = plans /\ other.blocks = store.blocks
    BY ONLY <1>1
<1>5. other = [chunks |-> other.chunks, plans |-> other.plans, blocks |-> other.blocks]
    BY <1>1, <1>4
<1>6. StoreShape(other)
    <2>1. DOMAIN other.blocks = AllStages
        BY <1>4 DEF StoreShape
    <2> QED BY <1>2, <1>3, <1>4, <1>5, <2>1 DEF StoreShape
<1>7. Uploaded(other, source)
    BY <1>2, <1>4 DEF Uploaded
<1> QED BY <1>2, <1>4, <1>6, <1>7

\* A new stage of the heartbeat keeps the invariant.
LEMMA BeatStep == RunInv /\ BeatStage => JobInv'
<1> SUFFICES ASSUME RunInv, BeatStage PROVE JobInv'
    OBVIOUS
<1>0. Runs
    BY DEF BeatStage, Active, Runs
<1>1. /\ UNCHANGED <<wave, faults, turn, pos, step, trial, held, disk, selection, results>>
      /\ Job' = Job
    <2>1. UNCHANGED <<wave, faults, turn, pos, step, trial, held, disk, selection, results>>
        BY DEF BeatStage, host, runner, published
    <2> QED BY <2>1, PlaceStays
<1>2. Job \in Jobs /\ DiskInv /\ PlansInv /\ RemoteInv /\ BeatInv /\ beat.todo = {}
    BY <1>0, RunningJob DEF BeatStage
<1>3. CASE beat.at = Len(StagesOf(Job))
    <2>1. beat' = Idle /\ remote' = remote
        BY <1>3 DEF BeatStage
    <2>2. beat'.at = 0 /\ beat'.todo = {} /\ beat' = [at |-> beat'.at, todo |-> beat'.todo]
        BY <2>1 DEF Idle
    <2>3. RemoteInv'
        BY <1>1, <1>2, <2>1, Zenon DEF RemoteInv
    <2>4. TuningBeat(beat'.at, beat'.todo, disk'.store, remote', "slow_upload" \in faults')
        BY <2>2 DEF TuningBeat
    <2>5. 0 \in 0 .. Len(StagesOf(Job))
        BY <1>2, StagesAre
    <2>6. BeatInv'
        BY <1>1, <2>2, <2>4, <2>5 DEF BeatInv
    <2> QED BY <1>0, <1>1, <2>3, <2>6, RunnerStays
<1>4. CASE beat.at # Len(StagesOf(Job))
    <2> DEFINE stage == StagesOf(Job)[beat.at + 1]
    <2> DEFINE todo == Fresh(stage)
    <2>1. /\ beat' = [at |-> beat.at + 1, todo |-> todo]
          /\ remote' = [remote EXCEPT !.plans[stage] = disk.store.plans[stage]]
        BY <1>4, Zenon DEF BeatStage
    <2>2. /\ beat.at \in Nat /\ beat.at + 1 \in 1 .. Len(StagesOf(Job)) /\ beat.at + 1 \in 0 .. Len(StagesOf(Job))
          /\ stage \in AllStages
        BY <1>2, <1>4, StagesAre DEF BeatInv
    <2> HIDE DEF stage
    <2>3. /\ StoreShape(remote') /\ Uploaded(remote', disk.store) /\ remote'.chunks = remote.chunks
          /\ remote'.plans[stage] = disk.store.plans[stage]
          /\ \A s \in AllStages : s # stage => remote'.plans[s] = remote.plans[s]
        <3>1. StoreShape(remote) /\ StoreShape(disk.store) /\ Uploaded(remote, disk.store)
            BY <1>2 DEF DiskInv, RemoteInv
        <3>2. TakesPlan(remote, remote', stage, disk.store)
            BY <2>1 DEF TakesPlan
        <3> QED BY ONLY <2>2, <3>1, <3>2, PlanUploaded
    <2>4. ChunksOK(Job, remote')
        <3>1. First(remote') = First(remote)
            BY <2>3 DEF First
        <3> QED BY <1>2, <2>3, <3>1 DEF RemoteInv, ChunksOK
    <2>5. Job = "tuning" =>
            /\ stage = "mwu_tuning_audit" <=> beat.at = 1
            /\ stage = "training" <=> beat.at = 0
        BY <2>2, StagesAre DEF stage
    <2>6. ASSUME "slow_upload" \notin faults, Job = "tuning"
          PROVE  TuningPlanOK("tuning", remote')
        <3>1. CASE beat.at = 1
            <4>1. TuningPlanOK("tuning", disk.store)
                BY <1>2, <2>6 DEF PlansInv
            <4>2. DOMAIN disk.store.chunks \subseteq DOMAIN remote'.chunks
                <5> SUFFICES ASSUME NEW key \in DOMAIN disk.store.chunks PROVE key \in DOMAIN remote.chunks
                    BY <2>3
                <5>1. key \in Labels("tuning")
                    BY <1>2, <2>6 DEF DiskInv, ChunksOK
                <5>2. PICK i \in DOMAIN Script["tuning"] : KeyAt(i) = key
                    BY <5>1, LabelIsKey
                <5> QED BY <1>2, <2>6, <3>1, <5>2 DEF BeatInv, TuningBeat
            <4> QED BY <2>3, <4>1, <4>2, PlanIsUploaded
        <3>2. CASE beat.at # 1
            <4>1. remote'.plans["mwu_tuning_audit"] = remote.plans["mwu_tuning_audit"]
                BY <2>3, <2>5, <2>6, <3>2 DEF AllStages
            <4>2. InChunks(remote') = InChunks(remote)
                BY <2>3 DEF InChunks
            <4> QED BY <1>2, <2>3, <2>6, <4>1, <4>2 DEF RemoteInv, TuningPlanOK
        <3> QED BY <3>1, <3>2
    <2>7. RemoteInv'
        <3>1. "slow_upload" \notin faults => TuningPlanOK(Job, remote')
            BY <2>6 DEF TuningPlanOK
        <3> QED BY <1>1, <2>3, <2>4, <3>1 DEF RemoteInv
    <2>8. ASSUME Job = "tuning"
          PROVE  TuningBeat(beat.at + 1, todo, disk.store, remote', "slow_upload" \in faults)
        <3>1. ChunksOK("tuning", disk.store)
            BY <1>2, <2>8 DEF DiskInv
        <3>2. CASE beat.at = 0
            <4>1. todo = {i \in DOMAIN Script["tuning"] : KeyAt(i) \in DOMAIN disk.store.chunks \ DOMAIN remote.chunks}
                BY <2>5, <2>8, <3>2 DEF Fresh, InAttempts
            <4> HIDE DEF todo
            <4>2. todo # {} => 1 \in todo \/ "dss" \in DOMAIN remote'.chunks
                <5> SUFFICES ASSUME todo # {} PROVE 1 \in todo \/ "dss" \in DOMAIN remote.chunks
                    BY <2>3
                <5>1. DOMAIN disk.store.chunks # {}
                    BY <4>1
                <5>2. "dss" \in DOMAIN disk.store.chunks
                    BY <3>1, <5>1, DssIsThere
                <5> QED BY <4>1, <5>2, FirstPlace
            <4>3. \A i \in DOMAIN Script["tuning"] : KeyAt(i) \in DOMAIN disk.store.chunks =>
                    KeyAt(i) \in DOMAIN remote'.chunks \/ i \in todo
                BY <2>3, <4>1
            <4>4. todo \subseteq {i \in DOMAIN Script["tuning"] : KeyAt(i) \in DOMAIN disk.store.chunks}
                BY <4>1
            <4>5. beat.at + 1 = 1
                BY <3>2
            <4> QED BY <4>2, <4>3, <4>4, <4>5, Zenon DEF TuningBeat
        <3>3. CASE beat.at # 0
            <4>1. beat.at + 1 # 1 /\ beat.at > 0
                BY <2>2, <3>3
            <4>2. "slow_upload" \notin faults =>
                    \A i \in DOMAIN Script["tuning"] : KeyAt(i) \in DOMAIN disk.store.chunks =>
                        KeyAt(i) \in DOMAIN remote'.chunks
                BY <1>2, <2>3, <2>8, <4>1 DEF BeatInv, TuningBeat
            <4> QED BY <4>1, <4>2 DEF TuningBeat
        <3> QED BY <3>2, <3>3
    <2>9. BeatInv'
        <3> HIDE DEF todo
        <3>1. beat'.at = beat.at + 1 /\ beat'.todo = todo /\ beat' = [at |-> beat'.at, todo |-> beat'.todo]
            BY <2>1
        <3>2. beat'.at # 0
            BY <2>2, <3>1
        <3>3. Job = "tuning" => TuningBeat(beat'.at, beat'.todo, disk'.store, remote', "slow_upload" \in faults')
            BY <1>1, <2>8, <3>1
        <3> QED BY <1>1, <2>2, <3>1, <3>2, <3>3, Zenon DEF BeatInv
    <2> QED BY <1>0, <1>1, <2>7, <2>9, RunnerStays
<1> QED BY <1>3, <1>4

\* The attempt that is uploaded next is that of DSS as long as DSS is not uploaded.
LEMMA DssIsNext ==
    ASSUME NEW todo, todo \subseteq DOMAIN Script["tuning"], todo # {}, NEW kept,
           1 \in todo \/ "dss" \in kept
    PROVE  Min(todo) \in todo /\ (KeyAt(Min(todo)) = "dss" \/ "dss" \in kept)
<1>1. todo \subseteq Nat /\ DOMAIN Script["tuning"] = 1 .. Len(Script["tuning"]) /\ Len(Script["tuning"]) \in Nat
    BY FirstPlace, LengthsAre, ScriptsAre
<1>2. Min(todo) \in todo /\ \A y \in todo : Min(todo) <= y
    BY <1>1, LeastIs
<1>3. CASE 1 \in todo
    <2>1. Min(todo) = 1
        <3>1. Min(todo) <= 1
            BY <1>2, <1>3
        <3>2. Min(todo) \in 1 .. Len(Script["tuning"])
            BY <1>1, <1>2
        <3> HIDE <1>2
        <3> QED BY <1>1, <3>1, <3>2
    <2> QED BY <1>2, <2>1, FirstPlace
<1> QED BY <1>2, <1>3

\* The least chunk of the tuning job goes first: there is no MWU run without DSS.
LEMMA UploadChunk ==
    ASSUME RunInv, Runs, UploadNext, InAttempts(StagesOf(Job)[beat.at])
    PROVE  RemoteInv' /\ BeatInv'
<1> DEFINE item == Min(beat.todo)
<1> DEFINE key == KeyAt(item)
<1> DEFINE payload == disk.store.chunks[key]
<1> DEFINE slow == "slow_upload" \in faults
<1>1. /\ UNCHANGED <<wave, faults, turn, disk>> /\ Job' = Job /\ Job = "tuning"
      /\ beat' = [beat EXCEPT !.todo = @ \ {item}]
      /\ remote' = [remote EXCEPT !.chunks = With(@, key, payload)]
    <2>1. /\ UNCHANGED <<wave, faults, turn, disk>> /\ Upload(item)
        BY DEF UploadNext, Upload, host
    <2>2. /\ beat' = [beat EXCEPT !.todo = @ \ {item}]
          /\ remote' = [remote EXCEPT !.chunks = With(@, key, payload)]
        BY <2>1 DEF Upload
    <2> QED BY <2>1, <2>2, PlaceStays DEF InAttempts
<1>2. /\ DiskInv /\ RemoteInv /\ BeatInv /\ beat.todo # {}
      /\ ChunksOK("tuning", disk.store) /\ StoreShape(remote) /\ Uploaded(remote, disk.store)
    BY <1>1, RunningJob DEF UploadNext, DiskInv, RemoteInv
<1>3. beat.at = 1
    <2>1. beat.at \in 1 .. 2
        BY <1>1, <1>2, StagesAre DEF BeatInv
    <2>2. StagesOf("tuning")[beat.at] = "training"
        BY <1>1 DEF InAttempts
    <2>3. beat.at # 2
        BY <2>2, StagesAre
    <2> QED BY <2>1, <2>3
<1>4. TuningBeat(1, beat.todo, disk.store, remote, slow)
    BY <1>1, <1>2, <1>3 DEF BeatInv
<1>5. /\ beat.todo \subseteq DOMAIN Script["tuning"]
      /\ \A i \in beat.todo : KeyAt(i) \in DOMAIN disk.store.chunks
      /\ 1 \in beat.todo \/ "dss" \in DOMAIN remote.chunks
      /\ ~slow => \A i \in DOMAIN Script["tuning"] : KeyAt(i) \in DOMAIN disk.store.chunks =>
                        KeyAt(i) \in DOMAIN remote.chunks \/ i \in beat.todo
    BY <1>2, <1>4 DEF TuningBeat
<1>6. item \in beat.todo /\ (key = "dss" \/ "dss" \in DOMAIN remote.chunks) /\ key \in DOMAIN disk.store.chunks
    <2>1. item \in beat.todo /\ (key = "dss" \/ "dss" \in DOMAIN remote.chunks)
        BY <1>2, <1>5, DssIsNext
    <2> QED BY <1>5, <2>1
<1> HIDE DEF item, payload
<1>7. AddsChunk(remote, remote', key, payload)
    BY <1>1, <1>2 DEF StoreShape, AddsChunk
<1> HIDE DEF key
<1>8. /\ StoreShape(remote') /\ remote'.plans = remote.plans
      /\ DOMAIN remote'.chunks = DOMAIN remote.chunks \cup {key} /\ remote'.chunks[key] = payload
      /\ \A k \in DOMAIN remote.chunks : k # key => remote'.chunks[k] = remote.chunks[k]
    BY <1>2, <1>7, ChunkAdded
<1>9. Uploaded(remote', disk.store)
    <2>1. ASSUME NEW k \in DOMAIN remote'.chunks
          PROVE  k \in DOMAIN disk.store.chunks /\ remote'.chunks[k] = disk.store.chunks[k]
        BY <1>2, <1>6, <1>8, <2>1 DEF Uploaded, payload
    <2> QED BY <1>2, <1>8, <2>1 DEF Uploaded
<1>10. ChunksOK("tuning", remote')
    BY <1>2, <1>6, <1>8, <1>9, UploadedIsSound
<1>11. ~slow => TuningPlanOK("tuning", remote')
    <2> SUFFICES ASSUME ~slow, remote.plans["mwu_tuning_audit"] # {}
                 PROVE  /\ Labels("tuning") \subseteq DOMAIN remote'.chunks
                        /\ remote.plans["mwu_tuning_audit"] = Plan("tuning", "mwu_tuning_audit", InChunks(remote'))
        BY <1>8 DEF TuningPlanOK
    <2>1. /\ Labels("tuning") \subseteq DOMAIN remote.chunks
          /\ remote.plans["mwu_tuning_audit"] = Plan("tuning", "mwu_tuning_audit", InChunks(remote))
        BY <1>1, <1>2 DEF RemoteInv, TuningPlanOK
    <2>2. \A l \in Labels("tuning") : remote'.chunks[l] = remote.chunks[l]
        BY <1>2, <1>8, <1>9, <2>1 DEF Uploaded
    <2>3. InChunks(remote') = InChunks(remote)
        BY <2>2 DEF InChunks
    <2> QED BY <1>8, <2>1, <2>3
<1>12. RemoteInv'
    BY <1>1, <1>8, <1>9, <1>10, <1>11 DEF RemoteInv
<1>13. beat'.at = 1 /\ beat'.todo = beat.todo \ {item} /\ beat' = [at |-> beat'.at, todo |-> beat'.todo]
    BY <1>1, <1>2, <1>3 DEF BeatInv
<1>14. TuningBeat(1, beat'.todo, disk.store, remote', slow)
    <2>1. beat'.todo \subseteq {i \in DOMAIN Script["tuning"] : KeyAt(i) \in DOMAIN disk.store.chunks}
        BY <1>5, <1>13
    <2>2. "dss" \in DOMAIN remote'.chunks
        BY <1>6, <1>8
    <2>3. ~slow => \A i \in DOMAIN Script["tuning"] : KeyAt(i) \in DOMAIN disk.store.chunks =>
                        KeyAt(i) \in DOMAIN remote'.chunks \/ i \in beat'.todo
        BY <1>5, <1>8, <1>13 DEF key
    <2> QED BY <2>1, <2>2, <2>3, Zenon DEF TuningBeat
<1>15. BeatInv'
    <2>1. 1 \in 0 .. Len(StagesOf(Job))
        BY <1>1, StagesAre
    <2> QED BY <1>1, <1>13, <1>14, <2>1 DEF BeatInv
<1> QED BY <1>12, <1>15

\* The upload of a block changes no chunk.
LEMMA UploadBlock ==
    ASSUME RunInv, Runs, UploadNext, ~InAttempts(StagesOf(Job)[beat.at])
    PROVE  RemoteInv' /\ BeatInv'
<1> DEFINE item == Min(beat.todo)
<1> DEFINE stage == StagesOf(Job)[beat.at]
<1>1. /\ UNCHANGED <<wave, faults, turn, disk>> /\ Job' = Job
      /\ beat' = [beat EXCEPT !.todo = @ \ {item}]
      /\ remote' = [remote EXCEPT !.blocks[stage] = @ \cup {item}]
    <2>1. UNCHANGED <<wave, faults, turn, disk>> /\ Upload(item)
        BY DEF UploadNext, Upload, host
    <2>2. /\ beat' = [beat EXCEPT !.todo = @ \ {item}]
          /\ remote' = [remote EXCEPT !.blocks[stage] = @ \cup {item}]
        BY <2>1 DEF Upload
    <2> QED BY <2>1, <2>2, PlaceStays
<1>2. Job \in Jobs /\ RemoteInv /\ BeatInv /\ beat.todo # {}
    BY RunningJob DEF UploadNext
<1>3. stage \in AllStages /\ beat.at \in 1 .. Len(StagesOf(Job))
    <2>1. beat.at \in 1 .. Len(StagesOf(Job))
        BY <1>2, StagesAre DEF BeatInv
    <2> QED BY <1>2, <2>1, StagesAre
<1>4. Job = "tuning" => beat.at # 1
    BY StagesAre DEF InAttempts
<1> HIDE DEF item, stage
<1>5. StoreShape(remote') /\ SameData(remote, remote')
    BY <1>1, <1>2, <1>3, BlockAdded DEF RemoteInv
<1>6. RemoteInv'
    BY <1>1, <1>2, <1>5, DataCounts, Zenon DEF RemoteInv
<1>7. beat'.at = beat.at /\ beat'.todo = beat.todo \ {item} /\ beat' = [at |-> beat'.at, todo |-> beat'.todo]
    BY <1>1, <1>2 DEF BeatInv
<1>8. Job = "tuning" => TuningBeat(beat'.at, beat'.todo, disk.store, remote', "slow_upload" \in faults)
    <2> SUFFICES ASSUME Job = "tuning"
                 PROVE  TuningBeat(beat.at, beat'.todo, disk.store, remote', "slow_upload" \in faults)
        BY <1>7
    <2>1. TuningBeat(beat.at, beat.todo, disk.store, remote, "slow_upload" \in faults)
        BY <1>2 DEF BeatInv
    <2> QED BY <1>4, <1>5, <2>1 DEF TuningBeat, SameData
<1>9. BeatInv'
    <2>1. beat'.at # 0 /\ beat'.at \in 0 .. Len(StagesOf(Job))
        BY <1>2, <1>3, <1>7 DEF BeatInv
    <2> QED BY <1>1, <1>7, <1>8, <2>1, Zenon DEF BeatInv
<1> QED BY <1>6, <1>9

\* An upload keeps the invariant.
LEMMA UploadStep == RunInv /\ UploadNext => JobInv'
<1> SUFFICES ASSUME RunInv, UploadNext PROVE JobInv'
    OBVIOUS
<1>0. Runs
    BY DEF UploadNext, Upload, Active, Runs
<1>1. UNCHANGED <<wave, faults, turn, pos, step, trial, held, disk, selection, results>>
    BY DEF UploadNext, Upload, host, runner, published
<1>2. RemoteInv' /\ BeatInv'
    BY <1>0, UploadChunk, UploadBlock
<1> QED BY <1>0, <1>1, <1>2, RunnerStays

-----------------------------------------------------------------------------
(* Restarts.                                                               *)

\* A process that starts has nothing, and is at the start of its script.
LEMMA FreshRunner ==
    ASSUME turn' <= Len(wave'), Job' \in Jobs, pos' = 1, step' = "look", trial' = Nothing, held' = Nothing, beat' = Idle
    PROVE  ScriptInv' /\ HeldInv' /\ TrialInv' /\ PlannedInv' /\ BeatInv'
<1>0. DOMAIN held' = {} /\ Before(Job', 1) = {}
    BY NothingIs, BeforeFirst
<1>1. ScriptInv'
    <2>1. 1 \in 1 .. (Len(Script[Job']) + 1)
        BY LengthsAre
    <2> QED BY <2>1 DEF ScriptInv
<1>2. HeldInv'
    BY <1>0 DEF HeldInv, Sound, Follows, Budgeted, Committed
<1>3. TrialInv'
    BY DEF TrialInv
<1>4. PlannedInv'
    <2>1. Planned' = {}
        BY LengthsAre DEF Planned
    <2> QED BY <2>1 DEF PlannedInv
<1>5. BeatInv'
    <2>1. beat'.at = 0 /\ beat'.todo = {} /\ beat' = [at |-> beat'.at, todo |-> beat'.todo]
        BY DEF Idle
    <2>2. 0 \in 0 .. Len(StagesOf(Job'))
        BY StagesAre
    <2> QED BY <2>1, <2>2 DEF BeatInv, TuningBeat
<1> QED BY <1>1, <1>2, <1>3, <1>4, <1>5

\* A restart with the old disk keeps the invariant.
LEMMA KeepStep == RunInv /\ RestartKeepsDisk => JobInv'
<1> SUFFICES ASSUME RunInv, RestartKeepsDisk PROVE JobInv'
    OBVIOUS
<1>0. Runs
    BY DEF RestartKeepsDisk, Restart, Active, Runs
<1>1. UNCHANGED <<wave, faults, turn, disk, remote, selection, results>> /\ Job' = Job
    <2>1. UNCHANGED <<wave, faults, turn, disk, remote, selection, results>>
        BY DEF RestartKeepsDisk, Restart, host, published
    <2> QED BY <2>1, PlaceStays
<1>2. ScriptInv' /\ HeldInv' /\ TrialInv' /\ PlannedInv' /\ BeatInv'
    <2>1. turn' <= Len(wave') /\ Job' \in Jobs
        BY <1>0, <1>1, RunningJob DEF Runs
    <2>2. pos' = 1 /\ step' = "look" /\ trial' = Nothing /\ held' = Nothing /\ beat' = Idle
        BY DEF RestartKeepsDisk, Restart
    <2> QED BY <2>1, <2>2, FreshRunner
<1>3. DiskInv' /\ RemoteInv' /\ PlansInv'
    BY <1>0, <1>1, <1>2, RunningJob, Zenon DEF DiskInv, RemoteInv, PlansInv, DeterminedInv
<1>4. SelectionInv'
    BY <1>0, <1>1, RunningJob DEF SelectionInv, RestartKeepsDisk, Restart
<1> QED BY <1>2, <1>3, <1>4, Zenon DEF JobInv

\* A restart from what was uploaded keeps the invariant.
LEMMA LoseStep == RunInv /\ RestartLosesDisk => JobInv'
<1> SUFFICES ASSUME RunInv, RestartLosesDisk PROVE JobInv'
    OBVIOUS
<1>0. Runs /\ "disk_lost" \in faults
    BY DEF RestartLosesDisk, Restart, Active, Runs
<1>1. /\ UNCHANGED <<wave, faults, turn, remote, selection, results>> /\ Job' = Job
      /\ disk' = [store |-> remote, attempts |-> NoAttempts]
    <2>1. UNCHANGED <<wave, faults, turn, remote, selection, results>>
        BY DEF RestartLosesDisk, Restart, host, published
    <2>2. disk' = [store |-> remote, attempts |-> NoAttempts]
        BY DEF RestartLosesDisk, EmptyDisk
    <2> QED BY <2>1, <2>2, PlaceStays
<1>2. ScriptInv' /\ HeldInv' /\ TrialInv' /\ PlannedInv' /\ BeatInv'
    <2>1. turn' <= Len(wave') /\ Job' \in Jobs
        BY <1>0, <1>1, RunningJob DEF Runs
    <2>2. pos' = 1 /\ step' = "look" /\ trial' = Nothing /\ held' = Nothing /\ beat' = Idle
        BY DEF RestartLosesDisk, Restart
    <2> QED BY <2>1, <2>2, FreshRunner
<1>3. RemoteInv /\ PlansInv /\ WaveInv
    BY <1>0, RunningJob DEF RunInv
<1>4. disk'.store = remote /\ DOMAIN disk'.attempts = {} /\ disk' = [store |-> disk'.store, attempts |-> disk'.attempts]
    BY <1>1 DEF NoAttempts
<1>5. DiskInv'
    <2>1. AttemptsOK(First(disk'.store), disk'.attempts)
        BY <1>4 DEF AttemptsOK
    <2> QED BY <1>1, <1>3, <1>4, <2>1 DEF DiskInv, RemoteInv
<1>6. Uploaded(remote, remote)
    BY DEF Uploaded
<1>7. RemoteInv'
    BY <1>1, <1>3, <1>4, <1>6, Zenon DEF RemoteInv
<1>8. DeterminedInv'
    <2> SUFFICES ASSUME Job \notin Timing, NEW s \in Range(StagesOf(Job))
                 PROVE  remote.plans[s] \in {{}, Plan(Job, s, Determined(results, Job))}
        BY <1>1, <1>4, Zenon DEF DeterminedInv
    <2>1. disk.store.plans[s] \in {{}, Plan(Job, s, Determined(results, Job))}
        BY <1>3 DEF PlansInv, DeterminedInv
    <2>2. s \in AllStages
        BY <1>0, RunningJob, StagesKnown DEF Timing, Runtime
    <2> QED BY <1>3, <2>1, <2>2 DEF RemoteInv, Uploaded
<1>9. faults # {"disk_lost", "slow_upload"} => TuningPlanOK(Job, remote)
    <2>1. faults \subseteq {"disk_lost", "slow_upload"}
        BY <1>3, FaultAssumption DEF WaveInv
    <2>2. faults # {"disk_lost", "slow_upload"} => "slow_upload" \notin faults
        BY <1>0, <2>1
    <2> QED BY <1>3, <2>2 DEF RemoteInv
<1>10. PlansInv'
    BY <1>1, <1>2, <1>4, <1>8, <1>9 DEF PlansInv
<1>11. SelectionInv'
    BY <1>4 DEF SelectionInv, RestartLosesDisk, Restart
<1> QED BY <1>2, <1>5, <1>7, <1>10, <1>11, Zenon DEF JobInv

-----------------------------------------------------------------------------
(* Publication.                                                            *)

\* What an empty store has.
LEMMA EmptyIs ==
    /\ StoreShape(EmptyStore) /\ \A s \in AllStages : EmptyStore.plans[s] = {}
    /\ \A j : ChunksOK(j, EmptyStore) /\ TuningPlanOK(j, EmptyStore)
    /\ Uploaded(EmptyStore, EmptyStore)
    /\ EmptyDisk.store = EmptyStore /\ DOMAIN EmptyDisk.attempts = {}
    /\ EmptyDisk = [store |-> EmptyDisk.store, attempts |-> EmptyDisk.attempts]
    /\ AttemptsOK(First(EmptyStore), EmptyDisk.attempts)
<1>1. /\ EmptyStore = [chunks |-> EmptyStore.chunks, plans |-> EmptyStore.plans, blocks |-> EmptyStore.blocks]
      /\ DOMAIN EmptyStore.plans = AllStages /\ DOMAIN EmptyStore.blocks = AllStages
      /\ DOMAIN EmptyStore.chunks = {} /\ \A s \in AllStages : EmptyStore.plans[s] = {}
    BY NothingIs DEF EmptyStore
<1>2. EmptyStore.plans = [s \in AllStages |-> EmptyStore.plans[s]]
    BY DEF EmptyStore
<1>3. /\ EmptyDisk.store = EmptyStore /\ DOMAIN EmptyDisk.attempts = {}
      /\ EmptyDisk = [store |-> EmptyDisk.store, attempts |-> EmptyDisk.attempts]
    BY DEF EmptyDisk, NoAttempts
<1>4. StoreShape(EmptyStore)
    BY <1>1, <1>2 DEF StoreShape
<1>5. \A j : ChunksOK(j, EmptyStore)
    BY <1>1 DEF ChunksOK
<1>6. \A j : TuningPlanOK(j, EmptyStore)
    BY <1>1 DEF TuningPlanOK, AllStages
<1>7. Uploaded(EmptyStore, EmptyStore)
    BY DEF Uploaded
<1>8. AttemptsOK(First(EmptyStore), EmptyDisk.attempts)
    BY <1>3 DEF AttemptsOK
<1> QED BY <1>1, <1>3, <1>4, <1>5, <1>6, <1>7, <1>8

\* The first session of a job.
LEMMA FreshJob ==
    ASSUME turn' <= Len(wave'), Job' \in Jobs, pos' = 1, step' = "look", trial' = Nothing, held' = Nothing,
           beat' = Idle, disk' = EmptyDisk, remote' = EmptyStore
    PROVE  JobInv'
<1>1. ScriptInv' /\ HeldInv' /\ TrialInv' /\ PlannedInv' /\ BeatInv'
    BY FreshRunner
<1>2. disk'.store = EmptyStore /\ DOMAIN disk'.attempts = {}
    BY EmptyIs
<1>3. DiskInv'
    BY EmptyIs, <1>2 DEF DiskInv
<1>4. RemoteInv'
    BY EmptyIs, <1>2 DEF RemoteInv
<1>5. PlansInv'
    <2>1. DeterminedInv'
        <3> SUFFICES ASSUME Job' \notin Timing, NEW s \in Range(StagesOf(Job')) PROVE EmptyStore.plans[s] = {}
            BY <1>2 DEF DeterminedInv
        <3>1. s \in AllStages
            BY StagesKnown DEF Timing, Runtime
        <3> QED BY <3>1, EmptyIs
    <2> QED BY <1>1, <1>2, <2>1, EmptyIs DEF PlansInv
<1>6. SelectionInv'
    BY <1>2 DEF SelectionInv
<1> QED BY <1>1, <1>3, <1>4, <1>5, <1>6, Zenon DEF JobInv

\* A published result does not change what a job finds.
LEMMA ExpectedStays ==
    ASSUME NEW res, NEW more, NEW j \in Jobs, Dependencies(j) \subseteq DOMAIN res,
           \A d \in DOMAIN res : more[d] = res[d], NEW l \in Labels(j)
    PROVE  Expected(more, j, l) = Expected(res, j, l)
<1>1. CASE j = "evidence"
    <2>1. more["runtime"] = res["runtime"]
        BY <1>1 DEF Dependencies
    <2> QED BY <1>1, <2>1 DEF Expected
<1>2. CASE j = "sparse"
    <2>1. more["sparse_runtime"] = res["sparse_runtime"]
        BY <1>2 DEF Dependencies
    <2> QED BY <1>2, <2>1 DEF Expected
<1>3. CASE j = "transplant"
    <2>1. l \in {"source", "target"}
        BY <1>3, LabelsAre
    <2>2. more[l] = res[l]
        BY <1>3, <2>1 DEF Dependencies
    <2> QED BY <1>3, <2>2 DEF Expected
<1>4. CASE j = "expanded"
    <2>1. more["core"] = res["core"]
        BY <1>4 DEF Dependencies
    <2> QED BY <1>4, <2>1 DEF Expected
<1>5. CASE j \notin Loaders
    <2>1. Expected(more, j, l) = Solved[j]
        BY <1>5 DEF Expected, Loaders
    <2>2. Expected(res, j, l) = Solved[j]
        BY <1>5 DEF Expected, Loaders
    <2> QED BY <2>1, <2>2
<1> QED BY <1>1, <1>2, <1>3, <1>4, <1>5 DEF Loaders

\* A result stands when others are published.
LEMMA ResultStays ==
    ASSUME NEW res, NEW more, NEW chosen, NEW j \in Jobs, Dependencies(j) \subseteq DOMAIN res,
           \A d \in DOMAIN res : more[d] = res[d], NEW r, ResultOK(res, chosen, j, r)
    PROVE  ResultOK(more, chosen, j, r)
<1>1. DOMAIN r.solvers = Labels(j) /\ Follows(res, j, r.solvers)
    BY DEF ResultOK
<1>2. Follows(more, j, r.solvers)
    BY <1>1, ExpectedStays DEF Follows
<1> QED BY <1>2, Zenon DEF ResultOK

\* What a finished job has planned.
LEMMA FinishedIs ==
    ASSUME RunInv, Runs, pos > Len(Script[Job])
    PROVE  /\ DOMAIN held = Labels(Job)
           /\ \A i \in DOMAIN Script[Job] : Script[Job][i].do = "stage" =>
                disk.store.plans[Script[Job][i].on] = Plan(Job, Script[Job][i].on, held)
           /\ Job \in Runtime => selection # "none"
<1>1. pos = Len(Script[Job]) + 1 /\ Len(Script[Job]) \in Nat /\ DOMAIN Script[Job] = 1 .. Len(Script[Job])
    BY RunningJob DEF ScriptInv
<1>2. DOMAIN held = Labels(Job)
    BY <1>1, RunningJob DEF HeldInv, Labels
<1>3. \A i \in DOMAIN Script[Job] : i \in Planned
    BY <1>1 DEF Planned
<1>4. \A i \in DOMAIN Script[Job] : Script[Job][i].do = "stage" =>
        disk.store.plans[Script[Job][i].on] = Plan(Job, Script[Job][i].on, held)
    BY <1>3, RunningJob DEF PlansInv, PlannedInv
<1>5. Job \in Runtime => selection # "none"
    <2>1. Job \in Runtime => pos > 1
        <3>1. ASSUME Job \in Runtime PROVE Len(Script[Job]) >= 1
            <4>1. CASE Job = "runtime"
                BY <4>1, LengthsAre
            <4>2. CASE Job = "sparse_runtime"
                BY <4>2, LengthsAre
            <4> QED BY <3>1, <4>1, <4>2 DEF Runtime
        <3> QED BY <1>1, <3>1
    <2> QED BY <2>1, RunningJob DEF SelectionInv
<1> QED BY <1>2, <1>4, <1>5

\* The profiles of one plan.
LEMMA SimulatedIs ==
    ASSUME NEW stages, NEW stage, stages = {stage}, NEW m, NEW profiles,
           disk.store.plans[stage] = {m} \X profiles
    PROVE  Simulated(stages) = profiles
<1>1. UNION {disk.store.plans[s] : s \in stages} = {m} \X profiles
    OBVIOUS
<1>2. {entry[2] : entry \in {m} \X profiles} = profiles
    <2>1. ASSUME NEW p \in profiles PROVE p \in {entry[2] : entry \in {m} \X profiles}
        <3>1. <<m, p>> \in {m} \X profiles /\ <<m, p>>[2] = p
            OBVIOUS
        <3> QED BY <3>1
    <2> QED BY <2>1
<1> QED BY <1>1, <1>2 DEF Simulated

\* The result of a runner that has come to its end is right.
LEMMA ResultIsOK ==
    ASSUME RunInv, Runs, pos > Len(Script[Job])
    PROVE  ResultOK(results, selection, Job, Result)
<1> DEFINE r == Result
<1>1. /\ r = [job |-> Job, campaign |-> "this", smoke |-> FALSE, mechanism |-> r.mechanism,
              solvers |-> r.solvers, selection |-> r.selection, audited |-> r.audited,
              trained |-> r.trained, outcomes |-> r.outcomes]
      /\ r.mechanism = IF Job = "transplant" THEN "none" ELSE MechanismOf(Job)
      /\ r.solvers = held /\ r.selection = selection
      /\ r.audited = UNION {disk.store.plans[s] : s \in AuditStages}
      /\ r.trained = Simulated({"training"}) /\ r.outcomes = Simulated({"outcome_evaluation"})
    BY DEF Result
<1> HIDE DEF r
<1>2. Job \in Jobs /\ HeldInv
    BY RunningJob
<1>3. Job \notin Runtime => Plan(Job, AuditOf(Job), held) \subseteq r.audited
    <2> SUFFICES ASSUME Job \notin Runtime PROVE Plan(Job, AuditOf(Job), held) \subseteq r.audited
        OBVIOUS
    <2>1. disk.store.plans[AuditOf(Job)] = Plan(Job, AuditOf(Job), held)
        BY <1>2, StagePositions, FinishedIs
    <2>2. AuditOf(Job) \in AuditStages
        BY DEF AuditOf, AuditStages
    <2> QED BY <1>1, <2>1, <2>2
<1>4. Job \in {"evidence", "mixed"} => r.trained = Profiles(PoliciesOf(Job))
    <2> SUFFICES ASSUME Job \in {"evidence", "mixed"} PROVE r.trained = Profiles(PoliciesOf(Job))
        OBVIOUS
    <2>1. disk.store.plans["training"] = Plan(Job, "training", held)
        BY <1>2, StagePositions, FinishedIs
    <2>2. Plan(Job, "training", held) = {MechanismOf(Job)} \X TrainingPlan(Job, held)
        BY DEF Plan
    <2>3. TrainingPlan(Job, held) = Profiles(PoliciesOf(Job))
        BY DEF TrainingPlan
    <2>4. Simulated({"training"}) = Profiles(PoliciesOf(Job))
        BY <2>1, <2>2, <2>3, SimulatedIs, Zenon
    <2> QED BY <1>1, <2>4
<1>5. Job \in CncJobs => r.outcomes = UNION Supports(held)
    <2> SUFFICES ASSUME Job \in CncJobs PROVE r.outcomes = UNION Supports(held)
        OBVIOUS
    <2>1. disk.store.plans["outcome_evaluation"] = Plan(Job, "outcome_evaluation", held)
        BY <1>2, StagePositions, FinishedIs
    <2>2. Plan(Job, "outcome_evaluation", held) = {MechanismOf(Job)} \X OutcomePlan(held)
        BY DEF Plan
    <2>3. Simulated({"outcome_evaluation"}) = OutcomePlan(held)
        BY <2>1, <2>2, SimulatedIs, Zenon
    <2> QED BY <1>1, <2>3 DEF OutcomePlan
<1>6. ResultOK(results, selection, Job, r)
    <2>1. DOMAIN r.solvers = Labels(Job) /\ Sound(Job, r.solvers) /\ Follows(results, Job, r.solvers)
          /\ (Job \in Timed => Budgeted(r.solvers))
        BY <1>1, <1>2, FinishedIs DEF HeldInv
    <2>2. Job \in Runtime => r.selection = selection /\ selection # "none"
        BY <1>1, FinishedIs
    <2>3. /\ Job \notin Runtime => Plan(Job, AuditOf(Job), r.solvers) \subseteq r.audited
          /\ Job \in CncJobs => r.outcomes = UNION Supports(r.solvers)
        BY <1>1, <1>3, <1>5
    <2> QED BY <1>1, <1>4, <2>1, <2>2, <2>3, Zenon DEF ResultOK
<1> QED BY <1>6 DEF r

\* A publication keeps the invariant.
LEMMA PublishStep == RunInv /\ Publish => RunInv'
<1> SUFFICES ASSUME RunInv, Publish PROVE RunInv'
    OBVIOUS
<1>0. Runs /\ pos > Len(Script[Job]) /\ WaveInv /\ ResultsInv
    BY DEF Publish, Finished, Active, Runs, RunInv
<1>1. /\ UNCHANGED <<wave, faults, failure, selection>> /\ turn' = turn + 1
      /\ results' = With(results, Job, Result)
    BY DEF Publish, host
<1>2. Job \in Jobs /\ Job \notin DOMAIN results /\ Dependencies(Job) \subseteq DOMAIN results
      /\ {wave[k] : k \in 1 .. turn} = DOMAIN results \cup {Job} /\ Len(wave) \in Nat
      /\ DOMAIN results \subseteq Jobs /\ \A j \in DOMAIN results : Dependencies(j) \subseteq DOMAIN results
    BY <1>0, JobIs DEF Runs
<1>3. /\ DOMAIN results' = DOMAIN results \cup {Job} /\ results'[Job] = Result
      /\ \A j \in DOMAIN results : results'[j] = results[j]
    BY <1>1, <1>2 DEF With
<1>4. WaveInv'
    <2>1. turn \in Nat /\ turn + 1 \in 1 .. (Len(wave) + 1) /\ (turn + 1) - 1 = turn
        BY <1>0, <1>2 DEF WaveInv, Runs
    <2>2. DOMAIN results' = {wave'[k] : k \in 1 .. (turn' - 1)}
        BY <1>1, <1>2, <1>3, <2>1
    <2> QED BY <1>0, <1>1, <2>1, <2>2 DEF WaveInv
<1>5. ResultsInv'
    <2> SUFFICES ASSUME NEW j \in DOMAIN results' PROVE ResultOK(results', selection, j, results'[j])
        BY <1>1 DEF ResultsInv
    <2>1. CASE j = Job
        <3>1. ResultOK(results, selection, Job, Result)
            BY <1>0, ResultIsOK
        <3>2. ResultOK(results', selection, Job, Result)
            BY <1>2, <1>3, <3>1, ResultStays
        <3> QED BY <1>3, <2>1, <3>2
    <2>2. CASE j \in DOMAIN results
        <3>1. ResultOK(results, selection, j, results[j])
            BY <1>0, <2>2 DEF ResultsInv
        <3>2. ResultOK(results', selection, j, results[j])
            BY <1>2, <1>3, <2>2, <3>1, ResultStays
        <3> QED BY <1>3, <2>2, <3>2
    <2> QED BY <1>3, <2>1, <2>2
<1>6. JobInv'
    <2> SUFFICES ASSUME turn' <= Len(wave') PROVE JobInv'
        BY DEF JobInv
    <2>1. Job' \in Jobs
        <3>1. wave \in Seq(Jobs)
            BY <1>0, WaveAssumption DEF WaveInv
        <3>2. turn + 1 \in DOMAIN wave
            BY <1>0, <1>1, <1>2, <3>1 DEF WaveInv
        <3> QED BY <1>1, <3>1, <3>2 DEF Job
    <2> QED BY <2>1, FreshJob DEF Publish
<1>7. RestartGoesOn'
    BY <1>1 DEF RunInv, RestartGoesOn
<1> QED BY <1>4, <1>5, <1>6, <1>7 DEF RunInv

\* The calibration selects before a runtime job begins.
LEMMA SelectStep == RunInv /\ Select => RunInv'
<1> SUFFICES ASSUME RunInv, Select PROVE RunInv'
    OBVIOUS
<1>1. /\ UNCHANGED <<wave, faults, turn, pos, step, trial, held, disk, remote, beat, failure, results>>
      /\ selection = "none" /\ Job' = Job
    <2>1. UNCHANGED <<wave, faults, turn, pos, step, trial, held, disk, remote, beat, failure, results>>
        BY DEF Select, host, runner, outcome
    <2>2. selection = "none"
        BY DEF Select
    <2> QED BY <2>1, <2>2, PlaceStays
<1>2. WaveInv /\ ResultsInv /\ JobInv /\ RestartGoesOn
    BY DEF RunInv
<1>3. WaveInv' /\ RestartGoesOn'
    BY <1>1, <1>2, Zenon DEF WaveInv, RestartGoesOn
<1>4. ResultsInv'
    <2> SUFFICES ASSUME NEW j \in DOMAIN results PROVE ResultOK(results, selection', j, results[j])
        BY <1>1, Zenon DEF ResultsInv
    <2>1. ResultOK(results, selection, j, results[j])
        BY <1>2 DEF ResultsInv
    <2>2. j \notin Runtime
        BY <1>1, <2>1 DEF ResultOK
    <2> QED BY <2>1, <2>2, Zenon DEF ResultOK
<1>5. JobInv'
    <2> SUFFICES ASSUME turn <= Len(wave) PROVE JobInv'
        BY <1>1, Zenon DEF JobInv
    <2>1. Runs
        BY DEF Runs
    <2>2. RemoteInv' /\ BeatInv'
        BY <1>1, <2>1, RunningJob, Zenon DEF RemoteInv, BeatInv
    <2>3. ScriptInv' /\ HeldInv' /\ TrialInv' /\ DiskInv' /\ PlansInv'
        <3>1. Now' = Now /\ Planned' = Planned
            BY <1>1 DEF Now, Planned
        <3>2. ScriptInv' /\ DiskInv' /\ TrialInv'
            BY <1>1, <2>1, <3>1, RunningJob, Zenon DEF ScriptInv, DiskInv, TrialInv
        <3>3. HeldInv'
            BY <1>1, <2>1, HeldStays
        <3>4. PlansInv'
            BY <1>1, <2>1, <3>1, RunningJob, Zenon DEF PlansInv, PlannedInv, DeterminedInv
        <3> QED BY <3>2, <3>3, <3>4
    <2>4. SelectionInv'
        BY <1>1, <2>1, RunningJob DEF SelectionInv
    <2> QED BY <2>2, <2>3, <2>4, Zenon DEF JobInv
<1> QED BY <1>3, <1>4, <1>5 DEF RunInv

\* A campaign begins in the invariant.
LEMMA RunStarts == Init => RunInv
<1> SUFFICES ASSUME Init PROVE RunInv
    OBVIOUS
<1>1. /\ wave \in Waves /\ faults \in FaultSets /\ turn = 1 /\ pos = 1 /\ step = "look" /\ trial = Nothing
      /\ held = Nothing /\ disk = EmptyDisk /\ remote = EmptyStore /\ beat = Idle /\ failure = "none"
      /\ results = Nothing
    BY DEF Init, RunnerInit
<1>2. wave \in Seq(Jobs) /\ Len(wave) \in Nat
    BY <1>1, WaveAssumption
<1>3. WaveInv
    <2>1. 1 \in 1 .. (Len(wave) + 1) /\ {wave[k] : k \in 1 .. 0} = {}
        BY <1>2
    <2> QED BY <1>1, <2>1, NothingIs DEF WaveInv
<1>4. ResultsInv
    BY <1>1, NothingIs DEF ResultsInv
<1>5. JobInv
    <2> SUFFICES ASSUME turn <= Len(wave) PROVE JobInv
        BY DEF JobInv
    <2>1. Job \in Jobs
        BY <1>1, <1>2 DEF Job
    <2>2. ScriptInv
        BY <1>1, <2>1, LengthsAre DEF ScriptInv
    <2>3. HeldInv
        <3>1. DOMAIN held = {} /\ Before(Job, pos) = {}
            BY <1>1, NothingIs, BeforeFirst
        <3> QED BY <3>1 DEF HeldInv, Sound, Follows, Budgeted, Committed
    <2>4. TrialInv
        BY <1>1 DEF TrialInv
    <2>5. disk.store = EmptyStore /\ DOMAIN disk.attempts = {}
        BY <1>1, EmptyIs
    <2>6. DiskInv /\ RemoteInv
        BY <1>1, <2>5, EmptyIs DEF DiskInv, RemoteInv
    <2>7. PlansInv
        <3>1. PlannedInv
            <4>1. Planned = {}
                BY <1>1, <2>1, LengthsAre DEF Planned
            <4> QED BY <4>1 DEF PlannedInv
        <3>2. DeterminedInv
            <4> SUFFICES ASSUME Job \notin Timing, NEW s \in Range(StagesOf(Job)) PROVE EmptyStore.plans[s] = {}
                BY <2>5 DEF DeterminedInv
            <4>1. s \in AllStages
                BY <2>1, StagesKnown DEF Timing, Runtime
            <4> QED BY <4>1, EmptyIs
        <3> QED BY <2>5, <3>1, <3>2, EmptyIs DEF PlansInv
    <2>8. BeatInv
        <3>1. beat.at = 0 /\ beat.todo = {} /\ beat = [at |-> beat.at, todo |-> beat.todo]
            BY <1>1 DEF Idle
        <3>2. 0 \in 0 .. Len(StagesOf(Job))
            BY <2>1, StagesAre
        <3> QED BY <3>1, <3>2 DEF BeatInv, TuningBeat
    <2>9. SelectionInv
        BY <1>1, <2>5 DEF SelectionInv
    <2> QED BY <2>2, <2>3, <2>4, <2>6, <2>7, <2>8, <2>9 DEF JobInv
<1> QED BY <1>1, <1>3, <1>4, <1>5 DEF RunInv, RestartGoesOn

\* The invariant is kept by every step; each action of the runner, the heartbeat and the
\* host has its lemma.
LEMMA RunStep == RunInv /\ [Next]_run => RunInv'
<1> SUFFICES ASSUME RunInv, [Next]_run PROVE RunInv'
    OBVIOUS
<1> DEFINE Others == UNCHANGED <<wave, turn, faults, results, selection>>
<1>1. ASSUME JobInv', Others, failure' = failure PROVE RunInv'
    BY <1>1, ResultsStay DEF RunInv
<1>2. CASE TakeRestored
    <2>1. Others /\ failure' = failure
        BY <1>2, KeepsAll DEF TakeRestored
    <2> QED BY <1>1, <1>2, <2>1, RestoredStep
<1>3. CASE TakeCompleted
    <2>1. Others /\ failure' = failure
        BY <1>3, KeepsAll DEF TakeCompleted
    <2> QED BY <1>1, <1>3, <2>1, CompletedStep
<1>4. CASE StartAttempt
    <2>1. Others /\ failure' = failure
        BY <1>4, KeepsAll DEF StartAttempt
    <2> QED BY <1>1, <1>4, <2>1, StartStep
<1>5. CASE Measure
    <2>1. Others /\ failure' = failure
        BY <1>5, KeepsAll DEF Measure
    <2> QED BY <1>1, <1>5, <2>1, MeasureStep
<1>6. CASE CompleteAttempt
    <2>1. Others /\ failure' = failure
        BY <1>6, KeepsAll DEF CompleteAttempt
    <2> QED BY <1>1, <1>6, <2>1, CompleteStep
<1>7. CASE CommitAttempt
    <2>1. Others /\ failure' = failure
        BY <1>7, KeepsAll DEF CommitAttempt
    <2> QED BY <1>1, <1>7, <2>1, CommitRuntimeStep, CommitTuningStep
<1>8. CASE LoadDependencies
    <2>1. Others
        BY <1>8 DEF LoadDependencies, host, published
    <2> QED BY <1>1, <1>8, <2>1, LoadStep
<1>9. CASE SolveTraining
    <2>1. Others /\ failure' = failure
        BY <1>9, KeepsAll DEF SolveTraining
    <2> QED BY <1>1, <1>9, <2>1, SolveStep
<1>10. CASE WritePlan
    <2>1. Others
        BY <1>10 DEF WritePlan, host, published
    <2>2. WaveInv' /\ ResultsInv'
        <3>1. WaveInv /\ ResultsInv
            BY DEF RunInv
        <3> QED BY <2>1, <3>1, Zenon DEF WaveInv, ResultsInv
    <2>3. RestartGoesOn'
        <3>1. failure' # "none" => failure' = "plan" /\ faults' = {"disk_lost", "slow_upload"}
            BY <1>10, <2>1, RefusedPlan
        <3> QED BY <3>1 DEF RestartGoesOn
    <2> QED BY <1>10, <2>2, <2>3, PlanStep DEF RunInv
<1>11. CASE EvaluateBlock
    <2>1. Others /\ failure' = failure
        BY <1>11, KeepsAll DEF EvaluateBlock
    <2> QED BY <1>1, <1>11, <2>1, BlockStep
<1>12. CASE StageEnds
    <2>1. Others /\ failure' = failure
        BY <1>12, NothingMissing
    <2> QED BY <1>1, <1>12, <2>1, StageEndsStep
<1>13. CASE BeatStage
    <2>1. Others /\ failure' = failure
        BY <1>13 DEF BeatStage, host, outcome, published
    <2> QED BY <1>1, <1>13, <2>1, BeatStep
<1>14. CASE UploadNext
    <2>1. Others /\ failure' = failure
        BY <1>14 DEF UploadNext, Upload, host, outcome, published
    <2> QED BY <1>1, <1>14, <2>1, UploadStep
<1>15. CASE RestartKeepsDisk
    <2>1. Others /\ failure' = failure
        BY <1>15 DEF RestartKeepsDisk, Restart, host, published
    <2> QED BY <1>1, <1>15, <2>1, KeepStep
<1>16. CASE RestartLosesDisk
    <2>1. Others /\ failure' = failure
        BY <1>16 DEF RestartLosesDisk, Restart, host, published
    <2> QED BY <1>1, <1>16, <2>1, LoseStep
<1>17. CASE Publish
    BY <1>17, PublishStep
<1>18. CASE Select
    BY <1>18, SelectStep
<1>19. CASE UNCHANGED vars
    <2>1. UNCHANGED <<wave, faults, turn, pos, step, trial, held, disk, remote, beat, failure, selection, results>>
        BY <1>19 DEF vars, host, runner, outcome, published
    <2>2. JobInv'
        <3>1. CASE turn <= Len(wave)
            BY <2>1, <3>1, SameStep DEF Runs
        <3>2. CASE ~(turn <= Len(wave))
            BY <2>1, <3>2, Zenon DEF JobInv
        <3> QED BY <3>1, <3>2
    <2> QED BY <1>1, <2>1, <2>2
<1> QED
    BY <1>2, <1>3, <1>4, <1>5, <1>6, <1>7, <1>8, <1>9, <1>10, <1>11, <1>12, <1>13, <1>14, <1>15, <1>16,
       <1>17, <1>18, <1>19, Zenon DEF Next, CampaignStep, RunnerNext, BeatNext, Reduce, Ended, run

\* The invariant of a campaign: all of its properties follow from it.
THEOREM RunInvariant == Spec => []RunInv
<1> QED BY RunStarts, RunStep, PTL DEF Spec

-----------------------------------------------------------------------------
(* What was published.                                                     *)

\* What a published result says.
LEMMA ResultIs ==
    ASSUME RunInv, NEW j \in DOMAIN results
    PROVE  /\ j \in Jobs /\ results[j].job = j /\ results[j].campaign = "this" /\ ~results[j].smoke
           /\ j # "transplant" => results[j].mechanism = MechanismOf(j)
           /\ DOMAIN results[j].solvers = Labels(j)
           /\ \A l \in Labels(j) : Freezable(results[j].solvers[l].q, PoliciesOf(j))
           /\ j \notin Runtime => Plan(j, AuditOf(j), results[j].solvers) \subseteq results[j].audited
           /\ j \in {"evidence", "mixed"} => results[j].trained = Profiles(PoliciesOf(j))
           /\ j \in CncJobs => results[j].outcomes = UNION Supports(results[j].solvers)
<1>1. ResultOK(results, selection, j, results[j]) /\ j \in Jobs
    BY JobIs DEF RunInv, ResultsInv
<1>2. results[j].job = j /\ results[j].campaign = "this" /\ ~results[j].smoke
    <2>1. results[j] =
            [job |-> j, campaign |-> "this", smoke |-> FALSE, mechanism |-> results[j].mechanism,
             solvers |-> results[j].solvers, selection |-> results[j].selection,
             audited |-> results[j].audited, trained |-> results[j].trained,
             outcomes |-> results[j].outcomes]
        BY <1>1 DEF ResultOK
    <2> QED BY ONLY <2>1
<1> QED BY <1>1, <1>2 DEF ResultOK, Sound

\* The invariant has BudgetIsMeasured.
LEMMA BudgetHolds == RunInv => BudgetIsMeasured
BY DEF RunInv, ResultsInv, ResultOK, Budgeted, BudgetIsMeasured

\* The plan of an audit has all that its gains are computed from.
LEMMA ArmIsAudited ==
    ASSUME RunInv, NEW j \in DOMAIN results, j \notin Runtime, NEW arm \in Arms(j)
    PROVE  {arm[1]} \X Read(arm[2], PoliciesOf(j)) \subseteq results[j].audited
<1> DEFINE h == results[j].solvers
<1>0. Plan(j, AuditOf(j), h) \subseteq results[j].audited /\ DOMAIN h = Labels(j)
    BY ResultIs
<1> SUFFICES {arm[1]} \X Read(arm[2], PoliciesOf(j)) \subseteq Plan(j, AuditOf(j), h)
    BY <1>0
<1>1. Read(arm[2], PoliciesOf(j)) \subseteq Closure(arm[2], PoliciesOf(j))
    BY ReadIsClosed
<1>2. CASE j = "transplant"
    <2>1. Plan(j, AuditOf(j), h) = Entries(h["source"].q, h["target"].q)
        BY <1>2 DEF AuditOf, Plan
    <2>2. PoliciesOf(j) = Core
        BY <1>2, LibrariesAre
    <2>3. arm \in {<<"m1", h["source"].q>>, <<"m2", h["source"].q>>, <<"m2", h["target"].q>>}
        BY <1>2 DEF Arms
    <2>4. /\ Closure(h["source"].q, Core) \subseteq frozen_closure({h["source"].q}, Core)
          /\ Closure(h["source"].q, Core) \subseteq frozen_closure({h["source"].q, h["target"].q}, Core)
          /\ Closure(h["target"].q, Core) \subseteq frozen_closure({h["source"].q, h["target"].q}, Core)
        BY DEF frozen_closure
    <2>5. \/ arm[1] = "m1" /\ Read(arm[2], Core) \subseteq frozen_closure({h["source"].q}, Core)
          \/ arm[1] = "m2" /\ Read(arm[2], Core) \subseteq frozen_closure({h["source"].q, h["target"].q}, Core)
        BY <1>1, <2>2, <2>3, <2>4
    <2> QED BY <2>1, <2>2, <2>5 DEF Entries
<1>3. CASE j # "transplant"
    <2>1. Plan(j, AuditOf(j), h) = {MechanismOf(j)} \X AuditPlan(j, h)
        BY <1>3 DEF AuditOf, Plan
    <2>2. PICK l \in DOMAIN h : arm = <<MechanismOf(j), h[l].q>>
        BY <1>3 DEF Arms
    <2>3. h[l].q \in Supports(h)
        BY DEF Supports
    <2>4. Closure(h[l].q, PoliciesOf(j)) \subseteq AuditPlan(j, h)
        BY <2>3, FrozenHolds DEF AuditPlan
    <2>5. arm[1] = MechanismOf(j) /\ Read(arm[2], PoliciesOf(j)) \subseteq AuditPlan(j, h)
        BY <1>1, <2>2, <2>4
    <2> QED BY <2>1, <2>5
<1> QED BY <1>2, <1>3

\* The invariant has AuditCovers.
LEMMA AuditHolds == RunInv => AuditCovers
BY ArmIsAudited DEF AuditCovers, Runtime

-----------------------------------------------------------------------------
(* The reducers.                                                           *)

\* The jobs every reducer reads.
LEMMA ReadsAre ==
    /\ Families = {"benchmark", "cnc", "transplant", "library", "parameter", "selection", "pure_mixed", "scalability"}
    /\ JobsRead("benchmark") = {"evidence", "runtime"} /\ JobsRead("cnc") = {"source", "target"}
    /\ JobsRead("transplant") = {"transplant"} /\ JobsRead("library") = {"core", "expanded"}
    /\ JobsRead("parameter") = {"nominal", "scaled"} /\ JobsRead("selection") = {"selectors"}
    /\ JobsRead("pure_mixed") = {"evidence", "mixed"}
    /\ JobsRead("scalability") = {"sparse", "sparse_runtime"}
    /\ \A f \in Families : JobsRead(f) # {} /\ \A i \in DOMAIN Reads[f] : Reads[f][i] # {}
<1>1. Families = {"benchmark", "cnc", "transplant", "library", "parameter", "selection", "pure_mixed", "scalability"}
    BY DEF Families, Reads
<1>2. ASSUME NEW a, NEW b PROVE UNION Range(<<a, b>>) = a \cup b
    <2>1. Range(<<a, b>>) = {a, b}
        BY DEF Range
    <2> QED BY <2>1
<1>3. ASSUME NEW a PROVE UNION Range(<<a>>) = a
    <2>1. Range(<<a>>) = {a}
        BY DEF Range
    <2> QED BY <2>1
<1>4. /\ Reads["benchmark"] = <<{"evidence"}, {"runtime"}>> /\ Reads["cnc"] = <<{"source", "target"}>>
      /\ Reads["transplant"] = <<{"transplant"}>> /\ Reads["library"] = <<{"core", "expanded"}>>
      /\ Reads["parameter"] = <<{"nominal", "scaled"}>> /\ Reads["selection"] = <<{"selectors"}>>
      /\ Reads["pure_mixed"] = <<{"evidence"}, {"mixed"}>>
      /\ Reads["scalability"] = <<{"sparse"}, {"sparse_runtime"}>>
    BY DEF Reads
<1>5. /\ JobsRead("cnc") = {"source", "target"}
      /\ JobsRead("transplant") = {"transplant"} /\ JobsRead("library") = {"core", "expanded"}
      /\ JobsRead("parameter") = {"nominal", "scaled"} /\ JobsRead("selection") = {"selectors"}
    BY <1>3, <1>4, Zenon DEF JobsRead
<1>6. /\ JobsRead("benchmark") = {"evidence"} \cup {"runtime"}
      /\ JobsRead("pure_mixed") = {"evidence"} \cup {"mixed"}
      /\ JobsRead("scalability") = {"sparse"} \cup {"sparse_runtime"}
    BY <1>2, <1>4, Zenon DEF JobsRead
<1>7. ASSUME NEW f \in Families PROVE JobsRead(f) # {}
    BY <1>1, <1>5, <1>6
<1>8. ASSUME NEW f \in Families, NEW i \in DOMAIN Reads[f] PROVE Reads[f][i] # {}
    BY <1>1, <1>4
<1> QED BY <1>1, <1>5, <1>6, <1>7, <1>8

\* The files of some jobs, at their places.
LEMMA OnlyIs ==
    ASSUME NEW found, NEW jobs
    PROVE  /\ DOMAIN Only(found, jobs) = {i \in DOMAIN found : found[i].job \in jobs}
           /\ \A i \in DOMAIN Only(found, jobs) : Only(found, jobs)[i] = found[i]
BY DEF Only, Restrict

\* One campaign is one.
LEMMA OneCampaign ==
    ASSUME NEW S, NEW c, S = {c}
    PROVE  Cardinality(S) = 1
BY FS_Singleton

\* The file of a job, among those that were published.
LEMMA FoundIsIt ==
    ASSUME RunInv, NEW j \in DOMAIN results
    PROVE  Found(results, j) = results[j]
<1>1. \A i \in DOMAIN results : results[i].job = j <=> i = j
    BY ResultIs
<1>2. (CHOOSE i \in DOMAIN results : results[i].job = j) = j
    BY <1>1
<1> QED BY <1>2 DEF Found

\* All that is published of some jobs is complete.
LEMMA PublishedIsComplete ==
    ASSUME RunInv, NEW jobs, jobs \subseteq DOMAIN results, jobs # {}, "transplant" \notin jobs
    PROVE  /\ Complete(Only(results, jobs), jobs)
           /\ Cardinality({r.campaign : r \in Range(Only(results, jobs))}) = 1
<1> DEFINE f == Only(results, jobs)
<1>1. DOMAIN f = jobs /\ \A j \in jobs : f[j] = results[j]
    <2>1. {i \in DOMAIN results : results[i].job \in jobs} = jobs
        BY ResultIs
    <2> QED BY <2>1 DEF Only, Restrict
<1> HIDE DEF f
<1>2. \A j \in jobs : f[j].job = j /\ f[j].campaign = "this" /\ ~f[j].smoke /\ f[j].mechanism = MechanismOf(j)
    <2> SUFFICES ASSUME NEW j \in jobs
                 PROVE  /\ f[j].job = j /\ f[j].campaign = "this"
                        /\ ~f[j].smoke /\ f[j].mechanism = MechanismOf(j)
        OBVIOUS
    <2>1. f[j] = results[j] /\ j \in DOMAIN results /\ j # "transplant"
        BY <1>1
    <2>2. ~results[j].smoke
        BY <2>1, ResultIs, Zenon
    <2>3. ~f[j].smoke
        BY <2>1, <2>2, Zenon
    <2> QED BY <2>1, <2>3, ResultIs
<1>3. IsInjective([i \in DOMAIN f |-> f[i].job])
    BY <1>1, <1>2 DEF IsInjective
<1>4. {f[i].job : i \in DOMAIN f} = jobs
    BY <1>1, <1>2
<1>5. {f[i].campaign : i \in DOMAIN f} = {"this"}
    BY <1>1, <1>2
<1>6. {r.campaign : r \in Range(f)} = {"this"}
    BY <1>1, <1>2 DEF Range
<1>7. Cardinality({f[i].campaign : i \in DOMAIN f}) = 1 /\ Cardinality({r.campaign : r \in Range(f)}) = 1
    BY <1>5, <1>6, OneCampaign
<1>8. Complete(f, jobs)
    BY <1>1, <1>2, <1>3, <1>4, <1>7, Zenon DEF Complete
<1> QED BY <1>7, <1>8 DEF f

\* The outcomes of a job are those of its distributions, and there are some.
LEMMA OutcomesAre ==
    ASSUME RunInv, NEW j \in DOMAIN results, j \in CncJobs, NEW l \in Labels(j)
    PROVE  results[j].outcomes # {} /\ results[j].solvers[l].q \subseteq results[j].outcomes
<1> DEFINE h == results[j].solvers
<1>1. results[j].outcomes = UNION Supports(h) /\ DOMAIN h = Labels(j) /\ Freezable(h[l].q, PoliciesOf(j))
    BY ResultIs
<1>2. h[l].q \in Supports(h)
    BY <1>1 DEF Supports
<1> QED BY <1>1, <1>2 DEF Freezable

\* The matrix of an audit is whole for each of the distributions of a job.
LEMMA MatrixIsWhole ==
    ASSUME RunInv, NEW j \in DOMAIN results, j \notin Runtime, j # "transplant", NEW l \in Labels(j)
    PROVE  AuditIsWhole(results[j], results[j].mechanism, results[j].solvers[l].q)
<1>1. DOMAIN results[j].solvers = Labels(j) /\ results[j].job = j /\ results[j].mechanism = MechanismOf(j)
    BY ResultIs
<1> DEFINE arm == <<MechanismOf(j), results[j].solvers[l].q>>
<1>2. arm \in Arms(j)
    BY <1>1 DEF Arms
<1>3. {arm[1]} \X Read(arm[2], PoliciesOf(j)) \subseteq results[j].audited
    BY <1>2, ArmIsAudited
<1>4. arm[1] = MechanismOf(j) /\ arm[2] = results[j].solvers[l].q
    OBVIOUS
<1> HIDE DEF arm
<1> QED BY <1>1, <1>3, <1>4 DEF AuditIsWhole

\* The cross-checks of a reducer hold of what the runners publish.
LEMMA AllFit ==
    ASSUME RunInv, NEW f \in Families, f \notin {"benchmark", "transplant"},
           JobsRead(f) \subseteq DOMAIN results
    PROVE  Fits(f, results)
<1>1. CASE f = "cnc"
    <2>1. \A job \in {"source", "target"} : Found(results, job).outcomes # {}
        <3> SUFFICES ASSUME NEW job \in {"source", "target"} PROVE Found(results, job).outcomes # {}
            OBVIOUS
        <3>1. job \in DOMAIN results /\ job \in CncJobs /\ Labels(job) = {"platform"}
            BY <1>1, ReadsAre, LabelsAre DEF CncJobs
        <3> QED BY <3>1, OutcomesAre, FoundIsIt
    <2>2. CncFits(results)
        BY <2>1 DEF CncFits
    <2> QED BY <1>1, <2>2 DEF Fits
<1>2. CASE f = "library"
    <2>1. \A job \in {"core", "expanded"} : Found(results, job).outcomes # {}
        <3> SUFFICES ASSUME NEW job \in {"core", "expanded"} PROVE Found(results, job).outcomes # {}
            OBVIOUS
        <3>1. job \in DOMAIN results /\ job \in CncJobs /\ "platform" \in Labels(job)
            BY <1>2, ReadsAre, LabelsAre DEF CncJobs
        <3> QED BY <3>1, OutcomesAre, FoundIsIt
    <2>2. "expanded" \in DOMAIN results /\ Found(results, "expanded") = results["expanded"]
        BY <1>2, ReadsAre, FoundIsIt
    <2>3. "core" \in DOMAIN results["expanded"].solvers
        BY <2>2, ResultIs, LabelsAre
    <2>4. AuditIsWhole(results["expanded"], results["expanded"].mechanism, results["expanded"].solvers["core"].q)
        BY <2>2, MatrixIsWhole, LabelsAre DEF Runtime
    <2>5. LibraryFits(results)
        BY <2>1, <2>2, <2>3, <2>4, Zenon DEF LibraryFits
    <2> QED BY <1>2, <2>5 DEF Fits
<1>3. CASE f = "parameter"
    <2>1. \A job \in {"nominal", "scaled"} : Found(results, job).outcomes # {}
        <3> SUFFICES ASSUME NEW job \in {"nominal", "scaled"} PROVE Found(results, job).outcomes # {}
            OBVIOUS
        <3>1. job \in DOMAIN results /\ job \in CncJobs /\ Labels(job) = {"platform"}
            BY <1>3, ReadsAre, LabelsAre DEF CncJobs
        <3> QED BY <3>1, OutcomesAre, FoundIsIt
    <2>2. ParameterFits(results)
        BY <2>1 DEF ParameterFits
    <2> QED BY <1>3, <2>2 DEF Fits
<1>4. CASE f = "selection"
    <2> DEFINE r == results["selectors"]
    <2>1. "selectors" \in DOMAIN results /\ Found(results, "selectors") = r /\ Labels("selectors") = Selectors
        BY <1>4, ReadsAre, FoundIsIt, LabelsAre
    <2>2. DOMAIN r.solvers = Selectors
        BY <2>1, ResultIs
    <2>3. \A s \in Selectors :
            r.solvers[s].q \subseteq r.outcomes /\ AuditIsWhole(r, r.mechanism, r.solvers[s].q)
        <3>1. "selectors" \in CncJobs /\ "selectors" \notin Runtime
            BY DEF CncJobs, Runtime
        <3> QED BY <2>1, <3>1, OutcomesAre, MatrixIsWhole
    <2> HIDE DEF r
    <2>4. SelectionFits(results)
        BY <2>1, <2>2, <2>3, Zenon DEF SelectionFits
    <2> QED BY <1>4, <2>4 DEF Fits
<1>5. CASE f = "pure_mixed"
    <2>1. ASSUME NEW job \in {"evidence", "mixed"}
          PROVE  LET r == Found(results, job) IN
                 /\ r.trained = Profiles(PoliciesOf(job))
                 /\ DOMAIN r.solvers = FullBundle
                 /\ \A s \in FullBundle : AuditIsWhole(r, r.mechanism, r.solvers[s].q)
        <3> DEFINE r == results[job]
        <3>1. job \in DOMAIN results /\ Labels(job) = FullBundle /\ Found(results, job) = r
            BY <1>5, ReadsAre, LabelsAre, FoundIsIt
        <3>2. r.trained = Profiles(PoliciesOf(job)) /\ DOMAIN r.solvers = FullBundle
            BY <3>1, ResultIs
        <3>3. \A s \in FullBundle : AuditIsWhole(r, r.mechanism, r.solvers[s].q)
            BY <3>1, MatrixIsWhole DEF Runtime
        <3> HIDE DEF r
        <3> QED BY <3>1, <3>2, <3>3
    <2>2. PureMixedFits(results)
        BY <2>1, Zenon DEF PureMixedFits
    <2> QED BY <1>5, <2>2 DEF Fits
<1>6. CASE f = "scalability"
    <2>1. /\ "sparse" \in DOMAIN results /\ Found(results, "sparse") = results["sparse"]
          /\ "sparse_runtime" \in DOMAIN results /\ Found(results, "sparse_runtime") = results["sparse_runtime"]
          /\ Labels("sparse") = PairBundle /\ Labels("sparse_runtime") = PairBundle
        BY <1>6, ReadsAre, LabelsAre, FoundIsIt
    <2>2. DOMAIN results["sparse"].solvers = PairBundle /\ DOMAIN results["sparse_runtime"].solvers = PairBundle
        BY <2>1, ResultIs
    <2>3. \A s \in PairBundle : SameQ(results["sparse"], results["sparse_runtime"], s)
        <3> SUFFICES ASSUME NEW s \in PairBundle PROVE SameQ(results["sparse"], results["sparse_runtime"], s)
            OBVIOUS
        <3>1. Follows(results, "sparse", results["sparse"].solvers)
            BY <2>1 DEF RunInv, ResultsInv, ResultOK
        <3>2. results["sparse"].solvers[s].q = Expected(results, "sparse", s)
            BY <2>2, <3>1 DEF Follows, Timing
        <3>3. Expected(results, "sparse", s) = results["sparse_runtime"].solvers[s].q
            BY DEF Expected
        <3>4. Freezable(results["sparse"].solvers[s].q, PoliciesOf("sparse")) /\ results["sparse"].job = "sparse"
            BY <2>1, ResultIs
        <3> QED BY <3>2, <3>3, <3>4 DEF SameQ
    <2>4. ScalabilityFits(results)
        BY <2>1, <2>2, <2>3, Zenon DEF ScalabilityFits
    <2> QED BY <1>6, <2>4 DEF Fits
<1> QED BY <1>1, <1>2, <1>3, <1>4, <1>5, <1>6, ReadsAre

\* The invariant has CompleteIsReduced.
LEMMA CompleteHolds == RunInv => CompleteIsReduced
<1> SUFFICES ASSUME RunInv, NEW f \in Families, f \notin {"benchmark", "transplant"},
                    JobsRead(f) \subseteq DOMAIN results
             PROVE  Accepts(f, results)
    BY Zenon DEF CompleteIsReduced
<1>1. "transplant" \notin JobsRead(f) /\ JobsRead(f) # {}
    BY ReadsAre
<1>2. ASSUME NEW i \in DOMAIN Reads[f]
      PROVE  Complete(Only(results, Reads[f][i]), Reads[f][i])
    <2>1. Reads[f][i] \subseteq JobsRead(f) /\ Reads[f][i] # {}
        BY ReadsAre DEF JobsRead, Range
    <2> QED BY <1>1, <2>1, PublishedIsComplete
<1>3. Cardinality({r.campaign : r \in Range(Only(results, JobsRead(f)))}) = 1
    BY <1>1, PublishedIsComplete
<1>4. Fits(f, results)
    BY AllFit
<1> QED BY <1>2, <1>3, <1>4, Zenon DEF Accepts

-----------------------------------------------------------------------------
(* The summaries.                                                          *)

\* A result of another campaign, or of a smoke test.
LEMMA Altered ==
    ASSUME NEW r, NEW j, NEW smoke, NEW m, NEW s, NEW e, NEW a, NEW t, NEW o,
           r = [job |-> j, campaign |-> "this", smoke |-> smoke, mechanism |-> m, solvers |-> s,
                selection |-> e, audited |-> a, trained |-> t, outcomes |-> o]
    PROVE  /\ [r EXCEPT !.campaign = "this"] = r
           /\ [r EXCEPT !.campaign = "other"].job = j
           /\ [r EXCEPT !.campaign = "other"].campaign = "other"
           /\ [r EXCEPT !.smoke = TRUE].job = j
           /\ [r EXCEPT !.smoke = TRUE].campaign = "this"
           /\ [r EXCEPT !.smoke = TRUE].smoke
OBVIOUS

\* What is left of a result that was altered.
LEMMA ResultAltered ==
    ASSUME RunInv, NEW j \in DOMAIN results
    PROVE  /\ [results[j] EXCEPT !.campaign = "this"] = results[j]
           /\ [results[j] EXCEPT !.campaign = "other"].job = j
           /\ [results[j] EXCEPT !.campaign = "other"].campaign = "other"
           /\ [results[j] EXCEPT !.smoke = TRUE].job = j
           /\ [results[j] EXCEPT !.smoke = TRUE].campaign = "this"
           /\ [results[j] EXCEPT !.smoke = TRUE].smoke
<1>1. ResultOK(results, selection, j, results[j])
    BY DEF RunInv, ResultsInv
<1>2. PICK smoke : smoke = FALSE
    OBVIOUS
<1>3. results[j] =
        [job |-> j, campaign |-> "this", smoke |-> smoke, mechanism |-> results[j].mechanism,
         solvers |-> results[j].solvers, selection |-> results[j].selection,
         audited |-> results[j].audited, trained |-> results[j].trained,
         outcomes |-> results[j].outcomes]
    BY <1>1, <1>2, Zenon DEF ResultOK
<1> QED BY ONLY <1>3, Altered

\* The file at a place is the result of a job, of this campaign or of another one.
IsFile(x, r, j, c) ==
    /\ x \in {j, "copy"} /\ r.job = j /\ r.campaign = c
    /\ ~r.smoke => r = [results[j] EXCEPT !.campaign = c]

\* A published result is a file of this campaign.
LEMMA ResultIsFile ==
    ASSUME RunInv, NEW x, NEW j \in DOMAIN results, x \in {j, "copy"}
    PROVE  IsFile(x, results[j], j, "this")
BY ResultIs, ResultAltered, Zenon DEF IsFile

\* So is an altered one, of the other campaign or of a smoke test.
LEMMA OtherIsFile ==
    ASSUME RunInv, NEW x, NEW j \in DOMAIN results, x \in {j, "copy"}
    PROVE  /\ IsFile(x, [results[j] EXCEPT !.campaign = "other"], j, "other")
           /\ IsFile(x, [results[j] EXCEPT !.smoke = TRUE], j, "this")
BY ResultAltered, Zenon DEF IsFile

AreFiles(found) ==
    /\ DOMAIN results \subseteq DOMAIN found
    /\ \A x \in DOMAIN found :
        \E j \in DOMAIN results, c \in {"this", "other"} : IsFile(x, found[x], j, c)

\* A root that differs from what was published at a single place.
LEMMA OnePlace ==
    ASSUME RunInv, NEW found, NEW x, NEW j \in DOMAIN results, NEW c \in {"this", "other"},
           DOMAIN found = DOMAIN results \cup {x}, IsFile(x, found[x], j, c),
           \A y \in DOMAIN results : y # x => found[y] = results[y]
    PROVE  AreFiles(found)
<1>1. ASSUME NEW y \in DOMAIN results PROVE IsFile(y, results[y], y, "this")
    BY ResultIsFile
<1>2. ASSUME NEW y \in DOMAIN found
      PROVE  \E i \in DOMAIN results, d \in {"this", "other"} : IsFile(y, found[y], i, d)
    <2>1. CASE y = x
        BY <2>1
    <2>2. CASE y # x
        BY <1>1, <2>2
    <2> QED BY <2>1, <2>2
<1> QED BY <1>2 DEF AreFiles

\* Whatever is discovered, every file is that of a job of some campaign.
LEMMA DiscoveredIs ==
    ASSUME RunInv, NEW found \in Discovered
    PROVE  AreFiles(found)
<1>0. ASSUME NEW x \in DOMAIN results PROVE IsFile(x, results[x], x, "this")
    BY ResultIsFile
<1>1. CASE found = results
    BY <1>0, <1>1 DEF AreFiles
<1>2. ASSUME NEW job \in DOMAIN results, found = Broken("duplicate", job) PROVE AreFiles(found)
    <2>1. found = With(results, "copy", results[job])
        BY <1>2 DEF Broken
    <2>2. IsFile("copy", results[job], job, "this")
        BY ResultIsFile
    <2>3. /\ DOMAIN found = DOMAIN results \cup {"copy"} /\ found["copy"] = results[job]
          /\ \A y \in DOMAIN results : y # "copy" => found[y] = results[y]
        BY <2>1 DEF With
    <2> QED BY <2>2, <2>3, OnePlace
<1>3. ASSUME NEW job \in DOMAIN results, found = Broken("rival", job) PROVE AreFiles(found)
    <2> DEFINE r == [results[job] EXCEPT !.campaign = "other"]
    <2>2. IsFile("copy", r, job, "other")
        BY OtherIsFile
    <2>1. found = With(results, "copy", r)
        BY <1>3 DEF Broken
    <2> HIDE DEF r
    <2>3. /\ DOMAIN found = DOMAIN results \cup {"copy"} /\ found["copy"] = r
          /\ \A y \in DOMAIN results : y # "copy" => found[y] = results[y]
        BY <2>1 DEF With
    <2> QED BY <2>2, <2>3, OnePlace
<1>4. ASSUME NEW job \in DOMAIN results, found = Broken("foreign", job) PROVE AreFiles(found)
    <2> DEFINE r == [results[job] EXCEPT !.campaign = "other"]
    <2>2. IsFile(job, r, job, "other")
        BY OtherIsFile
    <2>1. found = [results EXCEPT ![job] = r]
        BY <1>4 DEF Broken
    <2> HIDE DEF r
    <2>3. /\ DOMAIN found = DOMAIN results \cup {job} /\ found[job] = r
          /\ \A y \in DOMAIN results : y # job => found[y] = results[y]
        BY <2>1
    <2> QED BY <2>2, <2>3, OnePlace
<1>5. ASSUME NEW job \in DOMAIN results, found = Broken("smoke", job) PROVE AreFiles(found)
    <2> DEFINE r == [results[job] EXCEPT !.smoke = TRUE]
    <2>2. IsFile(job, r, job, "this")
        BY OtherIsFile
    <2>1. found = [results EXCEPT ![job] = r]
        BY <1>5 DEF Broken
    <2> HIDE DEF r
    <2>3. /\ DOMAIN found = DOMAIN results \cup {job} /\ found[job] = r
          /\ \A y \in DOMAIN results : y # job => found[y] = results[y]
        BY <2>1
    <2> QED BY <2>2, <2>3, OnePlace
<1>6. found = results \/ \E flaw \in Flaws, job \in DOMAIN results : found = Broken(flaw, job)
    BY DEF Discovered
<1> QED BY <1>1, <1>2, <1>3, <1>4, <1>5, <1>6 DEF Flaws

\* What is complete has the result of each job at the place of that job, and nothing else.
LEMMA CompleteIs ==
    ASSUME RunInv, NEW found, AreFiles(found), NEW jobs, Complete(Only(found, jobs), jobs)
    PROVE  /\ jobs \subseteq DOMAIN results
           /\ \A x \in DOMAIN found : found[x].job \in jobs => ~found[x].smoke /\ x \in jobs
           /\ \A j \in jobs : found[j].job = j
<1> DEFINE f == Only(found, jobs)
<1>1. DOMAIN f = {i \in DOMAIN found : found[i].job \in jobs} /\ \A i \in DOMAIN f : f[i] = found[i]
    BY OnlyIs
<1> HIDE DEF f
<1>2. /\ \A i \in DOMAIN f : ~f[i].smoke
      /\ IsInjective([i \in DOMAIN f |-> f[i].job])
      /\ {f[i].job : i \in DOMAIN f} = jobs
    BY Zenon DEF Complete, f
<1>3. ASSUME NEW x \in DOMAIN found
      PROVE  found[x].job \in DOMAIN results /\ x \in {found[x].job, "copy"}
    BY DEF AreFiles, IsFile
<1>4. jobs \subseteq DOMAIN results
    BY <1>1, <1>2, <1>3
<1>5. ASSUME NEW x \in DOMAIN f, NEW y \in DOMAIN f, f[x].job = f[y].job PROVE x = y
    BY <1>2, <1>5 DEF IsInjective
<1>6. ASSUME NEW j \in DOMAIN results PROVE j \in DOMAIN found /\ found[j].job = j
    <2>1. j # "copy" /\ j \in DOMAIN found
        BY JobIs DEF RunInv, AreFiles, Jobs, Script
    <2> QED BY <1>3, <2>1
<1>7. ASSUME NEW x \in DOMAIN found, found[x].job \in jobs
      PROVE  ~found[x].smoke /\ x = found[x].job
    <2>1. x \in DOMAIN f /\ f[x] = found[x]
        BY <1>1, <1>7
    <2>2. found[x].job \in DOMAIN f /\ f[found[x].job].job = f[x].job
        BY <1>1, <1>4, <1>6, <1>7, <2>1
    <2>3. x = found[x].job
        BY <1>5, <2>1, <2>2
    <2>4. ~f[x].smoke
        BY <1>2, <2>1, Zenon
    <2>5. ~found[x].smoke
        BY <2>1, <2>4, Zenon
    <2> QED BY <2>3, <2>5
<1>8. ASSUME NEW x \in DOMAIN found, found[x].job \in jobs
      PROVE  ~found[x].smoke /\ x \in jobs
    <2>1. ~found[x].smoke /\ x = found[x].job
        BY <1>7, <1>8, Zenon
    <2>2. x \in jobs
        BY <1>8, <2>1
    <2> QED BY <2>1, <2>2, Zenon
<1> QED BY <1>4, <1>6, <1>8, Zenon

\* The number of elements of a set of one campaign.
LEMMA ExactlyOne ==
    ASSUME NEW S, S \subseteq {"this", "other"}, Cardinality(S) = 1
    PROVE  \E c \in {"this", "other"} : S = {c}
<1>1. Cardinality({}) = 0
    BY FS_EmptySet
<1>2. IsFiniteSet({"this", "other"}) /\ Cardinality({"this", "other"}) = 2
    <2>1. IsFiniteSet({"this"}) /\ Cardinality({"this"}) = 1
        BY FS_Singleton
    <2>2. {"this"} \cup {"other"} = {"this", "other"} /\ "other" \notin {"this"}
        OBVIOUS
    <2> QED BY <2>1, <2>2, FS_AddElement
<1>3. S # {} /\ S # {"this", "other"}
    BY <1>1, <1>2
<1> QED BY <1>3

\* What a reducer accepts is the result of each of its jobs, and all of one campaign.
LEMMA AcceptedIs ==
    ASSUME RunInv, NEW found \in Discovered, NEW f \in Families, Accepts(f, found)
    PROVE  /\ JobsRead(f) \subseteq DOMAIN results
           /\ \E c \in {"this", "other"} :
                Summary(f, found) = {[results[j] EXCEPT !.campaign = c] : j \in JobsRead(f)}
<1> DEFINE jobs == JobsRead(f)
<1>0. AreFiles(found) /\ \A i \in DOMAIN Reads[f] : Complete(Only(found, Reads[f][i]), Reads[f][i])
    BY DiscoveredIs DEF Accepts
<1>1. \A j : j \in jobs <=> \E i \in DOMAIN Reads[f] : j \in Reads[f][i]
    BY DEF JobsRead, Range
<1> HIDE DEF jobs
<1>2. /\ jobs \subseteq DOMAIN results
      /\ \A x \in DOMAIN found : found[x].job \in jobs => ~found[x].smoke /\ x \in jobs
      /\ \A j \in jobs : found[j].job = j
    <2>1. ASSUME NEW j \in jobs PROVE j \in DOMAIN results /\ found[j].job = j
        BY <1>0, <1>1, CompleteIs
    <2>2. ASSUME NEW x \in DOMAIN found, found[x].job \in jobs PROVE ~found[x].smoke /\ x \in jobs
        <3>1. PICK i \in DOMAIN Reads[f] : found[x].job \in Reads[f][i]
            BY <1>1, <2>2
        <3>2. ~found[x].smoke /\ x \in Reads[f][i]
            BY <1>0, <3>1, CompleteIs, Zenon
        <3> QED BY <1>1, <3>2, Zenon
    <2> QED BY <2>1, <2>2, Zenon
<1>3. ASSUME NEW x \in DOMAIN found, found[x].job \in jobs
      PROVE  /\ x \in jobs /\ found[x].campaign \in {"this", "other"}
             /\ found[x] = [results[x] EXCEPT !.campaign = found[x].campaign]
    <2>1. PICK j \in DOMAIN results, c \in {"this", "other"} : IsFile(x, found[x], j, c)
        BY <1>0 DEF AreFiles
    <2>2. ~found[x].smoke /\ x \in jobs
        BY <1>2, <1>3, Zenon
    <2>3. found[x].job = j /\ found[x].campaign = c /\ found[x] = [results[j] EXCEPT !.campaign = c]
        BY <2>1, <2>2, Zenon DEF IsFile
    <2>4. found[x].job = x
        BY <1>2, <2>2
    <2>5. found[x] = [results[x] EXCEPT !.campaign = found[x].campaign]
        BY <2>3, <2>4, Zenon
    <2> QED BY <2>2, <2>3, <2>5
<1> DEFINE S == {r.campaign : r \in Range(Only(found, jobs))}
<1>4. S = {found[j].campaign : j \in jobs}
    <2>1. DOMAIN Only(found, jobs) = jobs /\ \A j \in jobs : Only(found, jobs)[j] = found[j]
        <3>1. {i \in DOMAIN found : found[i].job \in jobs} = jobs
            BY <1>0, <1>2, <1>3 DEF AreFiles
        <3>2. DOMAIN Only(found, jobs) = jobs
            <4>1. DOMAIN Only(found, jobs) = {i \in DOMAIN found : found[i].job \in jobs}
                BY OnlyIs
            <4> QED BY ONLY <3>1, <4>1
        <3>3. \A j \in DOMAIN Only(found, jobs) : Only(found, jobs)[j] = found[j]
            BY OnlyIs
        <3> QED BY <3>2, <3>3
    <2> QED BY <2>1 DEF Range
<1>5. PICK c \in {"this", "other"} : S = {c}
    <2>1. Cardinality(S) = 1
        BY DEF Accepts, jobs
    <2>2. S \subseteq {"this", "other"}
        BY <1>0, <1>2, <1>3, <1>4 DEF AreFiles
    <2> QED BY <2>1, <2>2, ExactlyOne
<1>6. ASSUME NEW j \in jobs
      PROVE  j \in DOMAIN found /\ found[j] = [results[j] EXCEPT !.campaign = c]
    <2>1. j \in DOMAIN found /\ found[j].job \in jobs /\ found[j].campaign = c
        BY <1>0, <1>2, <1>4, <1>5 DEF AreFiles
    <2> QED BY <1>3, <2>1
<1>7. Summary(f, found) = {found[j] : j \in jobs}
    <2>1. Summary(f, found) = {r \in {found[x] : x \in DOMAIN found} : r.job \in jobs}
        BY DEF Summary, Range, jobs
    <2>2. ASSUME NEW r \in Summary(f, found) PROVE r \in {found[j] : j \in jobs}
        <3>1. PICK x \in DOMAIN found : r = found[x] /\ found[x].job \in jobs
            BY <2>1
        <3> QED BY <1>3, <3>1
    <2>3. ASSUME NEW j \in jobs PROVE found[j] \in Summary(f, found)
        <3>1. j \in DOMAIN found /\ found[j].job \in jobs
            BY <1>2, <1>6
        <3> QED BY <2>1, <3>1
    <2> QED BY <2>2, <2>3
<1>8. Summary(f, found) = {[results[j] EXCEPT !.campaign = c] : j \in jobs}
    BY <1>6, <1>7
<1> QED BY <1>2, <1>8 DEF jobs

Grown == \A j \in DOMAIN results : j \in DOMAIN results' /\ results'[j] = results[j]

\* The summaries stay whole while results are added.
LEMMA ReportsKept ==
    ASSUME ReportsInv, Grown, UNCHANGED reports
    PROVE  ReportsInv'
<1>1. ASSUME NEW f \in DOMAIN reports
      PROVE  /\ f \in Families /\ JobsRead(f) \subseteq DOMAIN results'
             /\ \E c \in {"this", "other"} :
                  reports[f] = {[results'[j] EXCEPT !.campaign = c] : j \in JobsRead(f)}
    <2>1. f \in Families /\ JobsRead(f) \subseteq DOMAIN results
        BY DEF ReportsInv
    <2>2. PICK c \in {"this", "other"} :
            reports[f] = {[results[j] EXCEPT !.campaign = c] : j \in JobsRead(f)}
        BY DEF ReportsInv, ReportsAreWhole
    <2>3. \A j \in JobsRead(f) : [results'[j] EXCEPT !.campaign = c] = [results[j] EXCEPT !.campaign = c]
        BY <2>1, Zenon DEF Grown
    <2>4. reports[f] = {[results'[j] EXCEPT !.campaign = c] : j \in JobsRead(f)}
        BY <2>2, <2>3
    <2> QED BY <2>1, <2>4 DEF Grown
<1> QED BY <1>1, Zenon DEF ReportsInv, ReportsAreWhole

\* The summaries that are written are whole.
LEMMA ReduceStep == RunInv /\ ReportsInv /\ Reduce => ReportsInv'
<1> SUFFICES ASSUME RunInv, ReportsInv, Reduce PROVE ReportsInv'
    OBVIOUS
<1>1. PICK requested \in Requests, found \in Discovered :
        /\ \A f \in requested : Accepts(f, found)
        /\ reports' = Merged([f \in requested |-> Summary(f, found)], reports)
        /\ results' = results
    BY DEF Reduce, AllAccept, vars, published
<1>2. requested \subseteq Families
    BY RequestAssumption
<1>3. /\ DOMAIN reports' = requested \cup DOMAIN reports
      /\ \A f \in DOMAIN reports' : reports'[f] = IF f \in requested THEN Summary(f, found) ELSE reports[f]
    BY <1>1 DEF Merged
<1>4. ASSUME NEW f \in DOMAIN reports'
      PROVE  /\ f \in Families /\ JobsRead(f) \subseteq DOMAIN results
             /\ \E c \in {"this", "other"} :
                  reports'[f] = {[results[j] EXCEPT !.campaign = c] : j \in JobsRead(f)}
    <2>1. CASE f \in requested
        BY <1>1, <1>2, <1>3, <2>1, AcceptedIs, Zenon
    <2>2. CASE f \notin requested
        BY <1>3, <2>2, Zenon DEF ReportsInv, ReportsAreWhole
    <2> QED BY <2>1, <2>2
<1> QED BY <1>1, <1>4, Zenon DEF ReportsInv, ReportsAreWhole

\* A publication adds a result and changes none.
LEMMA PublishGrows == RunInv /\ Publish => Grown
<1> SUFFICES ASSUME RunInv, Publish PROVE Grown
    OBVIOUS
<1>1. Job \notin DOMAIN results
    BY JobIs DEF Publish, Finished, Active, Runs, RunInv
<1> QED BY <1>1 DEF Publish, With, Grown

\* Every step keeps the summaries whole.
LEMMA ReportsStep == RunInv /\ ReportsInv /\ [Next]_run => ReportsInv'
<1> SUFFICES ASSUME RunInv, ReportsInv, [Next]_run PROVE ReportsInv'
    OBVIOUS
<1>1. CASE Reduce
    BY <1>1, ReduceStep
<1>2. CASE Publish /\ UNCHANGED reports
    BY <1>2, PublishGrows, ReportsKept
<1>3. CASE UNCHANGED <<results, reports>>
    BY <1>3, ReportsKept DEF Grown
<1>4. [Next]_run => Reduce \/ (Publish /\ UNCHANGED reports) \/ UNCHANGED <<results, reports>>
    <2>1. RunnerNext => Publish \/ UNCHANGED results
        BY DEF RunnerNext, TakeRestored, TakeCompleted, StartAttempt, Measure, CompleteAttempt,
               CommitAttempt, LoadDependencies, SolveTraining, WritePlan, EvaluateBlock, StageEnds,
               Select, Keeps, published
    <2>2. BeatNext \/ RestartKeepsDisk \/ RestartLosesDisk => UNCHANGED results
        BY DEF BeatNext, BeatStage, UploadNext, Upload, RestartKeepsDisk, RestartLosesDisk, Restart, published
    <2> QED BY <2>1, <2>2 DEF Next, CampaignStep, Ended, run, vars, published
<1> QED BY <1>1, <1>2, <1>3, <1>4

\* A written summary stands for one result of each of its jobs, of one campaign, whatever
\* else is in the root it was computed from.
THEOREM SummariesAreWhole == Spec => []ReportsAreWhole
<1>1. Init => ReportsInv
    BY DEF Init, Nothing, ReportsInv, ReportsAreWhole
<1>2. ReportsInv => ReportsAreWhole
    BY DEF ReportsInv
<1> QED BY <1>1, <1>2, ReportsStep, RunInvariant, PTL DEF Spec

\* Every MWU run that was published had the time of the DSS run published with it.
THEOREM BudgetsAreMeasured == Spec => []BudgetIsMeasured
<1> QED BY BudgetHolds, RunInvariant, PTL

\* No session stumbles over what an earlier one left, but on a host that is lost while a
\* slow upload had a plan overtake an attempt.
THEOREM RestartsGoOn == Spec => []RestartGoesOn
<1>1. RunInv => RestartGoesOn
    BY DEF RunInv
<1> QED BY <1>1, RunInvariant, PTL

\* A published audit has simulated all that its gains are computed from.
THEOREM AuditsCover == Spec => []AuditCovers
<1> QED BY AuditHolds, RunInvariant, PTL

\* What the runners publish satisfies the cross-checks of the reducers.
THEOREM CampaignsAreReduced == Spec => []CompleteIsReduced
<1> QED BY CompleteHolds, RunInvariant, PTL
=============================================================================
