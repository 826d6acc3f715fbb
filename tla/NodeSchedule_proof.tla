-------------------------- MODULE NodeSchedule_proof --------------------------
(***************************************************************************)
(* Proofs, for every node plan, of the safety properties of ResourceGate   *)
(* and NodeSchedule: any number of slots, any job lists, modes and         *)
(* dependencies, any number of restarts.                                   *)
(*                                                                         *)
(* The inductive invariant of the gate is GateInv: the predicates of       *)
(* acquire() read counters, and mutual exclusion is about threads, so the  *)
(* proof rests on the counters being exact (CountsExact).  The gate steps  *)
(* of the node are steps of ResourceGate, or a restart that resets it, so  *)
(* GateInv carries over; Holders ties the control state of the slots to    *)
(* their place in the gate; the other invariants follow the jobs.          *)
(***************************************************************************)
EXTENDS NodeSchedule, FiniteSetTheorems, TLAPS

ExclusiveQueue == At("excl_asleep") \cup At("excl_woken")

\* The inductive invariant of the gate.
GateInv == GateTypeOK /\ CountsExact /\ WholeNode

-----------------------------------------------------------------------------
\* Facts about the sets the counters count.

\* Any set of slots is finite and has a natural number of elements.
LEMMA SlotSubset ==
    ASSUME NEW T \in SUBSET Slots
    PROVE  IsFiniteSet(T) /\ Cardinality(T) \in Nat
BY SlotsFinite, FS_Subset, FS_CardinalityType

\* A slot that joins a set of slots raises its size by one.
LEMMA SlotJoins ==
    ASSUME NEW T \in SUBSET Slots, NEW s \in Slots \ T
    PROVE  Cardinality(T \cup {s}) = Cardinality(T) + 1
BY SlotSubset, FS_AddElement

\* A slot that leaves a set of slots lowers its size by one, from at least one.
LEMMA SlotLeaves ==
    ASSUME NEW T \in SUBSET Slots, NEW s \in T
    PROVE  /\ Cardinality(T \ {s}) = Cardinality(T) - 1
           /\ Cardinality(T) > 0
<1>1. Cardinality(T \ {s}) = Cardinality(T) - 1
    BY SlotSubset, FS_RemoveElement
<1>2. Cardinality(T) \in Nat /\ Cardinality(T) # 0
    BY SlotSubset, FS_EmptySet
<1> QED BY <1>1, <1>2

\* notify_all moves sleepers to woken and nobody else.
LEMMA NotifyEffect ==
    ASSUME NEW pl \in [Slots -> Places]
    PROVE  /\ Notified(pl) \in [Slots -> Places]
           /\ \A t \in Slots :
                /\ Notified(pl)[t] \notin {"bulk_asleep", "excl_asleep"}
                /\ \A p \in {"out", "bulk_in", "excl_in"} :
                     Notified(pl)[t] = p <=> pl[t] = p
                /\ Notified(pl)[t] \in {"excl_asleep", "excl_woken"}
                     <=> pl[t] \in {"excl_asleep", "excl_woken"}
BY DEF Notified, Places

-----------------------------------------------------------------------------
\* The invariant holds initially and every operation of the gate keeps it.

LEMMA GateInvInit == GateInit => GateInv
<1> SUFFICES ASSUME GateInit PROVE GateInv
    OBVIOUS
<1>1. At("bulk_in") = {} /\ ExclusiveQueue = {} /\ At("excl_in") = {}
    BY DEF GateInit, At, ExclusiveQueue
<1>2. GateTypeOK
    BY DEF GateInit, GateTypeOK, Places
<1>3. CountsExact
    BY <1>1, FS_EmptySet DEF GateInit, CountsExact, ExclusiveQueue
<1>4. WholeNode
    BY DEF GateInit, WholeNode
<1> QED BY <1>2, <1>3, <1>4 DEF GateInv

\* acquire("bulk") that gets through.
LEMMA AdmitBulkStep ==
    ASSUME GateInv, NEW s \in Slots,
           place[s] \in {"out", "bulk_woken"}, AdmitBulk(s)
    PROVE  GateInv'
<1> USE DEF GateInv
<1>1. GateTypeOK'
    BY DEF GateTypeOK, AdmitBulk, Places
<1>2. /\ At("bulk_in")' = At("bulk_in") \cup {s}
      /\ ExclusiveQueue' = ExclusiveQueue
      /\ At("excl_in")' = At("excl_in")
    BY DEF GateTypeOK, AdmitBulk, At, ExclusiveQueue
<1>3. s \in Slots \ At("bulk_in") /\ At("bulk_in") \in SUBSET Slots
    BY DEF At
<1>4. At("excl_in") = {}
    BY DEF AdmitBulk, BulkMayEnter, CountsExact
<1>5. CountsExact'
    BY <1>2, <1>3, SlotJoins DEF CountsExact, AdmitBulk, ExclusiveQueue
<1>6. WholeNode'
    BY <1>2, <1>4 DEF WholeNode, At
<1> QED BY <1>1, <1>5, <1>6

\* A thread that only falls asleep changes no counted set.
LEMMA SleepStep ==
    ASSUME GateInv, NEW s \in Slots,
           \/ place[s] \in {"out", "bulk_woken"} /\ SleepBulk(s)
           \/ SleepAgainExclusive(s)
    PROVE  GateInv'
<1> USE DEF GateInv, SleepBulk, SleepAgainExclusive
<1>1. GateTypeOK'
    BY DEF GateTypeOK, Places
<1>2. /\ At("bulk_in")' = At("bulk_in")
      /\ ExclusiveQueue' = ExclusiveQueue
      /\ At("excl_in")' = At("excl_in")
    BY DEF GateTypeOK, At, ExclusiveQueue
<1>3. CountsExact'
    BY <1>2 DEF CountsExact, ExclusiveQueue
<1>4. WholeNode'
    BY <1>2 DEF WholeNode, At, GateTypeOK
<1> QED BY <1>1, <1>3, <1>4

\* acquire("exclusive_runtime") that gets through, at once or after a wakeup.
LEMMA ExclusiveEntryStep ==
    ASSUME GateInv, NEW s \in Slots,
           RequestAndEnterExclusive(s) \/ EnterExclusive(s)
    PROVE  GateInv'
<1> USE DEF GateInv
<1>1. /\ ExclusiveMayEnter
      /\ exclusiveActive' = TRUE /\ activeBulk' = activeBulk
      /\ place' = [place EXCEPT ![s] = "excl_in"]
    BY DEF RequestAndEnterExclusive, EnterExclusive
<1>2. At("bulk_in") = {} /\ At("excl_in") = {}
    <2>1. At("bulk_in") \in SUBSET Slots
        BY DEF At
    <2>2. Cardinality(At("bulk_in")) = 0
        BY <1>1 DEF ExclusiveMayEnter, CountsExact
    <2> QED BY <1>1, <2>1, <2>2, SlotSubset, FS_EmptySet DEF ExclusiveMayEnter, CountsExact
<1>3. At("bulk_in")' = {} /\ At("excl_in")' = {s}
    BY <1>1, <1>2 DEF At, GateTypeOK
<1>4. exclusiveWaiting' \in Nat /\ exclusiveWaiting' = Cardinality(ExclusiveQueue')
    <2>1. CASE RequestAndEnterExclusive(s)
        <3>1. ExclusiveQueue' = ExclusiveQueue
            BY <2>1 DEF RequestAndEnterExclusive, ExclusiveQueue, At, GateTypeOK
        <3> QED BY <2>1, <3>1 DEF RequestAndEnterExclusive, CountsExact, ExclusiveQueue, GateTypeOK
    <2>2. CASE EnterExclusive(s)
        <3>1. ExclusiveQueue' = ExclusiveQueue \ {s}
            BY <2>2 DEF EnterExclusive, ExclusiveQueue, At, GateTypeOK
        <3>2. ExclusiveQueue \in SUBSET Slots /\ s \in ExclusiveQueue
            BY <2>2 DEF EnterExclusive, ExclusiveQueue, At
        <3>3. exclusiveWaiting = Cardinality(ExclusiveQueue)
            BY DEF CountsExact, ExclusiveQueue
        <3>4. /\ Cardinality(ExclusiveQueue \ {s}) = Cardinality(ExclusiveQueue) - 1
              /\ Cardinality(ExclusiveQueue) > 0
            BY <3>2, SlotLeaves
        <3>5. exclusiveWaiting' = exclusiveWaiting - 1
            BY <2>2 DEF EnterExclusive
        <3> QED BY <3>1, <3>3, <3>4, <3>5 DEF GateTypeOK
    <2> QED BY <2>1, <2>2
<1>5. GateTypeOK'
    BY <1>1, <1>4 DEF GateTypeOK, Places
<1>6. CountsExact'
    <2>1. activeBulk' = Cardinality(At("bulk_in")')
        BY <1>1, <1>3, FS_EmptySet DEF ExclusiveMayEnter
    <2> QED BY <1>1, <1>3, <1>4, <2>1 DEF CountsExact, ExclusiveQueue
<1>7. WholeNode'
    BY <1>3, <1>5 DEF WholeNode, At, GateTypeOK
<1> QED BY <1>5, <1>6, <1>7

\* acquire("exclusive_runtime") that has to queue.
LEMMA ExclusiveQueueStep ==
    ASSUME GateInv, NEW s \in Slots, RequestAndSleepExclusive(s)
    PROVE  GateInv'
<1> USE DEF GateInv, RequestAndSleepExclusive
<1>1. GateTypeOK'
    BY DEF GateTypeOK, Places
<1>2. /\ At("bulk_in")' = At("bulk_in")
      /\ ExclusiveQueue' = ExclusiveQueue \cup {s}
      /\ At("excl_in")' = At("excl_in")
    BY DEF GateTypeOK, At, ExclusiveQueue
<1>3. s \in Slots \ ExclusiveQueue /\ ExclusiveQueue \in SUBSET Slots
    BY DEF ExclusiveQueue, At
<1>4. CountsExact'
    BY <1>2, <1>3, SlotJoins DEF CountsExact, ExclusiveQueue
<1>5. WholeNode'
    BY <1>2 DEF WholeNode, At, GateTypeOK
<1> QED BY <1>1, <1>4, <1>5

\* Leaving the gate, and waking everybody.
LEMMA ReleaseStep ==
    ASSUME GateInv, NEW s \in Slots, ReleaseBulk(s) \/ ReleaseExclusive(s)
    PROVE  GateInv'
<1> USE DEF GateInv
<1> DEFINE left == [place EXCEPT ![s] = "out"]
<1>1. left \in [Slots -> Places] /\ place' = Notified(left)
    BY DEF GateTypeOK, Places, ReleaseBulk, ReleaseExclusive
<1>2. /\ place' \in [Slots -> Places]
      /\ \A t \in Slots :
           /\ \A p \in {"out", "bulk_in", "excl_in"} : place'[t] = p <=> left[t] = p
           /\ place'[t] \in {"excl_asleep", "excl_woken"}
                <=> left[t] \in {"excl_asleep", "excl_woken"}
    <2> HIDE DEF left
    <2> QED BY ONLY <1>1, NotifyEffect
<1>3. \A t \in Slots : left[t] = IF t = s THEN "out" ELSE place[t]
    BY DEF GateTypeOK
<1> HIDE DEF left
<1>4. /\ At("bulk_in")' = At("bulk_in") \ {s}
      /\ At("excl_in")' = At("excl_in") \ {s}
    BY <1>2, <1>3 DEF At
<1>5. ExclusiveQueue' = ExclusiveQueue
    <2>1. place[s] \notin {"excl_asleep", "excl_woken"}
        BY DEF ReleaseBulk, ReleaseExclusive
    <2> QED BY <1>2, <1>3, <2>1 DEF ExclusiveQueue, At
<1>6. WholeNode'
    BY <1>2, <1>3 DEF WholeNode
<1>7. CASE ReleaseBulk(s)
    <2>1. s \in At("bulk_in") /\ At("bulk_in") \in SUBSET Slots /\ s \notin At("excl_in")
        BY <1>7 DEF ReleaseBulk, At
    <2>2. activeBulk' \in Nat /\ activeBulk' = Cardinality(At("bulk_in")')
        <3>1. /\ Cardinality(At("bulk_in") \ {s}) = Cardinality(At("bulk_in")) - 1
              /\ Cardinality(At("bulk_in")) > 0
            BY <2>1, SlotLeaves
        <3>2. activeBulk' = activeBulk - 1 /\ activeBulk = Cardinality(At("bulk_in"))
            BY <1>7 DEF ReleaseBulk, CountsExact
        <3> QED BY <1>4, <3>1, <3>2 DEF GateTypeOK
    <2>3. GateTypeOK'
        BY <1>2, <1>7, <2>2 DEF GateTypeOK, ReleaseBulk
    <2>4. CountsExact'
        BY <1>4, <1>5, <1>7, <2>1, <2>2 DEF CountsExact, ExclusiveQueue, ReleaseBulk
    <2> QED BY <1>6, <2>3, <2>4
<1>8. CASE ReleaseExclusive(s)
    <2>1. s \notin At("bulk_in")
        BY <1>8 DEF ReleaseExclusive, At
    <2>2. At("excl_in")' = {}
        BY <1>4, <1>8 DEF WholeNode, ReleaseExclusive, At
    <2>3. GateTypeOK'
        BY <1>2, <1>8 DEF GateTypeOK, ReleaseExclusive
    <2>4. At("bulk_in")' = At("bulk_in")
        BY <1>4, <2>1
    <2>5. CountsExact'
        BY <1>5, <1>8, <2>2, <2>4 DEF CountsExact, ExclusiveQueue, ReleaseExclusive
    <2> QED BY <1>6, <2>3, <2>5
<1> QED BY <1>7, <1>8

LEMMA GateInvStep == GateInv /\ [GateNext]_gateVars => GateInv'
<1> SUFFICES ASSUME GateInv, [GateNext]_gateVars PROVE GateInv'
    OBVIOUS
<1>1. CASE UNCHANGED gateVars
    BY <1>1 DEF gateVars, GateInv, GateTypeOK, CountsExact, WholeNode, At
<1>2. ASSUME NEW s \in Slots, AcquireBulk(s) PROVE GateInv'
    BY <1>2, AdmitBulkStep, SleepStep DEF AcquireBulk
<1>3. ASSUME NEW s \in Slots, AcquireExclusive(s) PROVE GateInv'
    BY <1>3, ExclusiveEntryStep, ExclusiveQueueStep, SleepStep DEF AcquireExclusive
<1>4. ASSUME NEW s \in Slots, ReleaseBulk(s) \/ ReleaseExclusive(s) PROVE GateInv'
    BY <1>4, ReleaseStep
<1> QED BY <1>1, <1>2, <1>3, <1>4 DEF GateNext

-----------------------------------------------------------------------------
\* The gate gives an exclusive_runtime job the whole node, whatever the number of
\* slots: while it is past the yield of acquire() no other job of the node is, and
\* the counters acquire() looks at are exactly the numbers of threads they stand for.
THEOREM GateIsExclusive == GateSpec => [](WholeNode /\ CountsExact /\ GateTypeOK)
<1>1. GateInv => WholeNode /\ CountsExact /\ GateTypeOK
    BY DEF GateInv
<1> QED BY <1>1, GateInvInit, GateInvStep, PTL DEF GateSpec

\* A step of the gate can leave nobody asleep whose predicate has become true.
LEMMA NoLostWakeupStep ==
    GateInv /\ NoLostWakeup /\ [GateNext]_gateVars => NoLostWakeup'
<1> SUFFICES ASSUME GateInv, NoLostWakeup, [GateNext]_gateVars PROVE NoLostWakeup'
    OBVIOUS
<1> USE DEF GateInv, GateTypeOK, NoLostWakeup, BulkMayEnter, ExclusiveMayEnter
<1>1. CASE UNCHANGED gateVars
    BY <1>1 DEF gateVars, At
<1>2. ASSUME NEW s \in Slots, AcquireBulk(s) PROVE NoLostWakeup'
    <2>1. CASE AdmitBulk(s)
        BY <1>2, <2>1 DEF AdmitBulk, At
    <2>2. CASE SleepBulk(s)
        BY <1>2, <2>2 DEF SleepBulk, At
    <2> QED BY <1>2, <2>1, <2>2 DEF AcquireBulk
<1>3. ASSUME NEW s \in Slots, AcquireExclusive(s) PROVE NoLostWakeup'
    <2>1. CASE RequestAndEnterExclusive(s)
        BY <2>1 DEF RequestAndEnterExclusive, At
    <2>2. CASE RequestAndSleepExclusive(s)
        BY <2>2 DEF RequestAndSleepExclusive, At
    <2>3. CASE EnterExclusive(s)
        BY <2>3 DEF EnterExclusive, At
    <2>4. CASE SleepAgainExclusive(s)
        BY <2>4 DEF SleepAgainExclusive, At
    <2> QED BY <1>3, <2>1, <2>2, <2>3, <2>4 DEF AcquireExclusive
<1>4. ASSUME NEW s \in Slots, ReleaseBulk(s) \/ ReleaseExclusive(s) PROVE NoLostWakeup'
    <2>1. [place EXCEPT ![s] = "out"] \in [Slots -> Places]
        BY DEF Places
    <2>2. \A t \in Slots : place'[t] \notin {"bulk_asleep", "excl_asleep"}
        BY <1>4, <2>1, NotifyEffect DEF ReleaseBulk, ReleaseExclusive
    <2> QED BY <2>2 DEF At
<1> QED BY <1>1, <1>2, <1>3, <1>4 DEF GateNext

\* No lost wakeup, for every number of slots: the missing notify where acquire()
\* lowers _exclusive_waiting never leaves a thread asleep that could enter.
THEOREM GateLosesNoWakeup == GateSpec => []NoLostWakeup
<1>1. GateInit => NoLostWakeup
    BY DEF GateInit, NoLostWakeup, At
<1> QED BY <1>1, GateInvInit, GateInvStep, NoLostWakeupStep, PTL DEF GateSpec

\* What the counters say of the threads, as the abstract gate sees them.
LEMMA CountersTell ==
    ASSUME GateInv
    PROVE  /\ BulkMayEnter =>
                \A t \in Slots : Standing[place[t]] \notin {"excl_waits", "excl_in"}
           /\ ExclusiveMayEnter =>
                \A t \in Slots : Standing[place[t]] \notin {"bulk_in", "excl_in"}
<1> USE DEF GateInv, CountsExact, GateTypeOK
<1>1. /\ ~exclusiveActive => At("excl_in") = {}
      /\ exclusiveWaiting = 0 => ExclusiveQueue = {}
      /\ activeBulk = 0 => At("bulk_in") = {}
    <2>1. ExclusiveQueue \in SUBSET Slots /\ At("bulk_in") \in SUBSET Slots
        BY DEF ExclusiveQueue, At
    <2> QED BY <2>1, SlotSubset, FS_EmptySet DEF ExclusiveQueue
<1> QED BY <1>1 DEF BulkMayEnter, ExclusiveMayEnter, ExclusiveQueue, At, Standing, Places

\* Every step of the gate is one of the abstract gate, or none.
LEMMA GateStepIsAbstract ==
    ASSUME GateInv, [GateNext]_gateVars
    PROVE  [Gate!Next]_([s \in Slots |-> Standing[place[s]]])
<1> DEFINE state == [s \in Slots |-> Standing[place[s]]]
<1> USE DEF GateInv, GateTypeOK
<1>0. \A s \in Slots : place[s] \in Places /\ state[s] = Standing[place[s]]
    OBVIOUS
<1>1. CASE UNCHANGED gateVars
    BY <1>1 DEF gateVars
<1>2. ASSUME NEW s \in Slots, NEW x \in Places, place' = [place EXCEPT ![s] = x]
      PROVE  state' = [state EXCEPT ![s] = Standing[x]]
    BY <1>2
<1>3. ASSUME NEW s \in Slots, AcquireBulk(s) PROVE Gate!Next \/ UNCHANGED state
    <2>1. CASE AdmitBulk(s)
        <3>1. state' = [state EXCEPT ![s] = "bulk_in"]
            BY <1>2, <2>1 DEF AdmitBulk, Places, Standing
        <3>2. state[s] \in {"out", "bulk_waits"}
            BY <1>3 DEF AcquireBulk, Standing
        <3>3. \A t \in Slots : state[t] \notin {"excl_waits", "excl_in"}
            BY <2>1, CountersTell DEF AdmitBulk
        <3> QED BY <3>1, <3>2, <3>3 DEF Gate!Next, Gate!EnterBulk, Gate!Set
    <2>2. CASE SleepBulk(s)
        <3>1. state' = [state EXCEPT ![s] = "bulk_waits"]
            BY <1>2, <2>2 DEF SleepBulk, Places, Standing
        <3>2. state[s] \in {"out", "bulk_waits"}
            BY <1>3 DEF AcquireBulk, Standing
        <3> QED BY <3>1, <3>2 DEF Gate!Next, Gate!Ask, Gate!Set
    <2> QED BY <1>3, <2>1, <2>2 DEF AcquireBulk
<1>4. ASSUME NEW s \in Slots, AcquireExclusive(s) PROVE Gate!Next \/ UNCHANGED state
    <2>1. CASE RequestAndEnterExclusive(s) \/ EnterExclusive(s)
        <3>1. state' = [state EXCEPT ![s] = "excl_in"]
            BY <1>2, <2>1 DEF RequestAndEnterExclusive, EnterExclusive, Places, Standing
        <3>2. state[s] \in {"out", "excl_waits"}
            BY <2>1 DEF RequestAndEnterExclusive, EnterExclusive, Standing
        <3>3. \A t \in Slots : state[t] \notin {"bulk_in", "excl_in"}
            BY <2>1, CountersTell DEF RequestAndEnterExclusive, EnterExclusive
        <3> QED BY <3>1, <3>2, <3>3 DEF Gate!Next, Gate!EnterExclusive, Gate!Set
    <2>2. CASE RequestAndSleepExclusive(s) \/ SleepAgainExclusive(s)
        <3>1. state' = [state EXCEPT ![s] = "excl_waits"]
            BY <1>2, <2>2 DEF RequestAndSleepExclusive, SleepAgainExclusive, Places, Standing
        <3>2. state[s] \in {"out", "excl_waits"}
            BY <2>2 DEF RequestAndSleepExclusive, SleepAgainExclusive, Standing
        <3> QED BY <3>1, <3>2 DEF Gate!Next, Gate!Ask, Gate!Set
    <2> QED BY <1>4, <2>1, <2>2 DEF AcquireExclusive
<1>5. ASSUME NEW s \in Slots, ReleaseBulk(s) \/ ReleaseExclusive(s) PROVE Gate!Next
    <2> DEFINE left == [place EXCEPT ![s] = "out"]
    <2>1. /\ place' = Notified(left) /\ left \in [Slots -> Places] /\ left[s] = "out"
          /\ \A t \in Slots \ {s} : left[t] = place[t]
        BY <1>5 DEF ReleaseBulk, ReleaseExclusive, Places
    <2>2. state[s] \in {"bulk_in", "excl_in"}
        BY <1>5 DEF ReleaseBulk, ReleaseExclusive, Standing
    <2>3. \A t \in Slots : Standing[place'[t]] = Standing[left[t]]
        <3> HIDE DEF left
        <3> QED BY <2>1 DEF Notified, Standing, Places
    <2>4. state' = [state EXCEPT ![s] = "out"]
        <3>1. Standing[left[s]] = "out" /\ \A t \in Slots \ {s} : Standing[left[t]] = state[t]
            BY <2>1 DEF Standing
        <3> HIDE DEF left
        <3> QED BY <2>3, <3>1
    <2> QED BY <2>2, <2>4 DEF Gate!Next, Gate!Leave, Gate!Set
<1> QED BY <1>1, <1>3, <1>4, <1>5 DEF GateNext

-----------------------------------------------------------------------------
\* The node.

\* Control states of the slots, and the job each one is at.
Typed ==
    /\ pc \in [Slots -> Control]
    /\ at \in [Slots -> Nat]
    /\ \A s \in Slots : at[s] \in 1 .. Len(JobList[s]) + 1
    /\ \A s \in Slots : pc[s] \notin {"next", "done"} => at[s] <= Len(JobList[s])

\* Who is past the yield of acquire(), and in which mode.
Holders ==
    \A s \in Slots :
        IF pc[s] \in Holding
        THEN place[s] = IF Mode[Job(s)] = "exclusive_runtime" THEN "excl_in" ELSE "bulk_in"
        ELSE place[s] \notin InGate

Inv == GateInv /\ Typed /\ Holders

-----------------------------------------------------------------------------
\* A slot that is inside a job is at one of its own jobs.
LEMMA JobAt ==
    ASSUME Typed, NEW s \in Slots, pc[s] \notin {"next", "done"}
    PROVE  Job(s) \in Jobs /\ Job(s) \in Listed(s)
<1>1. JobList[s] \in Seq(Jobs) /\ at[s] \in 1 .. Len(JobList[s])
    BY PlanAssumption DEF Typed
<1>2. at[s] \in DOMAIN JobList[s]
    BY <1>1
<1> QED BY <1>1, <1>2 DEF Job, Listed

\* What every list of jobs is.
LEMMA Lists ==
    ASSUME NEW s \in Slots
    PROVE  JobList[s] \in Seq(Jobs) /\ Len(JobList[s]) \in Nat
BY PlanAssumption

\* The gate part of a step of the node is a step of the gate, or a restart.
LEMMA GatePart ==
    ASSUME Typed, Next
    PROVE  [GateNext]_gateVars \/ GateInit'
<1>1. ASSUME NEW s \in Slots, SlotStep(s) PROVE [GateNext]_gateVars
    <2>1. CASE Ask(s)
        BY <2>1 DEF Ask, GateNext
    <2>2. CASE Leave(s)
        BY <2>2 DEF Leave, GateNext
    <2>3. CASE ~Ask(s) /\ ~Leave(s)
        BY <1>1, <2>3 DEF SlotStep, NextJob, RestoreCompleted, PruneRefused, RestoreNothing,
           DependenciesReady, DependencyStopped, DependencyTimeout, WriteMarker,
           PublishMarker, PublishRaises, JobRaises, ChunkLoopStopped, Handler, Moves, gateVars
    <2> QED BY <2>1, <2>2, <2>3
<1>2. CASE Signal \/ BudgetRunsOut \/ HeartbeatSeesBudget \/ Conclude \/ ForeignCompletes
                  \/ Halted
    BY <1>2 DEF Signal, BudgetRunsOut, HeartbeatSeesBudget, Conclude, ForeignCompletes,
                Halted, vars
<1>3. CASE Restart
    BY <1>3 DEF Restart, GateInit
<1> QED BY <1>1, <1>2, <1>3 DEF Next

\* A slot that takes or leaves the gate changes nobody else's presence in it.
LEMMA OthersStay ==
    ASSUME GateTypeOK, NEW s \in Slots, NEW t \in Slots \ {s},
           AcquireBulk(s) \/ AcquireExclusive(s) \/ ReleaseBulk(s) \/ ReleaseExclusive(s)
    PROVE  \A p \in InGate : place'[t] = p <=> place[t] = p
<1>1. CASE AcquireBulk(s) \/ AcquireExclusive(s)
    BY <1>1 DEF AcquireBulk, AdmitBulk, SleepBulk, AcquireExclusive, RequestAndEnterExclusive,
       RequestAndSleepExclusive, EnterExclusive, SleepAgainExclusive, GateTypeOK
<1>2. CASE ReleaseBulk(s) \/ ReleaseExclusive(s)
    <2> DEFINE left == [place EXCEPT ![s] = "out"]
    <2>1. left \in [Slots -> Places] /\ place' = Notified(left) /\ left[t] = place[t]
        BY <1>2 DEF ReleaseBulk, ReleaseExclusive, GateTypeOK, Places
    <2> HIDE DEF left
    <2> QED BY <2>1, NotifyEffect DEF InGate
<1> QED BY <1>1, <1>2

-----------------------------------------------------------------------------
LEMMA InvInit == Init => Inv
<1> SUFFICES ASSUME Init PROVE Inv
    OBVIOUS
<1>1. GateInv
    BY GateInvInit DEF Init
<1>2. Typed
    BY Lists DEF Init, Typed, Control
<1>3. Holders
    BY DEF Init, GateInit, Holders, Holding, InGate
<1> QED BY <1>1, <1>2, <1>3 DEF Inv

LEMMA TypedStep == Inv /\ [Next]_vars => Typed'
<1> SUFFICES ASSUME Inv, [Next]_vars PROVE Typed'
    OBVIOUS
<1> USE Lists DEF Inv, Typed
<1>1. ASSUME NEW s \in Slots, SlotStep(s) PROVE Typed'
    <2>1. CASE NextJob(s)
        BY <2>1 DEF NextJob, Moves, Goto, Control
    <2>2. CASE Ask(s)
        BY <2>2 DEF Ask, Goto, Control, Holding
    <2>3. CASE RestoreCompleted(s) \/ WriteMarker(s) \/ PublishMarker(s) \/ PublishRaises(s)
               \/ Handler(s)
        BY <2>3 DEF RestoreCompleted, WriteMarker, PublishMarker, PublishRaises, Handler, Goto, Control, Holding
    <2>4. CASE PruneRefused(s) \/ RestoreNothing(s) \/ DependenciesReady(s) \/ DependencyStopped(s)
               \/ DependencyTimeout(s) \/ JobRaises(s) \/ ChunkLoopStopped(s)
        BY <2>4 DEF PruneRefused, RestoreNothing, DependenciesReady, DependencyStopped,
           DependencyTimeout, JobRaises, ChunkLoopStopped, Moves, Goto, Control, Holding
    <2>5. CASE Leave(s)
        <3>1. pc[s] \in {"leave_ok", "leave_interrupt", "leave_error"} /\ at[s] <= Len(JobList[s])
            BY <2>5 DEF Leave, AfterLeaving
        <3>2. pc' = [pc EXCEPT ![s] = AfterLeaving[pc[s]]]
              /\ at' = IF pc[s] = "leave_ok" THEN [at EXCEPT ![s] = @ + 1] ELSE at
            BY <2>5 DEF Leave, Goto
        <3>3. AfterLeaving[pc[s]] \in Control
              /\ (AfterLeaving[pc[s]] \notin {"next", "done"} => pc[s] = "leave_error")
            BY <3>1 DEF AfterLeaving, Control
        <3>4. at' \in [Slots -> Nat] /\ at'[s] \in 1 .. Len(JobList[s]) + 1
            BY <3>1, <3>2
        <3>5. \A t \in Slots \ {s} : at'[t] = at[t] /\ pc'[t] = pc[t]
            BY <3>2
        <3>6. pc' \in [Slots -> Control] /\ pc'[s] = AfterLeaving[pc[s]]
            BY <3>2, <3>3
        <3>7. pc'[s] \notin {"next", "done"} => at'[s] <= Len(JobList[s])
            BY <3>1, <3>2, <3>3, <3>6
        <3> QED BY <3>4, <3>5, <3>6, <3>7
    <2> QED BY <1>1, <2>1, <2>2, <2>3, <2>4, <2>5 DEF SlotStep
<1>2. CASE Signal \/ BudgetRunsOut \/ HeartbeatSeesBudget \/ Conclude \/ ForeignCompletes
                  \/ UNCHANGED vars
    BY <1>2 DEF Signal, BudgetRunsOut, HeartbeatSeesBudget, Conclude, ForeignCompletes, vars
<1>3. CASE Restart
    BY <1>3 DEF Restart, Control
<1> QED BY <1>1, <1>2, <1>3 DEF Next, Halted

LEMMA HoldersStep == Inv /\ [Next]_vars => Holders'
<1> SUFFICES ASSUME Inv, [Next]_vars PROVE Holders'
    OBVIOUS
<1> USE DEF Inv
<1>1. ASSUME NEW s \in Slots, SlotStep(s) PROVE Holders'
    <2>1. CASE Ask(s)
        <3>1. ASSUME NEW t \in Slots \ {s} PROVE
                /\ pc'[t] = pc[t] /\ Job(t)' = Job(t)
                /\ \A p \in InGate : place'[t] = p <=> place[t] = p
            BY <2>1, OthersStay DEF Ask, Goto, Typed, GateInv, Job
        <3>2. /\ pc'[s] = IF place'[s] \in InGate THEN "restore" ELSE "acquire"
              /\ Job(s)' = Job(s)
              /\ place'[s] \in InGate =>
                   place'[s] = IF Mode[Job(s)] = "exclusive_runtime" THEN "excl_in" ELSE "bulk_in"
            BY <2>1 DEF Ask, Goto, Typed, Job, GateInv, GateTypeOK, InGate, AcquireBulk,
               AdmitBulk, SleepBulk, AcquireExclusive, RequestAndEnterExclusive,
               RequestAndSleepExclusive, EnterExclusive, SleepAgainExclusive
        <3> QED BY <3>1, <3>2 DEF Holders, Holding, InGate
    <2>2. CASE Leave(s)
        <3>1. ASSUME NEW t \in Slots \ {s} PROVE
                /\ pc'[t] = pc[t] /\ Job(t)' = Job(t)
                /\ \A p \in InGate : place'[t] = p <=> place[t] = p
            BY <2>2, OthersStay DEF Leave, Goto, Typed, GateInv, Job
        <3>2. pc'[s] \notin Holding
            BY <2>2 DEF Leave, Goto, Typed, AfterLeaving, Holding
        <3>3. place'[s] \notin InGate
            <4> DEFINE left == [place EXCEPT ![s] = "out"]
            <4>1. left \in [Slots -> Places] /\ place' = Notified(left) /\ left[s] = "out"
                BY <2>2 DEF Leave, ReleaseBulk, ReleaseExclusive, GateInv, GateTypeOK, Places
            <4> HIDE DEF left
            <4> QED BY <4>1, NotifyEffect DEF InGate
        <3> QED BY <3>1, <3>2, <3>3 DEF Holders, InGate
    <2>3. CASE NextJob(s) \/ Handler(s)
        BY <2>3 DEF NextJob, Handler, Moves, Goto, gateVars, Holders, Holding, Typed, Job
    <2>4. CASE RestoreCompleted(s) \/ WriteMarker(s) \/ PublishMarker(s) \/ PublishRaises(s)
        BY <2>4 DEF RestoreCompleted, WriteMarker, PublishMarker, PublishRaises, Goto, gateVars, Holders, Holding, Typed, Job
    <2>5. CASE PruneRefused(s) \/ RestoreNothing(s) \/ DependenciesReady(s) \/ DependencyStopped(s)
               \/ DependencyTimeout(s) \/ JobRaises(s) \/ ChunkLoopStopped(s)
        BY <2>5 DEF PruneRefused, RestoreNothing, DependenciesReady, DependencyStopped, DependencyTimeout,
           JobRaises, ChunkLoopStopped, Moves, Goto, gateVars, Holders, Holding, Typed, Job
    <2> QED BY <1>1, <2>1, <2>2, <2>3, <2>4, <2>5 DEF SlotStep
<1>2. CASE Signal \/ BudgetRunsOut \/ HeartbeatSeesBudget \/ Conclude \/ ForeignCompletes
                  \/ UNCHANGED vars
    BY <1>2 DEF Signal, BudgetRunsOut, HeartbeatSeesBudget, Conclude, ForeignCompletes,
                vars, gateVars, Holders, Job
<1>3. CASE Restart
    BY <1>3 DEF Restart, Holders, Holding, InGate
<1> QED BY <1>1, <1>2, <1>3 DEF Next, Halted

LEMMA InvStep == Inv /\ [Next]_vars => Inv'
<1>1. (GateInit => GateInv)'
    BY GateInvInit, PTL
<1>2. Inv /\ [Next]_vars => GateInv'
    <2>1. ASSUME Inv, Next PROVE GateInv'
        BY <1>1, <2>1, GatePart, GateInvStep DEF Inv
    <2>2. ASSUME Inv, UNCHANGED vars PROVE GateInv'
        BY <2>2, GateInvStep DEF Inv, vars
    <2> QED BY <2>1, <2>2
<1> QED BY <1>2, TypedStep, HoldersStep DEF Inv

\* A measured job has the node to itself, for every plan: no other slot is anywhere
\* inside a job, after any number of failures, stops and restarts.
THEOREM MeasurementIsAlone == Spec => []MeasuredAlone
<1>1. Inv => MeasuredAlone
    <2> SUFFICES ASSUME Inv, NEW s \in Slots, NEW t \in Slots, s # t, pc[s] \in Holding,
                        Mode[Job(s)] = "exclusive_runtime", pc[t] \in Holding
                 PROVE  FALSE
        BY DEF MeasuredAlone
    <2>1. place[s] = "excl_in" /\ place[t] \in {"bulk_in", "excl_in"}
        BY DEF Inv, Holders
    <2> QED BY <2>1 DEF Inv, GateInv, WholeNode
<1> QED BY <1>1, InvInit, InvStep, PTL DEF Spec

-----------------------------------------------------------------------------
\* Jobs that run have found their dependencies, and what they found can only go with
\* a disk.
Findable == local \cup remote \cup lost
Supplied ==
    /\ MarkersAreClosed
    /\ \A s \in Slots : pc[s] \in {"running", "publish"} => Deps[Job(s)] \subseteq Findable

LEMMA FindableGrows == Typed /\ Next => Findable \subseteq Findable'
<1> SUFFICES ASSUME Typed, Next PROVE Findable \subseteq Findable'
    OBVIOUS
<1> USE DEF Findable
<1>1. ASSUME NEW s \in Slots, SlotStep(s) PROVE Findable \subseteq Findable'
    BY <1>1 DEF SlotStep, NextJob, Ask, RestoreCompleted, PruneRefused, RestoreNothing,
       DependenciesReady, DependencyStopped, DependencyTimeout, WriteMarker, PublishMarker,
       PublishRaises, JobRaises, ChunkLoopStopped, Leave, Handler, Moves, markers
<1>2. CASE Signal \/ BudgetRunsOut \/ HeartbeatSeesBudget \/ Conclude \/ Halted
    BY <1>2 DEF Signal, BudgetRunsOut, HeartbeatSeesBudget, Conclude, Halted, vars, markers
<1>3. CASE ForeignCompletes
    BY <1>3 DEF ForeignCompletes
<1>4. CASE Restart
    BY <1>4 DEF Restart
<1> QED BY <1>1, <1>2, <1>3, <1>4 DEF Next

\* The jobs whose marker appears in a step.
LEMMA NewMarkers ==
    ASSUME Inv, Next, NEW j \in Jobs, j \in local' \cup remote', j \notin local \cup remote
    PROVE  \E s \in Slots : pc[s] \in {"running", "publish"} /\ j = Job(s)
<1>1. ASSUME NEW s \in Slots, SlotStep(s)
      PROVE  pc[s] \in {"running", "publish"} /\ j = Job(s)
    <2>1. CASE WriteMarker(s) \/ PublishMarker(s) \/ PublishRaises(s)
        BY <2>1 DEF WriteMarker, PublishMarker, PublishRaises
    <2>2. CASE RestoreCompleted(s)
        BY <2>2 DEF RestoreCompleted
    <2>3. CASE NextJob(s) \/ Ask(s) \/ PruneRefused(s) \/ RestoreNothing(s)
               \/ DependenciesReady(s) \/ DependencyStopped(s) \/ DependencyTimeout(s)
               \/ JobRaises(s) \/ ChunkLoopStopped(s) \/ Leave(s) \/ Handler(s)
        BY <2>3 DEF NextJob, Ask, PruneRefused, RestoreNothing, DependenciesReady,
           DependencyStopped, DependencyTimeout, JobRaises, ChunkLoopStopped, Leave, Handler,
           Moves, markers
    <2> QED BY <1>1, <2>1, <2>2, <2>3 DEF SlotStep
<1>2. CASE Signal \/ BudgetRunsOut \/ HeartbeatSeesBudget \/ Conclude \/ Halted
    BY <1>2 DEF Signal, BudgetRunsOut, HeartbeatSeesBudget, Conclude, Halted, vars, markers
<1>3. CASE ForeignCompletes
    BY <1>3, PlanAssumption DEF ForeignCompletes
<1>4. CASE Restart
    BY <1>4 DEF Restart
<1> QED BY <1>1, <1>2, <1>3, <1>4 DEF Next

\* The slots that run a job after a step found its dependencies before it.
LEMMA RunnersAreSupplied ==
    ASSUME Inv, Supplied, Next, NEW s \in Slots, pc'[s] \in {"running", "publish"}
    PROVE  Deps[Job(s)'] \subseteq Findable
<1> USE DEF Inv, Typed, Supplied
<1>1. ASSUME NEW t \in Slots, SlotStep(t)
      PROVE  /\ Job(s)' = Job(s)
             /\ pc[s] \in {"running", "publish"} \/ Deps[Job(s)] \subseteq Findable
    <2>1. CASE DependenciesReady(t)
        BY <2>1 DEF DependenciesReady, Moves, Goto, Job, MissingDeps, Findable
    <2>2. CASE WriteMarker(t)
        BY <2>2 DEF WriteMarker, Goto, Job
    <2>3. CASE PublishMarker(t) \/ PublishRaises(t) \/ RestoreCompleted(t)
        BY <2>3 DEF PublishMarker, PublishRaises, RestoreCompleted, Goto, Job
    <2>4. CASE NextJob(t) \/ PruneRefused(t) \/ RestoreNothing(t) \/ DependencyStopped(t)
               \/ DependencyTimeout(t) \/ JobRaises(t) \/ ChunkLoopStopped(t)
        BY <2>4 DEF NextJob, PruneRefused, RestoreNothing, DependencyStopped,
           DependencyTimeout, JobRaises, ChunkLoopStopped, Moves, Goto, Job
    <2>5. CASE Ask(t) \/ Handler(t)
        BY <2>5 DEF Ask, Handler, Goto, Job
    <2>6. CASE Leave(t)
        BY <2>6 DEF Leave, Goto, AfterLeaving, Job
    <2> QED BY <1>1, <2>1, <2>2, <2>3, <2>4, <2>5, <2>6 DEF SlotStep
<1>2. CASE Signal \/ BudgetRunsOut \/ HeartbeatSeesBudget \/ Conclude \/ Halted
           \/ ForeignCompletes
    BY <1>2 DEF Signal, BudgetRunsOut, HeartbeatSeesBudget, Conclude, Halted,
       ForeignCompletes, vars, Job
<1>3. CASE Restart
    BY <1>3 DEF Restart
<1> QED BY <1>1, <1>2, <1>3 DEF Next

LEMMA SuppliedStep == Inv /\ Supplied /\ [Next]_vars => Supplied'
<1>1. ASSUME Inv, Supplied, UNCHANGED vars PROVE Supplied'
    BY <1>1 DEF Supplied, MarkersAreClosed, Findable, vars, markers, Job
<1>2. ASSUME Inv, Supplied, Next PROVE Supplied'
    <2>1. Findable \subseteq Findable'
        BY <1>2, FindableGrows DEF Inv
    <2>2. \A s \in Slots : pc'[s] \in {"running", "publish"} => Deps[Job(s)'] \subseteq Findable
        BY <1>2, RunnersAreSupplied
    <2>3. ASSUME NEW j \in (local' \cup remote') \cap Jobs PROVE Deps[j] \subseteq Findable
        <3>1. CASE j \in local \cup remote
            BY <1>2, <3>1 DEF Supplied, MarkersAreClosed, Findable
        <3>2. CASE j \notin local \cup remote
            <4>1. PICK s \in Slots : pc[s] \in {"running", "publish"} /\ j = Job(s)
                BY <1>2, <3>2, NewMarkers
            <4> QED BY <1>2, <4>1 DEF Supplied
        <3> QED BY <3>1, <3>2
    <2> QED BY <2>1, <2>2, <2>3 DEF Supplied, MarkersAreClosed, Findable
<1> QED BY <1>1, <1>2

\* For every plan and every kind of host: a completion marker is never found without
\* the markers of the job's dependencies, unless the only one was lost with a disk
\* before it could be uploaded.
THEOREM MarkersStayClosed == Spec => []MarkersAreClosed
<1>1. Init => Supplied
    BY PlanAssumption DEF Init, Supplied, MarkersAreClosed
<1>2. Supplied => MarkersAreClosed
    BY DEF Supplied
<1> QED BY <1>1, <1>2, InvInit, InvStep, SuppliedStep, PTL DEF Spec

-----------------------------------------------------------------------------
\* How far every slot has got, and why it stopped.
Progress ==
    /\ completed \subseteq Jobs
    /\ \A s \in Slots : \A i \in 1 .. at[s] - 1 : JobList[s][i] \in completed
    /\ \A s \in Slots : pc[s] = "leave_ok" => Job(s) \in completed
    /\ \A s \in Slots : pc[s] = "leave_interrupt" => stop
    /\ \A s \in Slots : pc[s] = "done" /\ ~stop => at[s] > Len(JobList[s])
    /\ verdict # "none" => \A s \in Slots : pc[s] = "done"

LEMMA ProgressStep == Inv /\ Progress /\ [Next]_vars => Progress'
<1> SUFFICES ASSUME Inv, Progress, [Next]_vars PROVE Progress'
    OBVIOUS
<1> USE Lists DEF Inv, Typed, Progress
<1>1. ASSUME NEW s \in Slots, SlotStep(s) PROVE Progress'
    <2>1. CASE NextJob(s)
        BY <2>1 DEF NextJob, Moves, Goto, Job, outcome, process
    <2>2. CASE Ask(s)
        BY <2>2 DEF Ask, Goto, Job, outcome, process
    <2>3. CASE RestoreCompleted(s) \/ WriteMarker(s) \/ PublishMarker(s) \/ PublishRaises(s)
        <3>1. Job(s) \in Jobs
            BY <2>3, JobAt DEF RestoreCompleted, WriteMarker, PublishMarker, PublishRaises
        <3>2. /\ UNCHANGED <<at, stop, verdict>>
              /\ completed \subseteq completed' /\ completed' \subseteq Jobs
            BY <2>3, <3>1 DEF RestoreCompleted, WriteMarker, PublishMarker, PublishRaises,
               outcome, process
        <3>3. /\ \A t \in Slots \ {s} : pc'[t] = pc[t]
              /\ pc'[s] \in {"leave_ok", "publish", "leave_error"} /\ pc[s] # "done"
              /\ pc'[s] = "leave_ok" => Job(s) \in completed'
            BY <2>3 DEF RestoreCompleted, WriteMarker, PublishMarker, PublishRaises, Goto
        <3> QED BY <3>2, <3>3 DEF Job
    <2>4. CASE PruneRefused(s) \/ RestoreNothing(s) \/ DependenciesReady(s) \/ DependencyStopped(s)
               \/ DependencyTimeout(s) \/ JobRaises(s) \/ ChunkLoopStopped(s)
        BY <2>4 DEF PruneRefused, RestoreNothing, DependenciesReady, DependencyStopped, DependencyTimeout,
           JobRaises, ChunkLoopStopped, Moves, Goto, Job, outcome, process
    <2>5. CASE Leave(s)
        <3>1. /\ UNCHANGED <<stop, completed, verdict>>
              /\ verdict = "none"
              /\ \A t \in Slots \ {s} : pc'[t] = pc[t] /\ at'[t] = at[t]
              /\ pc'[s] = AfterLeaving[pc[s]]
              /\ at'[s] = IF pc[s] = "leave_ok" THEN at[s] + 1 ELSE at[s]
            BY <2>5 DEF Leave, Goto, AfterLeaving, outcome, process
        <3>2. \A i \in 1 .. at'[s] - 1 : JobList[s][i] \in completed
            BY <3>1 DEF Job
        <3>3. /\ pc'[s] \notin {"leave_ok", "leave_interrupt"}
              /\ pc'[s] = "done" => stop
            BY <2>5, <3>1 DEF Leave, AfterLeaving
        <3> QED BY <3>1, <3>2, <3>3 DEF Job
    <2>6. CASE Handler(s)
        BY <2>6 DEF Handler, Goto, Job, process
    <2> QED BY <1>1, <2>1, <2>2, <2>3, <2>4, <2>5, <2>6 DEF SlotStep
<1>2. CASE Signal \/ BudgetRunsOut \/ HeartbeatSeesBudget
    BY <1>2 DEF Signal, BudgetRunsOut, HeartbeatSeesBudget, outcome, process, Job
<1>3. CASE Restart
    BY <1>3 DEF Restart
<1>4. CASE Conclude
    BY <1>4 DEF Conclude, outcome, Job
<1>5. CASE ForeignCompletes
    BY <1>5 DEF ForeignCompletes, outcome, process, Job
<1>6. CASE UNCHANGED vars
    BY <1>6 DEF vars, outcome, process, Job
<1> QED BY <1>1, <1>2, <1>3, <1>4, <1>5, <1>6 DEF Next, Halted

\* For every plan: a session that ends although nothing stopped it has completed all
\* jobs of the node; no path of a slot thread drops one.
THEOREM NoJobIsDropped == Spec => []StopExplainsGaps
<1>1. Init => Progress
    BY Lists DEF Init, Progress
<1>2. Inv /\ Progress => StopExplainsGaps
    <2> SUFFICES ASSUME Inv, Progress, verdict # "none", ~stop, NEW j \in Jobs
                 PROVE  j \in completed
        BY DEF StopExplainsGaps, Progress
    <2>0. j \in UNION {Listed(s) : s \in Slots}
        BY ONLY j \in Jobs, PlanAssumption
    <2> PICK s \in Slots : j \in Listed(s)
        BY ONLY <2>0
    <2> PICK i \in DOMAIN JobList[s] : j = JobList[s][i]
        BY DEF Listed
    <2>1. i \in 1 .. Len(JobList[s]) /\ at[s] \in Nat /\ at[s] > Len(JobList[s])
        BY Lists DEF Progress, Inv, Typed
    <2> QED BY <2>1, Lists DEF Progress
<1> QED BY <1>1, <1>2, InvInit, InvStep, ProgressStep, PTL DEF Spec

-----------------------------------------------------------------------------
\* The gate under the restarts of the node.

\* For every plan: over failures, stops and restarts the gate of the node is one in
\* which a measurement is alone and no bulk job gets in after a measurement asked.
THEOREM NodeImplementsGate == Spec => ImplementsGate
<1> DEFINE state == [s \in Slots |-> Standing[place[s]]]
<1>1. Init => Gate!Init
    BY DEF Init, GateInit, Gate!Init, Standing
<1>2. Inv /\ [Next]_vars => [Gate!Next]_state
    <2> SUFFICES ASSUME Inv, [Next]_vars PROVE [Gate!Next]_state
        OBVIOUS
    <2>1. CASE UNCHANGED vars
        BY <2>1 DEF vars, gateVars
    <2>2. CASE [GateNext]_gateVars
        BY <2>2, GateStepIsAbstract DEF Inv
    <2>3. CASE GateInit'
        BY <2>3 DEF GateInit, Gate!Next, Gate!Crash, Standing
    <2> QED BY <2>1, <2>2, <2>3, GatePart DEF Inv
<1> QED BY <1>1, <1>2, InvInit, InvStep, PTL DEF Spec, ImplementsGate, Gate!Spec

\* Who sleeps in the gate, or has been woken, is nowhere else.
Waiting ==
    \A s \in Slots :
        place[s] \in {"bulk_asleep", "bulk_woken", "excl_asleep", "excl_woken"}
            => pc[s] = "acquire"

LEMMA WaitingStep == Inv /\ Waiting /\ [Next]_vars => Waiting'
<1> SUFFICES ASSUME Inv, Waiting, [Next]_vars PROVE Waiting'
    OBVIOUS
<1> USE DEF Inv, Typed, Waiting
<1>1. ASSUME NEW s \in Slots, SlotStep(s) PROVE Waiting'
    <2>1. CASE Ask(s)
        <3>1. \A t \in Slots \ {s} : pc'[t] = pc[t]
            BY <2>1 DEF Ask, Goto
        <3>2. \A t \in Slots \ {s} : place'[t] = place[t]
            BY <2>1 DEF Ask, AcquireBulk, AdmitBulk, SleepBulk, AcquireExclusive,
               RequestAndEnterExclusive, RequestAndSleepExclusive, EnterExclusive,
               SleepAgainExclusive, GateInv, GateTypeOK
        <3>3. pc'[s] = IF place'[s] \in InGate THEN "restore" ELSE "acquire"
            BY <2>1 DEF Ask, Goto
        <3> QED BY <3>1, <3>2, <3>3 DEF InGate
    <2>2. CASE Leave(s)
        <3>1. \A t \in Slots \ {s} : pc'[t] = pc[t]
            BY <2>2 DEF Leave, Goto
        <3>2. place'[s] = "out"
            BY <2>2, NotifyEffect DEF Leave, ReleaseBulk, ReleaseExclusive, GateInv,
               GateTypeOK, Notified
        <3>3. \A t \in Slots \ {s} :
                 place'[t] \in {"bulk_asleep", "bulk_woken", "excl_asleep", "excl_woken"} =>
                     place[t] \in {"bulk_asleep", "bulk_woken", "excl_asleep", "excl_woken"}
            BY <2>2 DEF Leave, ReleaseBulk, ReleaseExclusive, GateInv, GateTypeOK, Notified, Places
        <3> QED BY <3>1, <3>2, <3>3
    <2>3. CASE NextJob(s) \/ Handler(s)
        BY <2>3 DEF NextJob, Handler, Moves, Goto, gateVars
    <2>4. CASE RestoreCompleted(s) \/ WriteMarker(s) \/ PublishMarker(s) \/ PublishRaises(s)
        BY <2>4 DEF RestoreCompleted, WriteMarker, PublishMarker, PublishRaises, Goto, gateVars
    <2>5. CASE PruneRefused(s) \/ RestoreNothing(s) \/ DependenciesReady(s) \/ DependencyStopped(s)
               \/ DependencyTimeout(s) \/ JobRaises(s) \/ ChunkLoopStopped(s)
        BY <2>5 DEF PruneRefused, RestoreNothing, DependenciesReady, DependencyStopped,
           DependencyTimeout, JobRaises, ChunkLoopStopped, Moves, Goto, gateVars
    <2> QED BY <1>1, <2>1, <2>2, <2>3, <2>4, <2>5 DEF SlotStep
<1>2. CASE Signal \/ BudgetRunsOut \/ HeartbeatSeesBudget \/ Conclude \/ ForeignCompletes
           \/ UNCHANGED vars
    BY <1>2 DEF Signal, BudgetRunsOut, HeartbeatSeesBudget, Conclude, ForeignCompletes, vars,
       gateVars
<1>3. CASE Restart
    BY <1>3 DEF Restart
<1> QED BY <1>1, <1>2, <1>3 DEF Next, Halted

\* Between restarts the gate of the node loses no wakeup, and a restart wakes everybody.
LEMMA WakeupStep == Inv /\ NoLostWakeup /\ [Next]_vars => NoLostWakeup'
<1>1. (GateInit => NoLostWakeup)'
    <2>1. GateInit => NoLostWakeup
        BY DEF GateInit, NoLostWakeup, At
    <2> QED BY <2>1, PTL
<1>2. ASSUME Inv, NoLostWakeup, Next PROVE NoLostWakeup'
    BY <1>1, <1>2, GatePart, NoLostWakeupStep DEF Inv
<1>3. ASSUME Inv, NoLostWakeup, UNCHANGED vars PROVE NoLostWakeup'
    BY <1>3, NoLostWakeupStep DEF Inv, vars
<1> QED BY <1>2, <1>3

\* If nobody polls, somebody who has not ended is not blocked: sleepers alone cannot
\* hold each other, because those they sleep for are inside the gate or were woken.
LEMMA SomebodyPolls == Inv /\ Waiting /\ NoLostWakeup => DeadlineEndsDeadlock
<1> SUFFICES ASSUME Inv, Waiting, NoLostWakeup,
                    \A s \in Slots : pc[s] = "done" \/ Blocked(s),
                    \A s \in Slots : pc[s] # "deps",
                    NEW s \in Slots, pc[s] # "done"
             PROVE  FALSE
    BY DEF DeadlineEndsDeadlock
<1> USE DEF Inv, GateInv, GateTypeOK, CountsExact, Blocked
<1>1. \A t \in Slots : pc[t] = "done" \/ place[t] \in {"bulk_asleep", "excl_asleep"}
    OBVIOUS
<1>2. \A t \in Slots : pc[t] \in {"done", "acquire"}
    BY <1>1 DEF Waiting
<1>3. /\ At("bulk_in") = {} /\ At("excl_in") = {}
      /\ At("excl_woken") = {}
    BY <1>1, <1>2 DEF At, Holders, Holding, InGate, Waiting
<1>4. ExclusiveMayEnter
    BY <1>3, FS_EmptySet DEF ExclusiveMayEnter
<1>5. At("excl_asleep") = {}
    BY <1>4 DEF NoLostWakeup
<1>6. BulkMayEnter
    BY <1>3, <1>5, FS_EmptySet DEF BulkMayEnter
<1>7. At("bulk_asleep") = {}
    BY <1>6 DEF NoLostWakeup
<1> QED BY <1>1, <1>5, <1>7 DEF At

\* For every plan: the gate by itself never stops a node; wherever every slot that has
\* not ended sleeps in the gate or polls in vain, one of them polls and has a deadline.
THEOREM GateNeverStopsNode == Spec => []DeadlineEndsDeadlock
<1>1. Init => Waiting /\ NoLostWakeup
    BY DEF Init, GateInit, Waiting, NoLostWakeup, At
<1> QED BY <1>1, InvInit, InvStep, WaitingStep, WakeupStep, SomebodyPolls, PTL DEF Spec
=============================================================================
