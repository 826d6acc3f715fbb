---------------------------- MODULE ResourceGate ----------------------------
(***************************************************************************)
(* The admission gate of one campaign node                                 *)
(* (class ResourceGate, src/cmfg_cce/orchestration/worker.py).             *)
(*                                                                         *)
(* Every slot of the node is one thread of a ThreadPoolExecutor.  A thread *)
(* enters the gate in one of two modes: "bulk" jobs share the node, an     *)
(* "exclusive_runtime" job must have it alone.  The three counters of the  *)
(* class are protected by one threading.Condition: a thread holds its lock *)
(* from the entry of the `with` block to its end or to the moment it goes  *)
(* to sleep in wait_for, so each of these stretches is one action.  A      *)
(* sleeping thread only looks at the counters again after a notify_all.    *)
(***************************************************************************)
EXTENDS Naturals, FiniteSets

CONSTANT Slots          \* the slot threads of the node

ASSUME SlotsFinite == IsFiniteSet(Slots)

VARIABLES
    activeBulk,         \* self._active_bulk
    exclusiveActive,    \* self._exclusive_active
    exclusiveWaiting,   \* self._exclusive_waiting
    place               \* where each thread is with respect to the gate

gateVars == <<activeBulk, exclusiveActive, exclusiveWaiting, place>>

\* out:      not in acquire()
\* _asleep:  inside Condition.wait, not notified yet
\* _woken:   notified, has to take the lock again and re-evaluate the predicate
\* _in:      past the yield, running its job
Places == {"out", "bulk_asleep", "bulk_woken", "bulk_in",
           "excl_asleep", "excl_woken", "excl_in"}

At(p) == {s \in Slots : place[s] = p}

-----------------------------------------------------------------------------
GateInit ==
    /\ activeBulk = 0
    /\ exclusiveActive = FALSE
    /\ exclusiveWaiting = 0
    /\ place = [s \in Slots |-> "out"]

\* The two wait_for predicates.  Faulty variant: bulk jobs do not look at
\* the queue of exclusive requests.
BulkIgnoresQueue == ~exclusiveActive
BulkMayEnter == ~exclusiveActive /\ exclusiveWaiting = 0
ExclusiveMayEnter == ~exclusiveActive /\ activeBulk = 0

\* Faulty variant: the release forgets to notify.
NotifiedNobody(pl) == pl

\* Condition.notify_all: every sleeper will look again.
Notified(pl) ==
    [s \in Slots |-> CASE pl[s] = "bulk_asleep" -> "bulk_woken"
                       [] pl[s] = "excl_asleep" -> "excl_woken"
                       [] OTHER -> pl[s]]

AdmitBulk(s) ==
    /\ BulkMayEnter
    /\ activeBulk' = activeBulk + 1
    /\ place' = [place EXCEPT ![s] = "bulk_in"]
    /\ UNCHANGED <<exclusiveActive, exclusiveWaiting>>

SleepBulk(s) ==
    /\ ~BulkMayEnter
    /\ place' = [place EXCEPT ![s] = "bulk_asleep"]
    /\ UNCHANGED <<activeBulk, exclusiveActive, exclusiveWaiting>>

\* acquire("bulk"): the first evaluation of the predicate, or one after a wakeup.
AcquireBulk(s) ==
    /\ place[s] \in {"out", "bulk_woken"}
    /\ AdmitBulk(s) \/ SleepBulk(s)

\* acquire("exclusive_runtime"), predicate true at once: the waiting count is
\* raised and lowered again under the same hold of the lock.
RequestAndEnterExclusive(s) ==
    /\ place[s] = "out"
    /\ ExclusiveMayEnter
    /\ exclusiveActive' = TRUE
    /\ place' = [place EXCEPT ![s] = "excl_in"]
    /\ UNCHANGED <<activeBulk, exclusiveWaiting>>

\* acquire("exclusive_runtime"), predicate false: the thread is counted as
\* waiting and sleeps.
RequestAndSleepExclusive(s) ==
    /\ place[s] = "out"
    /\ ~ExclusiveMayEnter
    /\ exclusiveWaiting' = exclusiveWaiting + 1
    /\ place' = [place EXCEPT ![s] = "excl_asleep"]
    /\ UNCHANGED <<activeBulk, exclusiveActive>>

\* wait_for returns: the flag is set and the count lowered, with no notify.
EnterExclusive(s) ==
    /\ place[s] = "excl_woken"
    /\ ExclusiveMayEnter
    /\ exclusiveActive' = TRUE
    /\ exclusiveWaiting' = exclusiveWaiting - 1
    /\ place' = [place EXCEPT ![s] = "excl_in"]
    /\ UNCHANGED activeBulk

\* The predicate is still false after a wakeup: sleep again.
SleepAgainExclusive(s) ==
    /\ place[s] = "excl_woken"
    /\ ~ExclusiveMayEnter
    /\ place' = [place EXCEPT ![s] = "excl_asleep"]
    /\ UNCHANGED <<activeBulk, exclusiveActive, exclusiveWaiting>>

AcquireExclusive(s) ==
    \/ RequestAndEnterExclusive(s)
    \/ RequestAndSleepExclusive(s)
    \/ EnterExclusive(s)
    \/ SleepAgainExclusive(s)

\* The finally block of a bulk job.
ReleaseBulk(s) ==
    /\ place[s] = "bulk_in"
    /\ activeBulk' = activeBulk - 1
    /\ place' = Notified([place EXCEPT ![s] = "out"])
    /\ UNCHANGED <<exclusiveActive, exclusiveWaiting>>

\* The finally block of an exclusive job.
ReleaseExclusive(s) ==
    /\ place[s] = "excl_in"
    /\ exclusiveActive' = FALSE
    /\ place' = Notified([place EXCEPT ![s] = "out"])
    /\ UNCHANGED <<activeBulk, exclusiveWaiting>>

GateNext ==
    \E s \in Slots :
        \/ AcquireBulk(s)
        \/ AcquireExclusive(s)
        \/ ReleaseBulk(s)
        \/ ReleaseExclusive(s)

\* A notified thread gets the lock back eventually and a job that runs ends;
\* nothing obliges an idle slot to ask for the gate.
GateFairness ==
    \A s \in Slots :
        /\ WF_gateVars(place[s] = "bulk_woken" /\ AcquireBulk(s))
        /\ WF_gateVars(EnterExclusive(s) \/ SleepAgainExclusive(s))
        /\ WF_gateVars(ReleaseBulk(s) \/ ReleaseExclusive(s))

GateSpec == GateInit /\ [][GateNext]_gateVars /\ GateFairness

-----------------------------------------------------------------------------
GateTypeOK ==
    /\ activeBulk \in Nat
    /\ exclusiveActive \in BOOLEAN
    /\ exclusiveWaiting \in Nat
    /\ place \in [Slots -> Places]

\* The docstring of the class: a runtime measurement has the whole node.  No two
\* exclusive jobs, and no bulk job next to an exclusive one, are past the yield.
WholeNode ==
    \A s, t \in Slots :
        place[s] = "excl_in" /\ t # s => place[t] \notin {"bulk_in", "excl_in"}

\* The counters are what the threads are doing: the predicates of acquire() look
\* only at them, so a count that drifts by one admits the wrong thread or nobody.
CountsExact ==
    /\ activeBulk = Cardinality(At("bulk_in"))
    /\ exclusiveWaiting = Cardinality(At("excl_asleep") \cup At("excl_woken"))
    /\ exclusiveActive <=> At("excl_in") # {}

\* No lost wakeup: a thread that sleeps un-notified could not enter if it looked.
\* acquire() lowers _exclusive_waiting without a notify; this is why that is safe.
NoLostWakeup ==
    /\ At("bulk_asleep") # {} => ~BulkMayEnter
    /\ At("excl_asleep") # {} => ~ExclusiveMayEnter

\* What a place in acquire() means to the other threads.
Standing ==
    [out |-> "out", bulk_in |-> "bulk_in", excl_in |-> "excl_in",
     bulk_asleep |-> "bulk_waits", bulk_woken |-> "bulk_waits",
     excl_asleep |-> "excl_waits", excl_woken |-> "excl_waits"]

Gate == INSTANCE PriorityGate WITH state <- [s \in Slots |-> Standing[place[s]]]

\* No starvation by bulk jobs: the three counters, the sleepers that are notified and
\* look again, and the restarts implement a gate in which, from the moment a measurement
\* waits, no bulk job gets in before it, however many keep asking.
ImplementsGate == Gate!Spec
=============================================================================
