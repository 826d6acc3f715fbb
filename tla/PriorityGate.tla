---------------------------- MODULE PriorityGate ----------------------------
(***************************************************************************)
(* What the admission gate of a node promises its threads, without         *)
(* counters, sleeping or wakeups: a measurement is alone in the node, and  *)
(* from the moment it waits no bulk job overtakes it, so that it waits     *)
(* only for the jobs that were inside before it and for other              *)
(* measurements.  (Docstring of ResourceGate: "Allow concurrent bulk jobs  *)
(* while giving runtime measurements the whole node",                      *)
(* src/cmfg_cce/orchestration/worker.py.)                                  *)
(***************************************************************************)
CONSTANT Slots

VARIABLE state      \* slot -> where its thread stands

States == {"out", "bulk_waits", "excl_waits", "bulk_in", "excl_in"}

Set(s, place) == state' = [state EXCEPT ![s] = place]

Init == state = [s \in Slots |-> "out"]

Ask(s) == state[s] = "out" /\ (Set(s, "bulk_waits") \/ Set(s, "excl_waits"))

\* A bulk job enters while no measurement runs or waits, whoever it is.
EnterBulk(s) ==
    /\ state[s] \in {"out", "bulk_waits"}
    /\ \A t \in Slots : state[t] \notin {"excl_waits", "excl_in"}
    /\ Set(s, "bulk_in")

\* A measurement enters an empty node.
EnterExclusive(s) ==
    /\ state[s] \in {"out", "excl_waits"}
    /\ \A t \in Slots : state[t] \notin {"bulk_in", "excl_in"}
    /\ Set(s, "excl_in")

Leave(s) == state[s] \in {"bulk_in", "excl_in"} /\ Set(s, "out")

\* The process is killed.
Crash == state' = [s \in Slots |-> "out"]

Next ==
    \/ \E s \in Slots : Ask(s) \/ EnterBulk(s) \/ EnterExclusive(s) \/ Leave(s)
    \/ Crash

Spec == Init /\ [][Next]_state
=============================================================================
