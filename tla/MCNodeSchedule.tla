--------------------------- MODULE MCNodeSchedule ---------------------------
(***************************************************************************)
(* Small instances of NodeSchedule for TLC.                                *)
(***************************************************************************)
EXTENDS NodeSchedule, TLC

CONSTANTS s1, s2, s3, rt, ev, cnc, tr, far

\* A campaign as the manifest builder may assign it: slot s1 measures and then runs a
\* bulk job, s2 has the audit of the measurement, and s3 a job that needs that bulk job
\* and one of another node.
WaveList == (s1 :> <<rt, cnc>>) @@ (s2 :> <<ev>>) @@ (s3 :> <<tr>>)
WaveMode == [j \in {rt, ev, cnc, tr} |-> IF j = rt THEN "exclusive_runtime" ELSE "bulk"]
WaveDeps == (rt :> {}) @@ (ev :> {rt}) @@ (cnc :> {}) @@ (tr :> {cnc, far})
=============================================================================
