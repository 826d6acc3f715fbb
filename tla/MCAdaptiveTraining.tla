-------------------------- MODULE MCAdaptiveTraining --------------------------
(***************************************************************************)
(* A small instance of AdaptiveTraining for TLC.                           *)
(***************************************************************************)
EXTENDS AdaptiveTraining

\* The second batch repeats a profile of the first, is not in slot order and fills
\* the first block; the second block is half padding, the third one all padding.
TwoBatches == <<{2}, {1, 2, 3}>>
=============================================================================
