--------------------------- MODULE MCCampaignPlan ---------------------------
(***************************************************************************)
(* A small matrix with every family in it, and all manifests of three ids. *)
(***************************************************************************)
EXTENDS CampaignPlan

SmallDirections == {<<"M1", "M4">>, <<"M4", "M1">>}
SmallLibrary == [base_a1_a6 |-> 6, expanded_a1_a8 |-> 8, leave_out_a1 |-> 5]
Size22 == {<<2, 2>>}
Size33 == {<<3, 3>>}
Size43 == {<<4, 3>>, <<4, 4>>}
=============================================================================
