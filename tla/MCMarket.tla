------------------------------ MODULE MCMarket ------------------------------
(* A provider with two groups of machines and one that lacks a group. *)
EXTENDS MarketEpisodes

MCEquipment == "p1" :> ("T" :> 1 @@ "G" :> 1) @@ "p2" :> ("T" :> 2)
MCFamilies == {"T" :> 1 @@ "G" :> 1, "T" :> 2}
MCMask == "p1" :> {"T", "G"} @@ "p2" :> {"T"}
MCCapacity == "p1" :> 4 @@ "p2" :> 3
MCExternalJobs == {[work |-> 1, remaining |-> 2]}
MCNeeds == {{"T"}, {"G"}}
=============================================================================
