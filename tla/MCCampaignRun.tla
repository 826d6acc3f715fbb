--------------------------- MODULE MCCampaignRun ---------------------------
(* Two manufacturers with two policies (three in the expanded library), two  *)
(* tuning configurations, and the jobs of one family at a time.               *)
EXTENDS CampaignRun

aa == {<<"a", "a">>}
ab == {<<"a", "b">>, <<"b", "a">>}
MCWaves ==
    {<<"tuning", "runtime", "evidence", "mixed">>, <<"sparse_runtime", "sparse">>, <<"mixed">>,
     <<"source", "target", "transplant">>, <<"core", "expanded">>, <<"nominal", "scaled">>, <<"selectors">>}
MCConfigs == <<"eta1", "eta2">>
MCMeasured == {aa, ab}
MCSolved ==
    [tuning |-> aa, runtime |-> ab, sparse_runtime |-> ab, mixed |-> ab, source |-> ab,
     target |-> aa, core |-> aa, expanded |-> {<<"c", "b">>}, selectors |-> ab,
     nominal |-> ab, scaled |-> aa]
MCGap == (aa :> <<3, 1>>) @@ (ab :> <<2, 2>>)
MCOtherRows == [eta1 |-> <<2, 1>>, eta2 |-> <<3, 1>>]
MCFaultSets == {{}, {"disk_lost"}, {"slow_upload"}, {"disk_lost", "slow_upload"}}
MCRequests == {{f} : f \in Families} \cup {Families, {"benchmark", "pure_mixed"}}
=============================================================================
