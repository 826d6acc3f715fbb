\* A bulk job whose directory is pruned and a runtime job whose attempts differ, with a
\* consumer in another slot of the node and one elsewhere, with every backend.
SPECIFICATION Spec
CONSTANTS
    Artifacts = 2
    Local = {here}
    Other = {there}
    Kinds = {{"prune", "gcloud"}, {"measured"}, {"measured", "prune", "gcloud"}}
    MaxSessions = 3
INVARIANTS MarkerMeansWhole ConsumersAgree
PROPERTY PublishedIsServed
