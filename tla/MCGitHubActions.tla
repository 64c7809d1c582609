--------------------------- MODULE MCGitHubActions ---------------------------
EXTENDS GitHubActions, TLC

MCInitCreated == 1 :> 1 @@ 2 :> 1 @@ 3 :> 4 @@ 4 :> 4
=============================================================================
