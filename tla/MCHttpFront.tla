----------------------------- MODULE MCHttpFront -----------------------------
EXTENDS HttpFront

OneResource == "a" :> 1
TwoResources == ("a" :> 1) @@ ("b" :> 2)
=============================================================================
