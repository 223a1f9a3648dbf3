-------------------------- MODULE MCServerLifespan --------------------------
EXTENDS ServerLifespan, TLC

CONSTANTS a, b

\* b runs a newer build.
MCBuilds == (a :> 1) @@ (b :> 2)
=============================================================================
