---------------------------- MODULE MCRetrieval ----------------------------
(***************************************************************************)
(* Retrieval on a small instance: three executions of two runs, with one   *)
(* source of each kind.  A plan is the set of calls made at once.          *)
(***************************************************************************)
EXTENDS Retrieval

CONSTANTS f1, f2, f3, r1, r2, tavily, github, arxiv

MCRunOf == f1 :> r1 @@ f2 :> r1 @@ f3 :> r2
MCPlans == {{f1} \X {tavily}, {f1, f3} \X {github}, {f1, f2} \X {arxiv}, {f1, f3} \X {arxiv}}
MCPosters == (Fanouts \X {tavily}) \X Queries
MCSearchers == Fanouts \X {github}
=============================================================================
