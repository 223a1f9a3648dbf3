---------------------------- MODULE MCBudgetLedger ----------------------------
(***************************************************************************)
(* BudgetLedger on a small instance: two model calls that reserve one call *)
(* and one token each, of which the run may use one.                       *)
(***************************************************************************)
EXTENDS BudgetLedger, TLC

CONSTANTS m1, m2

ModelCalls == {m1, m2}
Model == <<[resource |-> "llm_calls", amount |-> 1], [resource |-> "total_tokens", amount |-> 1]>>
Bundles == [c \in ModelCalls |-> Model]

Tokens == {"total_tokens"}
Limits == [llm_calls |-> 2, total_tokens |-> 1]

Symmetry == Permutations(ModelCalls)
=============================================================================
