--------------------------- MODULE MCLoanApproval ---------------------------
(***************************************************************************)
(* Two groups, three ways to change the rules of the first, applications   *)
(* for two instalments and for none.                                      *)
(***************************************************************************)
EXTENDS LoanApproval

CONSTANTS r1, r2, r3, c1, c2

Asked(g, n, k) == [op |-> "submit", group |-> g, amount |-> n, terms |-> k]
MCApplication == {Asked("g1", 3, 2), Asked("g1", 3, 0)}

Created(g, on, rate) == [op |-> "create", group |-> g, enabled |-> on, rateBps |-> rate]
Updated(g, on, rate) == [op |-> "update", group |-> g, enabled |-> on, rateBps |-> rate]
MCRuleCall ==
    {Created("g1", TRUE, 2500), Updated("g1", FALSE, Keep), Updated("g1", Keep, 200000)}

Symmetry == Permutations(Request) \cup Permutations(RuleChange)
=============================================================================
