---------------------------- MODULE MCSocialFund ----------------------------
(***************************************************************************)
(* One group with an admin and a bucket, room for one more of each.  Two   *)
(* posts share the key k1 and have another amount, one of them finer than  *)
(* the column.  Precision is 13: the binary expansion of a hundredth       *)
(* repeats after 20 digits, so cut after 13 digits it is rounded as it is  *)
(* after 53, and sums lose as many units.                                  *)
(***************************************************************************)
EXTENDS SocialFund

CONSTANTS r1, r2, r3

MCFirstMembers ==
    [m \in {"ann", "bob"} |->
        IF m = "ann" THEN [group |-> "g1", role |-> "ADMIN", status |-> "ACTIVE"] ELSE NoRow]

MCFirstBuckets == [b \in {"b1", "b2"} |-> IF b = "b1" THEN "g1" ELSE NoRow]

Post(amount, type, key) ==
    [op |-> "post", bucket |-> "b1", amount |-> amount, type |-> type, key |-> key, by |-> "ann"]

MCAmount == {100, 105, 200, -300}

Updating(via, group, status) ==
    [op |-> "updateGroup", via |-> via, group |-> group, status |-> status, by |-> "ann"]

MCInstruction ==
    {Post(100, "CONTRIBUTION", "k1"), Post(105, "CONTRIBUTION", "k1"),
     Post(-300, "DISBURSEMENT", NoKey), Post(200, "CONTRIBUTION", EmptyKey),
     [op |-> "reverse", group |-> "g1", bucket |-> "b1", by |-> "ann"],
     [op |-> "createBucket", group |-> "g1", by |-> "ann"],
     [op |-> "createGroup", via |-> "groups"], [op |-> "createGroup", via |-> "tenantGroups"],
     Updating("groups", "g1", "CLOSED"), Updating("tenantGroups", "g1", "ACTIVE"),
     Updating("tenantGroups", "g1", NoChange), Updating("tenantGroups", "g2", "CLOSED"),
     [op |-> "createMember", group |-> "g1", role |-> NoChange],
     [op |-> "updateMember", member |-> "ann", role |-> "MEMBER"],
     [op |-> "leave", member |-> "ann"]}

\* Of 0.1 + 0.2 - 0.3 remains 2^-14, and with 53 digits 2^-54.
ASSUME SumsDrift ==
    Plus(Plus(ToNumber(100), ToNumber(200)), ToNumber(-300)) = 2^(Scale - Precision - 1)

Symmetry == Permutations(Request)
=============================================================================
