------------------------- MODULE MCRoleAssignments -------------------------
(***************************************************************************)
(* One group and a member of another: a chair by groupRole, a user who is  *)
(* or is not ADMIN, and an outsider who is admin of the other group.       *)
(***************************************************************************)
EXTENDS RoleAssignments

CONSTANTS r1, r2, r3

MCProfile ==
    [m \in {"chair", "other", "away"} |->
        CASE m = "chair" -> [group |-> "g1", user |-> "ann", groupRole |-> "GROUP_CHAIR"]
          [] m = "other" -> [group |-> "g1", user |-> "bob", groupRole |-> NoGroupRole]
          [] m = "away"  -> [group |-> "g2", user |-> "bob", groupRole |-> NoGroupRole]]

By(u) == [actor |-> u, actorMember |-> NoMember]
Named(m) == [actor |-> "cy", actorMember |-> m]
Assigning(u, role, by) == [op |-> "assign", group |-> "g1", user |-> u, role |-> role, by |-> by]
Revoking(u, role, by) == [op |-> "revoke", group |-> "g1", user |-> u, role |-> role, by |-> by]
Changing(u, from, role, by) ==
    [op |-> "change", group |-> "g1", user |-> u, from |-> from, role |-> role, by |-> by]
Using(g, route, by) == [op |-> "use", group |-> g, route |-> route, by |-> by]

\* A decision races with the roles of its actor; the audit log is read behind the
\* guard alone; the others get past the guard and no further.
MCInstruction ==
    {Assigning("bob", "GROUP_CHAIR", By("ann")),
     Revoking("bob", "GROUP_CHAIR", By("bob")),
     Changing("bob", "GROUP_CHAIR", "GROUP_AUDITOR", By("bob")),
     Using("g1", LoanRoute.decide, By("bob")),
     Using("g2", AuditRoute.listLogByGroup, Named("away")),
     Using("g2", ContributionRoute.record, Named("away")),
     Using("g2", LoanRoute.recordWriteOff, Named("away")),
     Using("g1", MeetingRoute.listByGroup, By("ann"))}

Symmetry == Permutations(Request)
=============================================================================
