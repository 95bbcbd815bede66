----------------------- MODULE RoleAssignmentsProofs -----------------------
(***************************************************************************)
(* Theorems about RoleAssignments, for every set of groups, users, members *)
(* and requests, however many are served at the same time.                 *)
(***************************************************************************)
EXTENDS RoleAssignments, TLAPS

USE NoNames, RoleAssignmentsAssumption

-----------------------------------------------------------------------------
(* What the statements of a request rely on from the earlier ones.         *)

\* The row of r is not written yet.
Unassigned(r) ==
    pc[r] \in {"idle", "refused"} \cup (Step \ {"audit"}) \/ (pc[r] = "audit" /\ stage[r] = "revoke")

RequestSound(r) ==
    /\ IF pc[r] = "idle" THEN stage[r] = "guard" ELSE command[r] \in Command
    /\ pc[r] \in Step /\ stage[r] = "revoke" => command[r].op \in {"revoke", "change"}
    /\ pc[r] \in Step /\ stage[r] = "assign" => command[r].op \in {"assign", "change"}
    /\ pc[r] \in Step /\ stage[r] = "serve" => command[r].op = "use"
    /\ stage[r] = "guard" =>
          pc[r] \in {"idle", "member", "fallback", "roles", "acting", "done", "refused", "crashed"}
    /\ pc[r] = "fallback" => command[r].by.actorMember # NoMember
    /\ pc[r] = "updating" => stage[r] = "revoke" /\ target[r] \in Stored
    /\ pc[r] = "creating" => stage[r] = "assign"
    /\ pc[r] \in {"finding", "audit"} => stage[r] \in {"revoke", "assign"}
    /\ pc[r] = "audit" /\ stage[r] = "revoke" =>
          target[r] \in Stored /\ assignments[target[r]].status = "REVOKED"
    /\ Unassigned(r) => assignments[r] = NoAssignment
    /\ pc[r] = "audit" /\ stage[r] = "assign" => r \in Stored
    /\ stage[r] = "assign" /\ command[r].op = "assign" => target[r] = NoAssignment
    /\ stage[r] = "guard" => target[r] = NoAssignment
    /\ r \in Stored => stage[r] = "assign"
    /\ stage[r] = "assign" => command[r] \in Command /\ command[r].op \in {"assign", "change"}
    /\ stage[r] = "assign" /\ command[r].op = "change" =>
          /\ target[r] \in Stored /\ assignments[target[r]].status = "REVOKED"
          /\ <<"ROLE_REVOKED", target[r]>> \in trail

RequestInv == \A r \in Request : RequestSound(r)

LEMMA CommandTypes ==
    ASSUME NEW c \in Command
    PROVE  /\ c.op \in {"assign", "revoke", "change", "use"}
           /\ c.group \in Group /\ c.by \in Actor
           /\ c.op # "use" => c.user \in User /\ c.role \in GroupRole
           /\ c.op = "change" => c.from \in GroupRole
BY DEF Command, AssignRoleInput, RevokeRoleInput, ChangeRoleInput, GuardedInput

LEMMA OwnRolesType ==
    ASSUME TypeOK, NEW m \in Member
    PROVE  OwnRoles(m) \subseteq UserRole /\ Profile[m] \in ProfileType
<1>1. Profile[m] \in ProfileType
  OBVIOUS
<1>2. Profile[m].groupRole # NoGroupRole => Profile[m].groupRole \in GroupRole
  BY <1>1 DEF ProfileType
<1>3. QED
  BY <1>1, <1>2 DEF OwnRoles, MemberRoleToUserRole, UserRole, GroupRole

LEMMA RowType ==
    ASSUME TypeOK, RequestInv, NEW r \in Request, pc[r] = "creating"
    PROVE  [group |-> command[r].group, user |-> command[r].user, role |-> command[r].role,
            status |-> "ACTIVE", createdBy |-> command[r].by.actor, revokedBy |-> NoUser]
           \in AssignmentRow
<1>1. command[r] \in Command /\ command[r].op # "use"
  BY DEF RequestInv, RequestSound, Step
<1>2. QED
  BY <1>1, CommandTypes DEF AssignmentRow, Actor

\* A revocation changes its target and nothing else.
LEMMA Revoked ==
    ASSUME TypeOK, RequestInv, NEW r \in Request, Revoke(r), NEW t, t = target[r]
    PROVE  /\ t \in Stored /\ assignments[t] \in AssignmentRow
           /\ assignments' \in [Request -> AssignmentRow \cup {NoAssignment}]
           /\ assignments'[t] \in AssignmentRow
           /\ assignments'[t].status = "REVOKED"
           /\ assignments'[t].group = assignments[t].group
           /\ assignments'[t].user = assignments[t].user
           /\ assignments'[t].role = assignments[t].role
           /\ \A b \in Request : b # t => assignments'[b] = assignments[b]
<1>1. t \in Stored /\ t \in Request /\ assignments[t] \in AssignmentRow
  <2>1. target[r] \in Stored
    BY DEF Revoke, RequestInv, RequestSound
  <2>2. QED
    BY <2>1 DEF Stored, TypeOK
<1>2. command[r] \in Command /\ command[r].by.actor \in User
  BY CommandTypes DEF Revoke, RequestInv, RequestSound, Actor
<1>3. assignments' = [assignments EXCEPT ![t] =
         [assignments[t] EXCEPT !.status = "REVOKED", !.revokedBy = command[r].by.actor]]
  BY <1>1 DEF Revoke, TypeOK
<1>4. [assignments[t] EXCEPT !.status = "REVOKED", !.revokedBy = command[r].by.actor]
         \in AssignmentRow
  BY <1>1, <1>2 DEF AssignmentRow
<1>5. /\ assignments'[t] =
            [assignments[t] EXCEPT !.status = "REVOKED", !.revokedBy = command[r].by.actor]
      /\ assignments' \in [Request -> AssignmentRow \cup {NoAssignment}]
      /\ \A b \in Request : b # t => assignments'[b] = assignments[b]
  BY <1>1, <1>3, <1>4 DEF TypeOK
<1>6. /\ assignments'[t].status = "REVOKED"
      /\ assignments'[t].group = assignments[t].group
      /\ assignments'[t].user = assignments[t].user
      /\ assignments'[t].role = assignments[t].role
  BY <1>1, <1>5 DEF AssignmentRow
<1>7. QED
  BY <1>1, <1>4, <1>5, <1>6

\* Every variable keeps its type.
LEMMA TypeStep ==
    ASSUME TypeOK, RequestInv, Next
    PROVE  TypeOK'
<1> USE DEF Goto, GotoStage, Leave, tables, Step, Finished, Stage
<1>1. moments' \in [Request -> SUBSET {"member", "right"}]
  BY DEF Next, Remember, Case, TypeOK
<1>2. Nobody \in Found
  BY DEF Nobody, Found
<1>3. ASSUME NEW r \in Request, Arrive(r) PROVE TypeOK'
  BY <1>1, <1>3 DEF Arrive, TypeOK
<1>4. ASSUME NEW r \in Request, ReadMember(r) \/ ReadFallback(r) PROVE TypeOK'
  <2>1. command[r] \in Command
    BY <1>4 DEF ReadMember, ReadFallback, RequestInv, RequestSound
  <2>2. command[r].by.actorMember # NoMember => command[r].by.actorMember \in Member
    BY <2>1, CommandTypes DEF Actor
  <2>3. \A m \in Member : [roles |-> OwnRoles(m), user |-> Profile[m].user] \in Found
    BY OwnRolesType DEF Found, ProfileType
  <2>4. CASE ReadMember(r)
    <3>1. \/ \E m \in Member : Reads(r, m)
          \/ (Goto(r, "refused") \/ Goto(r, "fallback")) /\ UNCHANGED found
      BY <2>4 DEF ReadMember
    <3>2. found' \in [Request -> Found] /\ pc' \in [Request -> {"idle"} \cup Step \cup Finished]
      BY <2>3, <3>1 DEF Reads, TypeOK
    <3>3. QED
      BY <1>1, <2>4, <3>2 DEF ReadMember, TypeOK
  <2>5. CASE ReadFallback(r)
    <3>1. \/ Reads(r, command[r].by.actorMember) /\ command[r].by.actorMember \in Member
          \/ Leave(r, "refused")
      BY <2>2, <2>5 DEF ReadFallback, RequestInv, RequestSound
    <3>2. found' \in [Request -> Found] /\ pc' \in [Request -> {"idle"} \cup Step \cup Finished]
      BY <1>2, <2>3, <3>1 DEF Reads, TypeOK
    <3>3. QED
      BY <1>1, <2>5, <3>2 DEF ReadFallback, TypeOK
  <2>6. QED
    BY <1>4, <2>4, <2>5
<1>5. ASSUME NEW r \in Request, ReadRoles(r) PROVE TypeOK'
  <2>1. /\ found' = [found EXCEPT ![r] = Nobody]
        /\ \E step \in {"refused", "member", "acting", "finding"} : pc' = [pc EXCEPT ![r] = step]
        /\ UNCHANGED stage \/ stage' = [stage EXCEPT ![r] = FirstStage(r)]
    BY <1>5 DEF ReadRoles
  <2>2. FirstStage(r) \in Stage
    BY DEF FirstStage
  <2>3. /\ found' \in [Request -> Found] /\ stage' \in [Request -> Stage]
        /\ pc' \in [Request -> {"idle"} \cup Step \cup Finished]
    BY <1>2, <2>1, <2>2 DEF TypeOK
  <2>4. QED
    BY <1>1, <1>5, <2>3 DEF ReadRoles, TypeOK
<1>6. ASSUME NEW r \in Request, Act(r) \/ TurnedAway(r) \/ FindForAssignment(r) PROVE TypeOK'
  BY <1>1, <1>6 DEF Act, TurnedAway, FindForAssignment, TypeOK
<1>7. ASSUME NEW r \in Request, Crash(r) PROVE TypeOK'
  BY <1>1, <1>2, <1>7 DEF Crash, TypeOK
<1>8. ASSUME NEW r \in Request, FindForRevocation(r) PROVE TypeOK'
  <2>1. \/ Goto(r, "refused") /\ UNCHANGED target
        \/ \E a \in Request : target' = [target EXCEPT ![r] = a] /\ Goto(r, "updating")
    BY <1>8 DEF FindForRevocation, Existing, Assigned, Stored
  <2>2. /\ target' \in [Request -> Request \cup {NoAssignment}]
        /\ pc' \in [Request -> {"idle"} \cup Step \cup Finished]
    BY <2>1 DEF TypeOK
  <2>3. QED
    BY <1>1, <1>8, <2>2 DEF FindForRevocation, TypeOK
<1>9. ASSUME NEW r \in Request, Revoke(r) PROVE TypeOK'
  <2>1. assignments' \in [Request -> AssignmentRow \cup {NoAssignment}]
    BY <1>9, Revoked
  <2>2. QED
    BY <1>1, <1>9, <2>1 DEF Revoke, TypeOK
<1>10. ASSUME NEW r \in Request, Create(r) PROVE TypeOK'
  <2>1. assignments' \in [Request -> AssignmentRow \cup {NoAssignment}]
    BY <1>10, RowType DEF Create, TypeOK
  <2>2. Goto(r, "refused") \/ Goto(r, "audit")
    BY <1>10 DEF Create
  <2>3. pc' \in [Request -> {"idle"} \cup Step \cup Finished]
    BY <2>2 DEF TypeOK
  <2>4. QED
    BY <1>1, <1>10, <2>1, <2>3 DEF Create, TypeOK
<1>11. ASSUME NEW r \in Request, AuditAssigned(r) \/ AuditRevoked(r) PROVE TypeOK'
  <2>1. target[r] \in Request \/ AuditAssigned(r)
    BY <1>11 DEF AuditRevoked, RequestInv, RequestSound, Stored
  <2>2. trail' \in SUBSET ({"ROLE_ASSIGNED", "ROLE_REVOKED"} \X Request)
    BY <1>11, <2>1 DEF AuditAssigned, AuditRevoked, Append, TypeOK
  <2>3. /\ Goto(r, "done") \/ Goto(r, "member")
        /\ UNCHANGED stage \/ GotoStage(r, "assign")
    BY <1>11 DEF AuditAssigned, AuditRevoked
  <2>4. /\ pc' \in [Request -> {"idle"} \cup Step \cup Finished]
        /\ stage' \in [Request -> Stage]
    BY <2>3 DEF TypeOK
  <2>5. QED
    BY <1>1, <1>11, <2>2, <2>4 DEF AuditAssigned, AuditRevoked, TypeOK
<1>12. ASSUME NEW m \in Member, UpdateMember(m) \/ LeaveGroup(m) PROVE TypeOK'
  <2>1. members' \in [Member -> [role : {"ADMIN", "MEMBER"}, status : {"ACTIVE", "LEFT"}]]
    <3>1. members[m] \in [role : {"ADMIN", "MEMBER"}, status : {"ACTIVE", "LEFT"}]
      BY DEF TypeOK
    <3>2. /\ \A role \in {"ADMIN", "MEMBER"} :
                [members[m] EXCEPT !.role = role]
                    \in [role : {"ADMIN", "MEMBER"}, status : {"ACTIVE", "LEFT"}]
          /\ [members[m] EXCEPT !.status = "LEFT"]
                \in [role : {"ADMIN", "MEMBER"}, status : {"ACTIVE", "LEFT"}]
      BY <3>1
    <3>3. \/ \E role \in {"ADMIN", "MEMBER"} :
                members' = [members EXCEPT ![m] = [members[m] EXCEPT !.role = role]]
          \/ members' = [members EXCEPT ![m] = [members[m] EXCEPT !.status = "LEFT"]]
      BY <1>12 DEF UpdateMember, LeaveGroup, TypeOK
    <3>4. QED
      BY <3>2, <3>3 DEF TypeOK
  <2>2. QED
    BY <1>1, <1>12, <2>1 DEF UpdateMember, LeaveGroup, TypeOK
<1>13. QED
  BY <1>3, <1>4, <1>5, <1>6, <1>7, <1>8, <1>9, <1>10, <1>11, <1>12
     DEF Next, RequestStep, Check

-----------------------------------------------------------------------------
(* What a request leaves alone: the other requests, and what is written.   *)

LEMMA Alone ==
    ASSUME TypeOK, NEW r \in Request, RequestStep(r), NEW q \in Request, q # r
    PROVE  /\ pc'[q] = pc[q] /\ command'[q] = command[q] /\ stage'[q] = stage[q]
           /\ target'[q] = target[q] /\ found'[q] = found[q]
<1> USE DEF Goto, GotoStage, Leave, tables
<1>1. CASE Arrive(r)
  BY <1>1 DEF Arrive, TypeOK
<1>2. CASE ReadMember(r)
  <2>1. \/ \E m \in Member : Reads(r, m)
        \/ (Goto(r, "refused") \/ Goto(r, "fallback")) /\ UNCHANGED found
    BY <1>2 DEF ReadMember
  <2>2. QED
    BY <1>2, <2>1 DEF ReadMember, Reads, TypeOK
<1>3. CASE ReadFallback(r)
  <2>1. \/ \E m : Reads(r, m)
        \/ Leave(r, "refused")
    BY <1>3 DEF ReadFallback
  <2>2. QED
    BY <1>3, <2>1 DEF ReadFallback, Reads, TypeOK
<1>4. CASE ReadRoles(r)
  BY <1>4 DEF ReadRoles, TypeOK
<1>5. CASE Act(r) \/ TurnedAway(r) \/ FindForAssignment(r) \/ Crash(r)
  BY <1>5 DEF Act, TurnedAway, FindForAssignment, Crash, TypeOK
<1>6. CASE FindForRevocation(r)
  BY <1>6 DEF FindForRevocation, TypeOK
<1>7. CASE Revoke(r) \/ Create(r)
  BY <1>7 DEF Revoke, Create, TypeOK
<1>8. CASE AuditAssigned(r) \/ AuditRevoked(r)
  BY <1>8 DEF AuditAssigned, AuditRevoked, TypeOK
<1>9. QED
  BY <1>1, <1>2, <1>3, <1>4, <1>5, <1>6, <1>7, <1>8 DEF RequestStep, Check

\* A creation writes the row of its request, when no other stands for it.
LEMMA Created ==
    ASSUME TypeOK, RequestInv, NEW r \in Request, Create(r)
    PROVE  \/ assignments' = assignments /\ pc' = [pc EXCEPT ![r] = "refused"]
           \/ /\ IndexFree(command[r].group, command[r].user, command[r].role)
              /\ assignments[r] = NoAssignment /\ assignments'[r] \in AssignmentRow
              /\ assignments'[r].status = "ACTIVE"
              /\ assignments'[r].group = command[r].group
              /\ assignments'[r].user = command[r].user
              /\ assignments'[r].role = command[r].role
              /\ \A b \in Request : b # r => assignments'[b] = assignments[b]
              /\ pc' = [pc EXCEPT ![r] = "audit"]
<1>1. assignments[r] = NoAssignment
  BY DEF Create, RequestInv, RequestSound, Unassigned, Step
<1>2. pc[r] = "creating"
  BY DEF Create
<1>3. CASE IndexFree(command[r].group, command[r].user, command[r].role)
  <2>1. PICK row :
          /\ row = [group |-> command[r].group, user |-> command[r].user,
                    role |-> command[r].role, status |-> "ACTIVE",
                    createdBy |-> command[r].by.actor, revokedBy |-> NoUser]
          /\ assignments' = [assignments EXCEPT ![r] = row]
          /\ pc' = [pc EXCEPT ![r] = "audit"]
    BY <1>3 DEF Create, Goto
  <2>2. row \in AssignmentRow
    BY <1>2, <2>1, RowType
  <2>3. assignments'[r] = row /\ \A b \in Request : b # r => assignments'[b] = assignments[b]
    BY <2>1 DEF TypeOK
  <2>4. QED
    BY <1>1, <1>3, <2>1, <2>2, <2>3
<1>4. CASE ~IndexFree(command[r].group, command[r].user, command[r].role)
  BY <1>4 DEF Create, Goto
<1>5. QED
  BY <1>3, <1>4

\* Rows stay, REVOKED ones REVOKED; only a creation adds one.
LEMMA Grown ==
    ASSUME TypeOK, RequestInv, NEW r \in Request, RequestStep(r)
    PROVE  /\ trail \subseteq trail'
           /\ Stored \subseteq Stored'
           /\ \A a \in Stored :
                assignments[a].status = "REVOKED" => assignments'[a].status = "REVOKED"
           /\ \A a \in Stored' : a \in Stored \/ (a = r /\ Create(r))
<1>1. CASE Create(r)
  <2>1. trail' = trail
    BY <1>1 DEF Create
  <2>2. CASE assignments' = assignments
    BY <2>1, <2>2 DEF Stored
  <2>3. CASE assignments' # assignments
    <3>1. /\ assignments[r] = NoAssignment
          /\ \A b \in Request : b # r => assignments'[b] = assignments[b]
      BY <1>1, <2>3, Created
    <3>2. QED
      BY <1>1, <2>1, <3>1 DEF Stored
  <2>4. QED
    BY <2>2, <2>3
<1>2. CASE Revoke(r)
  <2>1. trail' = trail
    BY <1>2 DEF Revoke
  <2>2. PICK t : t = target[r]
    OBVIOUS
  <2>3. /\ t \in Stored /\ assignments'[t] \in AssignmentRow
        /\ assignments'[t].status = "REVOKED"
        /\ \A b \in Request : b # t => assignments'[b] = assignments[b]
    BY <1>2, <2>2, Revoked
  <2>4. QED
    BY <2>1, <2>3 DEF Stored
<1>3. CASE ~Create(r) /\ ~Revoke(r)
  <2>1. assignments' = assignments
    BY <1>3 DEF RequestStep, Check, Arrive, ReadMember, ReadFallback, ReadRoles, Act, TurnedAway,
                FindForRevocation, FindForAssignment, AuditAssigned, AuditRevoked, Crash, tables
  <2>2. trail \subseteq trail'
    BY <1>3 DEF RequestStep, Check, Arrive, ReadMember, ReadFallback, ReadRoles, Act, TurnedAway,
                FindForRevocation, FindForAssignment, AuditAssigned, AuditRevoked, Append,
                Crash, tables
  <2>3. QED
    BY <2>1, <2>2 DEF Stored
<1>4. QED
  BY <1>1, <1>2, <1>3

\* What a request relies on survives the steps of another.
LEMMA OthersSound ==
    ASSUME TypeOK, RequestInv, NEW r \in Request, RequestStep(r), NEW q \in Request, q # r
    PROVE  RequestSound(q)'
<1>1. /\ pc'[q] = pc[q] /\ command'[q] = command[q] /\ stage'[q] = stage[q]
      /\ target'[q] = target[q]
  BY Alone
<1>2. RequestSound(q)
  BY DEF RequestInv
<1>3. /\ target[q] \in Stored => target[q] \in Stored'
      /\ target[q] \in Stored /\ assignments[target[q]].status = "REVOKED" =>
            assignments'[target[q]].status = "REVOKED"
      /\ (q \in Stored) <=> (q \in Stored')
      /\ trail \subseteq trail'
  BY Grown
<1>4. assignments[q] = NoAssignment => assignments'[q] = NoAssignment
  BY <1>3 DEF Stored
<1>5. Unassigned(q)' <=> Unassigned(q)
  BY <1>1 DEF Unassigned
<1>6. QED
  BY <1>1, <1>2, <1>3, <1>4, <1>5 DEF RequestSound

\* A statement keeps what its own request relies on.
LEMMA OwnSound ==
    ASSUME TypeOK, RequestInv, NEW r \in Request, RequestStep(r)
    PROVE  RequestSound(r)'
<1> USE DEF Goto, GotoStage, Leave, tables, Step, Unassigned
<1>1. RequestSound(r) /\ pc[r] \in {"idle"} \cup Step \cup Finished /\ stage[r] \in Stage
  BY DEF RequestInv, TypeOK
<1>2. CASE Arrive(r)
  <2>1. /\ pc'[r] = "member" /\ command'[r] \in Command
        /\ UNCHANGED <<tables, stage, target>>
    BY <1>2 DEF Arrive, TypeOK
  <2>2. stage[r] = "guard"
    BY <1>1, <1>2 DEF Arrive, RequestSound, Stage
  <2>3. QED
    BY <1>1, <1>2, <2>1, <2>2 DEF Arrive, RequestSound, Stored
<1>3. CASE ReadMember(r)
  <2>1. /\ pc'[r] \in {"roles", "refused", "fallback"}
        /\ pc'[r] = "fallback" => command[r].by.actorMember # NoMember
        /\ UNCHANGED <<tables, command, stage, target>>
    BY <1>3 DEF ReadMember, Reads, TypeOK
  <2>2. pc[r] = "member"
    BY <1>3 DEF ReadMember
  <2>3. QED
    BY <1>1, <2>1, <2>2 DEF RequestSound, Stored
<1>4. CASE ReadFallback(r)
  <2>1. /\ pc'[r] \in {"roles", "refused"} /\ pc[r] = "fallback"
        /\ UNCHANGED <<tables, command, stage, target>>
    BY <1>4 DEF ReadFallback, Reads, TypeOK
  <2>2. QED
    BY <1>1, <2>1 DEF RequestSound, Stored
<1>5. CASE ReadRoles(r)
  <2>0. /\ FirstStage(r) = "guard" => command[r].op = "use"
        /\ stage[r] = "serve" => command[r].op = "use"
        /\ stage[r] \in {"revoke", "assign"} => command[r].op # "use"
    BY <1>1, <1>5 DEF ReadRoles, RequestSound, FirstStage
  <2>1. /\ pc[r] = "roles" /\ UNCHANGED <<tables, command, target>>
        /\ \/ pc'[r] = "refused" /\ stage'[r] = stage[r]
           \/ /\ stage[r] = "guard" /\ pc'[r] = "member" /\ stage'[r] = FirstStage(r)
              /\ FirstStage(r) # "guard"
           \/ stage[r] \in {"guard", "serve"} /\ pc'[r] = "acting" /\ stage'[r] = stage[r]
           \/ /\ stage[r] \in {"revoke", "assign"} /\ pc'[r] = "finding"
              /\ stage'[r] = stage[r]
    BY <1>1, <1>5, <2>0 DEF ReadRoles, TypeOK, Stage
  <2>2. command[r] \in Command /\ command[r].op \in {"assign", "revoke", "change", "use"}
    BY <1>1, <2>1, CommandTypes DEF RequestSound
  <2>3. /\ FirstStage(r) = "assign" => command[r].op = "assign"
        /\ FirstStage(r) = "revoke" => command[r].op \in {"revoke", "change"}
        /\ FirstStage(r) = "serve" => command[r].op = "use"
    BY <2>2 DEF FirstStage
  <2>4. QED
    BY <1>1, <2>1, <2>2, <2>3 DEF RequestSound, Stored
<1>6. CASE Act(r)
  <2>1. /\ pc[r] = "acting" /\ pc'[r] \in {"done", "refused"}
        /\ UNCHANGED <<tables, command, stage, target>>
    BY <1>6 DEF Act, TypeOK
  <2>2. QED
    BY <1>1, <2>1 DEF RequestSound, Stored
<1>7. CASE TurnedAway(r) \/ FindForAssignment(r)
  <2>1. /\ pc[r] = "finding" /\ stage[r] = "assign" /\ pc'[r] \in {"refused", "creating"}
        /\ UNCHANGED <<tables, command, stage, target>>
    BY <1>7 DEF TurnedAway, FindForAssignment, TypeOK
  <2>2. QED
    BY <1>1, <2>1 DEF RequestSound, Stored
<1>8. CASE FindForRevocation(r)
  <2>1. /\ pc[r] = "finding" /\ stage[r] = "revoke"
        /\ UNCHANGED <<tables, command, stage>>
        /\ \/ pc'[r] = "refused" /\ target'[r] = target[r]
           \/ pc'[r] = "updating" /\ target'[r] \in Stored
    BY <1>8 DEF FindForRevocation, Existing, Assigned, TypeOK
  <2>2. QED
    BY <1>1, <2>1 DEF RequestSound, Stored
<1>9. CASE Revoke(r)
  <2>1. /\ pc[r] = "updating" /\ pc'[r] = "audit"
        /\ UNCHANGED <<trail, command, stage, target>>
    BY <1>9 DEF Revoke, TypeOK
  <2>2. stage[r] = "revoke" /\ target[r] \in Stored /\ assignments[r] = NoAssignment
    BY <1>1, <2>1 DEF RequestSound
  <2>3. PICK t : t = target[r]
    OBVIOUS
  <2>4. /\ assignments'[t] \in AssignmentRow /\ assignments'[t].status = "REVOKED"
        /\ \A b \in Request : b # t => assignments'[b] = assignments[b]
    BY <1>9, <2>3, Revoked
  <2>5. r # t /\ t \in Stored /\ r \in Request
    BY <2>2, <2>3 DEF Stored
  <2>6. /\ target'[r] \in Stored' /\ assignments'[target'[r]].status = "REVOKED"
        /\ assignments'[r] = NoAssignment /\ r \notin Stored'
    BY <2>1, <2>2, <2>3, <2>4, <2>5 DEF Stored
  <2>7. QED
    BY <1>1, <2>1, <2>2, <2>6 DEF RequestSound
<1>10. CASE Create(r)
  <2>1. /\ pc[r] = "creating" /\ UNCHANGED <<trail, command, stage, target>>
    BY <1>10 DEF Create
  <2>2. stage[r] = "assign"
    BY <1>1, <2>1 DEF RequestSound
  <2>3. CASE assignments' = assignments /\ pc' = [pc EXCEPT ![r] = "refused"]
    <3>1. pc'[r] = "refused"
      BY <2>3 DEF TypeOK
    <3>2. QED
      BY <1>1, <2>1, <2>2, <2>3, <3>1 DEF RequestSound, Stored
  <2>4. CASE assignments'[r] \in AssignmentRow /\ pc' = [pc EXCEPT ![r] = "audit"]
    <3>1. pc'[r] = "audit" /\ r \in Stored'
      BY <2>4 DEF TypeOK, Stored
    <3>2. target[r] \in Stored /\ assignments[target[r]].status = "REVOKED" =>
             target[r] \in Stored' /\ assignments'[target[r]].status = "REVOKED"
      BY Grown
    <3>3. QED
      BY <1>1, <2>1, <2>2, <3>1, <3>2 DEF RequestSound
  <2>5. QED
    BY <1>10, <2>3, <2>4, Created
<1>11. CASE AuditAssigned(r)
  <2>1. /\ pc[r] = "audit" /\ stage[r] = "assign" /\ pc'[r] = "done" /\ trail \subseteq trail'
        /\ UNCHANGED <<assignments, command, stage, target>>
    BY <1>11 DEF AuditAssigned, Append, TypeOK
  <2>2. QED
    BY <1>1, <2>1 DEF RequestSound, Stored
<1>12. CASE AuditRevoked(r)
  <2>1. /\ pc[r] = "audit" /\ stage[r] = "revoke"
        /\ <<"ROLE_REVOKED", target[r]>> \in trail'
        /\ UNCHANGED <<assignments, command, target>>
        /\ \/ command[r].op = "change" /\ pc'[r] = "member" /\ stage'[r] = "assign"
           \/ command[r].op # "change" /\ pc'[r] = "done" /\ stage'[r] = "revoke"
    BY <1>12 DEF AuditRevoked, Append, TypeOK
  <2>2. command[r] \in Command /\ assignments[r] = NoAssignment
    BY <1>1, <2>1 DEF RequestSound
  <2>3. QED
    BY <1>1, <2>1, <2>2 DEF RequestSound, Stored
<1>13. CASE Crash(r)
  <2>1. /\ pc[r] \in Step /\ pc'[r] = "crashed"
        /\ UNCHANGED <<tables, command, stage, target>>
    BY <1>13 DEF Crash, TypeOK
  <2>2. QED
    BY <1>1, <2>1 DEF RequestSound, Stored
<1>14. QED
  BY <1>2, <1>3, <1>4, <1>5, <1>6, <1>7, <1>8, <1>9, <1>10, <1>11, <1>12, <1>13
     DEF RequestStep, Check

LEMMA SoundStep ==
    ASSUME TypeOK, RequestInv, Next
    PROVE  RequestInv'
<1>1. ASSUME NEW r \in Request, RequestStep(r) PROVE RequestInv'
  BY <1>1, OthersSound, OwnSound DEF RequestInv
<1>2. ASSUME NEW m \in Member, UpdateMember(m) \/ LeaveGroup(m) PROVE RequestInv'
  BY <1>2 DEF UpdateMember, LeaveGroup, RequestInv, RequestSound, Unassigned, Stored
<1>3. QED
  BY <1>1, <1>2 DEF Next

-----------------------------------------------------------------------------
(* One ACTIVE assignment of a role, and the order of a change.             *)

LEMMA OneActiveStep ==
    ASSUME TypeOK, RequestInv, OneActiveAssignment, Next
    PROVE  OneActiveAssignment'
<1>1. ASSUME NEW r \in Request, Create(r) PROVE OneActiveAssignment'
  <2>1. CASE assignments' = assignments
    BY <2>1 DEF OneActiveAssignment, Stored
  <2>2. CASE assignments' # assignments
    <3>1. /\ \A a \in Stored : ~(/\ assignments[a].group = command[r].group
                                /\ assignments[a].user = command[r].user
                                /\ assignments[a].status = "ACTIVE"
                                /\ assignments[a].role = command[r].role)
          /\ assignments[r] = NoAssignment
          /\ assignments'[r].group = command[r].group
          /\ assignments'[r].user = command[r].user
          /\ assignments'[r].role = command[r].role
          /\ \A b \in Request : b # r => assignments'[b] = assignments[b]
      BY <1>1, <2>2, Created DEF IndexFree, Existing, Assigned
    <3>2. QED
      BY <3>1 DEF OneActiveAssignment, Stored
  <2>3. QED
    BY <2>1, <2>2
<1>2. ASSUME NEW r \in Request, Revoke(r) PROVE OneActiveAssignment'
  <2>1. PICK t : t = target[r]
    OBVIOUS
  <2>2. /\ assignments'[t].status = "REVOKED"
        /\ \A b \in Request : b # t => assignments'[b] = assignments[b]
    BY <1>2, <2>1, Revoked
  <2>3. QED
    BY <2>2 DEF OneActiveAssignment, Stored
<1>3. ASSUME assignments' = assignments PROVE OneActiveAssignment'
  BY <1>3 DEF OneActiveAssignment, Stored
<1>4. QED
  BY <1>1, <1>2, <1>3
     DEF Next, RequestStep, Check, Arrive, ReadMember, ReadFallback, ReadRoles, Act, TurnedAway,
         FindForRevocation, FindForAssignment, AuditAssigned, AuditRevoked, Crash, tables,
         UpdateMember, LeaveGroup

LEMMA ChangeStep ==
    ASSUME TypeOK, RequestInv, ChangeRevokesFirst, NEW r \in Request, RequestStep(r)
    PROVE  ChangeRevokesFirst'
<1> USE DEF Goto, Leave
<1>1. RequestInv'
  <2>1. QED
    BY OthersSound, OwnSound DEF RequestInv
<1>2. /\ trail \subseteq trail' /\ Stored \subseteq Stored'
      /\ \A a \in Stored :
            assignments[a].status = "REVOKED" => assignments'[a].status = "REVOKED"
      /\ \A a \in Stored' : a \in Stored \/ (a = r /\ Create(r))
  BY Grown
<1>3. ASSUME NEW row \in trail'
      PROVE  row[2] \in Stored' /\ (row[1] = "ROLE_REVOKED" => assignments'[row[2]].status = "REVOKED")
  <2>1. CASE row \in trail
    BY <1>2, <2>1 DEF ChangeRevokesFirst
  <2>2. CASE AuditAssigned(r) /\ row \notin trail
    <3>1. row = <<"ROLE_ASSIGNED", r>> /\ r \in Stored
      BY <2>2 DEF AuditAssigned, Append, RequestInv, RequestSound
    <3>2. QED
      BY <1>2, <3>1
  <2>3. CASE AuditRevoked(r) /\ row \notin trail
    <3>1. /\ row = <<"ROLE_REVOKED", target[r]>> /\ target[r] \in Stored
          /\ assignments[target[r]].status = "REVOKED"
      BY <2>3 DEF AuditRevoked, Append, RequestInv, RequestSound
    <3>2. QED
      BY <1>2, <3>1
  <2>4. CASE ~AuditAssigned(r) /\ ~AuditRevoked(r)
    <3>1. trail' = trail
      BY <2>4 DEF RequestStep, Check, Arrive, ReadMember, ReadFallback, ReadRoles, Act, TurnedAway,
                  FindForRevocation, FindForAssignment, Revoke, Create, Crash, tables
    <3>2. QED
      BY <2>1, <3>1
  <2>5. QED
    BY <2>1, <2>2, <2>3, <2>4
<1>4. ASSUME NEW a \in Stored'
      PROVE  <<"ROLE_ASSIGNED", a>> \in trail' \/ pc'[a] \in {"audit", "crashed"}
  <2>1. a \in Request
    BY DEF Stored
  <2>2. CASE a \in Stored /\ a # r
    <3>1. pc'[a] = pc[a]
      BY <2>1, <2>2, Alone
    <3>2. <<"ROLE_ASSIGNED", a>> \in trail \/ pc[a] \in {"audit", "crashed"}
      BY <2>2 DEF ChangeRevokesFirst
    <3>3. QED
      BY <1>2, <3>1, <3>2
  <2>3. CASE a \in Stored /\ a = r
    <3>1. CASE <<"ROLE_ASSIGNED", r>> \in trail
      BY <1>2, <2>3, <3>1
    <3>2. CASE pc[r] \in {"audit", "crashed"}
      <4>1. ~Unassigned(r)
        BY <2>3 DEF RequestInv, RequestSound, Stored
      <4>2. AuditAssigned(r) \/ Crash(r)
        BY <3>2, <4>1 DEF RequestStep, Check, Arrive, ReadMember, ReadFallback, ReadRoles, Act,
              TurnedAway, FindForRevocation, FindForAssignment, Revoke, Create, AuditRevoked,
              Unassigned, Step
      <4>3. QED
        BY <2>3, <4>2 DEF AuditAssigned, Append, Crash, TypeOK
    <3>3. QED
      BY <2>3, <3>1, <3>2 DEF ChangeRevokesFirst
  <2>4. CASE a \notin Stored
    BY <1>2, <2>4, Created DEF Stored, TypeOK
  <2>5. QED
    BY <2>2, <2>3, <2>4
<1>5. ASSUME NEW a \in Stored', assignments'[a].status = "REVOKED"
      PROVE  \/ <<"ROLE_REVOKED", a>> \in trail'
             \/ \E q \in Request : target'[q] = a /\ pc'[q] \in {"audit", "crashed"}
  <2>1. CASE a \in Stored /\ assignments[a].status = "REVOKED"
    <3>1. CASE <<"ROLE_REVOKED", a>> \in trail
      BY <1>2, <3>1
    <3>2. CASE \E q \in Request : target[q] = a /\ pc[q] \in {"audit", "crashed"}
      <4>1. PICK q \in Request : target[q] = a /\ pc[q] \in {"audit", "crashed"}
        BY <3>2
      <4>2. CASE q # r
        BY <4>1, <4>2, Alone
      <4>3. CASE q = r /\ AuditRevoked(r)
        BY <4>1, <4>3 DEF AuditRevoked, Append
      <4>4. CASE q = r /\ AuditAssigned(r)
        <5>1. <<"ROLE_REVOKED", target[r]>> \in trail \/ target[r] = NoAssignment
          BY <4>4 DEF AuditAssigned, RequestInv, RequestSound
        <5>2. target[r] # NoAssignment
          BY <2>1, <4>1, <4>4 DEF Stored
        <5>3. QED
          BY <1>2, <4>1, <4>4, <5>1, <5>2
      <4>5. CASE q = r /\ Crash(r)
        BY <4>1, <4>5 DEF Crash, TypeOK
      <4>6. QED
        BY <4>1, <4>2, <4>3, <4>4, <4>5
           DEF RequestStep, Check, Arrive, ReadMember, ReadFallback, ReadRoles, Act, TurnedAway,
               FindForRevocation, FindForAssignment, Revoke, Create
    <3>3. QED
      BY <2>1, <3>1, <3>2 DEF ChangeRevokesFirst
  <2>2. CASE a \in Stored /\ assignments[a].status # "REVOKED"
    <3>1. assignments'[a] # assignments[a] /\ a \in Request
      BY <1>5, <2>2 DEF Stored
    <3>2. Revoke(r)
      <4>1. CASE Create(r)
        BY <2>2, <3>1, <4>1, Created DEF Stored
      <4>2. QED
        BY <3>1, <4>1
           DEF RequestStep, Check, Arrive, ReadMember, ReadFallback, ReadRoles, Act, TurnedAway,
               FindForRevocation, FindForAssignment, AuditAssigned, AuditRevoked, Crash, tables
    <3>3. target'[r] = a /\ pc'[r] = "audit"
      <4>1. PICK t : t = target[r]
        OBVIOUS
      <4>2. a = t
        BY <3>1, <3>2, <4>1, Revoked
      <4>3. QED
        BY <3>2, <4>1, <4>2 DEF Revoke, TypeOK
    <3>4. QED
      BY <3>3
  <2>3. CASE a \notin Stored
    <3>1. a = r /\ Create(r) /\ a \in Request
      BY <1>2, <2>3 DEF Stored
    <3>2. assignments'[a] # assignments[a]
      BY <2>3, <3>1 DEF Stored
    <3>3. assignments'[r].status = "ACTIVE"
      BY <3>1, <3>2, Created
    <3>4. QED
      BY <1>5, <3>1, <3>3
  <2>4. QED
    BY <2>1, <2>2, <2>3
<1>6. ASSUME NEW a \in Stored', command'[a].op = "change"
      PROVE  /\ target'[a] # NoAssignment /\ assignments'[target'[a]].status = "REVOKED"
             /\ <<"ROLE_REVOKED", target'[a]>> \in trail'
  <2>1. a \in Request /\ RequestSound(a)'
    BY <1>1 DEF RequestInv, Stored
  <2>2. stage'[a] = "assign"
    BY <2>1 DEF RequestSound
  <2>3. /\ target'[a] \in Stored' /\ assignments'[target'[a]].status = "REVOKED"
        /\ <<"ROLE_REVOKED", target'[a]>> \in trail'
    BY <1>6, <2>1, <2>2 DEF RequestSound
  <2>4. QED
    BY <2>3 DEF Stored
<1>7. QED
  BY <1>3, <1>4, <1>5, <1>6 DEF ChangeRevokesFirst

-----------------------------------------------------------------------------
(* What a request was entitled to.                                         *)

Mine(r, m) ==
    /\ Profile[m].group = command[r].group
    /\ Profile[m].user = command[r].by.actor \/ m = command[r].by.actorMember

Entitled(r) ==
    /\ pc[r] \in Step => Case(r) \subseteq moments[r]
    /\ pc[r] = "roles" =>
          /\ "member" \in moments[r]
          /\ \E m \in Member : Mine(r, m) /\ found[r].user = Profile[m].user
          /\ Allowed(r, found[r].roles) => "right" \in moments[r]
    /\ pc[r] \in {"finding", "updating", "creating", "acting"} =>
          {"member", "right"} \subseteq moments[r]

EntitledInv == \A r \in Request : Entitled(r)

LEMMA AllowedUnion ==
    ASSUME NEW r \in Request, NEW X, NEW Y
    PROVE  Allowed(r, X \cup Y) <=> Allowed(r, X) \/ Allowed(r, Y)
BY DEF Allowed, RequireRoleChangePermission, RequirePermission

\* The case of a request is made by each of its actor's memberships.
LEMMA CaseOf ==
    ASSUME NEW r \in Request, NEW m \in Member, Mine(r, m)
    PROVE  /\ members[m].status = "ACTIVE" => "member" \in Case(r)
           /\ Allowed(r, OwnRoles(m)) => "right" \in Case(r)
           /\ Allowed(r, AssignedRoles(command[r].group, Profile[m].user)) => "right" \in Case(r)
<1>1. Allowed(r, OwnRoles(m)) \/ Allowed(r, AssignedRoles(command[r].group, Profile[m].user)) =>
         Allowed(r, OwnRoles(m) \cup AssignedRoles(command[r].group, Profile[m].user))
  BY AllowedUnion
<1>2. QED
  BY <1>1 DEF Case, Mine

LEMMA SameCase ==
    ASSUME NEW r \in Request, UNCHANGED <<members, assignments>>,
           command'[r] = command[r], stage'[r] = stage[r]
    PROVE  Case(r)' = Case(r)
<1>1. \A g, u : AssignedRoles(g, u)' = AssignedRoles(g, u)
  BY DEF AssignedRoles, Assigned, Stored
<1>2. \A m : OwnRoles(m)' = OwnRoles(m)
  BY DEF OwnRoles
<1>3. \A X : Allowed(r, X)' <=> Allowed(r, X)
  BY DEF Allowed
<1>4. QED
  BY <1>1, <1>2, <1>3 DEF Case

LEMMA Remembered ==
    ASSUME TypeOK, Next, NEW r \in Request, pc'[r] \in Step
    PROVE  /\ Case(r)' \subseteq moments'[r]
           /\ stage'[r] = stage[r] /\ pc[r] # "idle" => moments[r] \subseteq moments'[r]
<1>1. moments'[r] = (IF stage'[r] # stage[r] \/ pc[r] = "idle" THEN {} ELSE moments[r]) \cup Case(r)'
  BY DEF Next, Remember
<1>2. QED
  BY <1>1

LEMMA EntitledStep ==
    ASSUME TypeOK, RequestInv, EntitledInv, Next
    PROVE  EntitledInv'
<1> USE DEF Goto, GotoStage, Leave, tables
<1> SUFFICES ASSUME NEW q \in Request PROVE Entitled(q)'
  BY DEF EntitledInv
<1>1. Entitled(q)
  BY DEF EntitledInv
<1>2. pc'[q] \in Step => Case(q)' \subseteq moments'[q]
  BY Remembered
<1>3. ASSUME pc'[q] = pc[q], stage'[q] = stage[q], command'[q] = command[q], found'[q] = found[q]
      PROVE  Entitled(q)'
  <2>1. pc[q] \in Step => moments[q] \subseteq moments'[q]
    BY <1>3, Remembered DEF Step
  <2>2. Allowed(q, found[q].roles)' <=> Allowed(q, found[q].roles)
    BY <1>3 DEF Allowed
  <2>3. \A m : Mine(q, m)' <=> Mine(q, m)
    BY <1>3 DEF Mine
  <2>4. pc[q] = "roles" => /\ "member" \in moments'[q]
                           /\ \E m \in Member : Mine(q, m)' /\ found'[q].user = Profile[m].user
                           /\ Allowed(q, found[q].roles)' => "right" \in moments'[q]
    BY <1>1, <1>3, <2>1, <2>2, <2>3 DEF Entitled, Step
  <2>5. pc[q] \in {"finding", "updating", "creating", "acting"} =>
           {"member", "right"} \subseteq moments'[q]
    BY <1>1, <2>1 DEF Entitled, Step
  <2>6. QED
    BY <1>2, <1>3, <2>4, <2>5 DEF Entitled
<1>4. ASSUME NEW m \in Member, UpdateMember(m) \/ LeaveGroup(m) PROVE Entitled(q)'
  BY <1>3, <1>4 DEF UpdateMember, LeaveGroup
<1>5. ASSUME NEW r \in Request, RequestStep(r), r # q PROVE Entitled(q)'
  BY <1>3, <1>5, Alone
<1>6. ASSUME NEW m \in Member, Mine(q, m), members[m].status = "ACTIVE", Reads(q, m),
             UNCHANGED <<tables, command, stage>>, pc[q] \in {"member", "fallback"}
      PROVE  Entitled(q)'
  <2>1. /\ found'[q].roles = OwnRoles(m) /\ found'[q].user = Profile[m].user
        /\ pc'[q] = "roles"
    BY <1>6 DEF Reads, TypeOK
  <2>2. Case(q) \subseteq moments'[q]
    BY <1>2, <1>6, <2>1, SameCase DEF Step
  <2>3. "member" \in moments'[q] /\ (Allowed(q, OwnRoles(m)) => "right" \in moments'[q])
    BY <1>6, <2>2, CaseOf
  <2>4. Mine(q, m)' <=> Mine(q, m)
    BY <1>6 DEF Mine
  <2>5. Allowed(q, found[q].roles)' <=> Allowed(q, OwnRoles(m))
    BY <1>6, <2>1 DEF Allowed
  <2>6. QED
    BY <1>2, <1>6, <2>1, <2>3, <2>4, <2>5 DEF Entitled
<1>7. CASE ReadMember(q)
  <2>1. \/ \E m \in Member : Mine(q, m) /\ members[m].status = "ACTIVE" /\ Reads(q, m)
        \/ pc'[q] \in {"refused", "fallback"}
    BY <1>7 DEF ReadMember, Mine, TypeOK
  <2>2. UNCHANGED <<tables, command, stage>> /\ pc[q] = "member"
    BY <1>7 DEF ReadMember
  <2>3. QED
    BY <1>2, <1>6, <2>1, <2>2 DEF Entitled
<1>8. CASE ReadFallback(q)
  <2>1. /\ UNCHANGED <<tables, command, stage>> /\ pc[q] = "fallback"
        /\ command[q].by.actorMember \in Member
    BY <1>8, CommandTypes DEF ReadFallback, RequestInv, RequestSound, Actor
  <2>2. PICK m \in Member : m = command[q].by.actorMember
    BY <2>1
  <2>3. \/ Mine(q, m) /\ members[m].status = "ACTIVE" /\ Reads(q, m)
        \/ pc'[q] = "refused"
    BY <1>8, <2>2 DEF ReadFallback, Mine, TypeOK
  <2>4. QED
    BY <1>2, <1>6, <2>1, <2>3 DEF Entitled
<1>9. CASE ReadRoles(q)
  <2>1. pc[q] = "roles"
    BY <1>9 DEF ReadRoles
  <2>2. PICK m \in Member : Mine(q, m) /\ found[q].user = Profile[m].user
    BY <1>1, <2>1 DEF Entitled
  <2>3. \/ pc'[q] \in {"refused", "member"}
        \/ /\ pc'[q] \in {"acting", "finding"} /\ stage'[q] = stage[q]
           /\ Allowed(q, found[q].roles \cup AssignedRoles(command[q].group, found[q].user))
    BY <1>9 DEF ReadRoles, TypeOK
  <2>4. CASE pc'[q] \in {"acting", "finding"} /\ stage'[q] = stage[q]
             /\ Allowed(q, found[q].roles \cup AssignedRoles(command[q].group, found[q].user))
    <3>1. moments[q] \subseteq moments'[q]
      BY <2>1, <2>4, Remembered DEF Step
    <3>2. \/ Allowed(q, found[q].roles)
          \/ Allowed(q, AssignedRoles(command[q].group, Profile[m].user))
      BY <2>2, <2>4, AllowedUnion
    <3>3. Case(q) \subseteq moments[q] /\ "member" \in moments[q]
      BY <1>1, <2>1 DEF Entitled, Step
    <3>4. "right" \in moments[q]
      BY <1>1, <2>1, <2>2, <3>2, <3>3, CaseOf DEF Entitled
    <3>5. QED
      BY <1>2, <2>4, <3>1, <3>3, <3>4 DEF Entitled
  <2>5. QED
    BY <1>2, <2>3, <2>4 DEF Entitled
<1>10. ASSUME pc[q] = "finding", pc'[q] \in {"refused", "updating", "creating"}, stage'[q] = stage[q]
       PROVE  Entitled(q)'
  <2>1. pc'[q] \in Step => moments[q] \subseteq moments'[q]
    BY <1>10, Remembered
  <2>2. QED
    BY <1>1, <1>2, <1>10, <2>1 DEF Entitled, Step
<1>11. CASE TurnedAway(q) \/ FindForAssignment(q) \/ FindForRevocation(q)
  BY <1>10, <1>11 DEF TurnedAway, FindForAssignment, FindForRevocation, TypeOK
<1>12. CASE Arrive(q) \/ Act(q) \/ Revoke(q) \/ Create(q) \/ AuditAssigned(q) \/ AuditRevoked(q)
            \/ Crash(q)
  <2>1. pc'[q] \in {"member", "done", "audit", "refused", "crashed"}
    BY <1>12 DEF Arrive, Act, Revoke, Create, AuditAssigned, AuditRevoked, Crash, TypeOK
  <2>2. QED
    BY <1>2, <2>1 DEF Entitled
<1>13. QED
  BY <1>4, <1>5, <1>7, <1>8, <1>9, <1>11, <1>12 DEF Next, RequestStep, Check

-----------------------------------------------------------------------------
RoleInv == TypeOK /\ RequestInv /\ OneActiveAssignment /\ ChangeRevokesFirst /\ EntitledInv

LEMMA RoleInit == Init => RoleInv
<1> SUFFICES ASSUME Init PROVE RoleInv
  OBVIOUS
<1>1. TypeOK
  BY DEF Init, TypeOK, Stage, Nobody, Found
<1>2. Stored = {}
  BY DEF Init, Stored
<1>3. RequestInv
  BY <1>2 DEF Init, RequestInv, RequestSound, Step
<1>4. OneActiveAssignment /\ ChangeRevokesFirst
  BY <1>2 DEF Init, OneActiveAssignment, ChangeRevokesFirst
<1>5. EntitledInv
  BY DEF Init, EntitledInv, Entitled, Step
<1>6. QED
  BY <1>1, <1>3, <1>4, <1>5 DEF RoleInv

LEMMA RoleStep == RoleInv /\ [Next]_vars => RoleInv'
<1> SUFFICES ASSUME RoleInv, [Next]_vars PROVE RoleInv'
  OBVIOUS
<1>1. CASE Next
  <2>1. TypeOK' /\ RequestInv' /\ OneActiveAssignment' /\ EntitledInv'
    BY <1>1, TypeStep, SoundStep, OneActiveStep, EntitledStep DEF RoleInv
  <2>2. ChangeRevokesFirst'
    <3>1. ASSUME NEW r \in Request, RequestStep(r) PROVE ChangeRevokesFirst'
      BY <3>1, ChangeStep DEF RoleInv
    <3>2. ASSUME NEW m \in Member, UpdateMember(m) \/ LeaveGroup(m) PROVE ChangeRevokesFirst'
      BY <3>2 DEF RoleInv, UpdateMember, LeaveGroup, ChangeRevokesFirst, Stored
    <3>3. QED
      BY <1>1, <3>1, <3>2 DEF Next
  <2>3. QED
    BY <2>1, <2>2 DEF RoleInv
<1>2. CASE UNCHANGED vars
  <2>1. TypeOK'
    BY <1>2 DEF RoleInv, TypeOK, vars, tables
  <2>2. RequestInv'
    BY <1>2 DEF RoleInv, RequestInv, RequestSound, Unassigned, Stored, vars, tables
  <2>3. OneActiveAssignment' /\ ChangeRevokesFirst'
    BY <1>2 DEF RoleInv, OneActiveAssignment, ChangeRevokesFirst, Stored, vars, tables
  <2>4. EntitledInv'
    <3>1. ASSUME NEW r \in Request PROVE Case(r)' = Case(r)
      BY <1>2, SameCase DEF vars, tables
    <3>2. QED
      BY <1>2, <3>1 DEF RoleInv, EntitledInv, Entitled, Mine, Allowed, vars, tables
  <2>5. QED
    BY <2>1, <2>2, <2>3, <2>4 DEF RoleInv
<1>3. QED
  BY <1>1, <1>2

THEOREM Invariance == Spec => []RoleInv
BY RoleInit, RoleStep, PTL DEF Spec

\* The tables and the requests keep their types.
THEOREM RoleTypes == Spec => []TypeOK
<1>1. RoleInv => TypeOK
  BY DEF RoleInv
<1>2. QED
  BY <1>1, Invariance, PTL

\* A user holds a role of a group by at most one ACTIVE assignment, however the
\* requests that look before they insert overlap: the partial unique index of
\* the migration decides (role-assignment.service.ts,
\* 20250301120000_role_assignment).
THEOREM OneActive == Spec => []OneActiveAssignment
<1>1. RoleInv => OneActiveAssignment
  BY DEF RoleInv
<1>2. QED
  BY <1>1, Invariance, PTL

\* A change withdraws and audits the old role before it creates the new one, and
\* what is not audited is still to be or died with its request.
THEOREM ChangesRevokeFirst == Spec => []ChangeRevokesFirst
<1>1. RoleInv => ChangeRevokesFirst
  BY DEF RoleInv
<1>2. QED
  BY <1>1, Invariance, PTL

\* Whoever gets to a protected statement was a member, and held the permission,
\* at some moment since its last check began, while members and assignments
\* change under the check (rbac.service.ts).
THEOREM ServedWereEntitled == Spec => []EntitledWhileServed
<1>1. RoleInv => EntitledWhileServed
  <2> SUFFICES ASSUME RoleInv, NEW r \in Request, pc[r] \in {"acting", "updating", "creating"}
               PROVE  moments[r] = {"member", "right"}
    BY DEF EntitledWhileServed
  <2>1. {"member", "right"} \subseteq moments[r]
    BY DEF RoleInv, EntitledInv, Entitled
  <2>2. moments[r] \in SUBSET {"member", "right"}
    BY DEF RoleInv, TypeOK
  <2>3. QED
    BY <2>1, <2>2
<1>2. QED
  BY <1>1, Invariance, PTL
=============================================================================
