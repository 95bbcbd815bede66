--------------------------- MODULE RoleAssignments ---------------------------
(***************************************************************************)
(* RoleAssignmentService (backend/src/role-assignment) and the checks of   *)
(* RbacService that stand before it and before every other guarded         *)
(* operation, while members are updated and leave (MemberService).         *)
(* One action per awaited statement: a check reads the actor's membership, *)
(* then its assignments, and the statement it protects runs later still.   *)
(* An assignment's id is the request that created it.  The audit rows of   *)
(* MemberService, one per update, are left out.                            *)
(***************************************************************************)
EXTENDS Permissions, Naturals, FiniteSets, TLC

CONSTANTS
    Group, User,
    Member,         \* rows of the table Member
    Profile,        \* Profile[m]: what never changes of member m
    PlatformAdmin,  \* users whose platformRole is PLATFORM_ADMIN
    Request,        \* the HTTP requests of one behaviour
    Instruction,    \* what they may ask for
    MaxInFlight,    \* bound: requests being served at the same time
    Edited,         \* bound: the members that are updated or leave meanwhile
    NoUser, NoMember, NoGroupRole, NoAssignment, NoCommand

ASSUME NoNames ==
    NoUser \notin User /\ NoMember \notin Member /\ NoAssignment \notin Request

ProfileType ==
    [group : Group, user : User \cup {NoUser}, groupRole : GroupRole \cup {NoGroupRole}]

Actor == [actor : User, actorMember : Member \cup {NoMember}]

AssignRoleInput == [op : {"assign"}, group : Group, user : User, role : GroupRole, by : Actor]
RevokeRoleInput == [op : {"revoke"}, group : Group, user : User, role : GroupRole, by : Actor]
ChangeRoleInput ==
    [op : {"change"}, group : Group, user : User, from : GroupRole, role : GroupRole, by : Actor]
\* Any other operation behind the guard.
GuardedInput == [op : {"use"}, group : Group, route : GuardedRoute, by : Actor]
Command == AssignRoleInput \cup RevokeRoleInput \cup ChangeRoleInput \cup GuardedInput

AssignmentRow ==
    [group : Group, user : User, role : GroupRole, status : {"ACTIVE", "REVOKED"},
     createdBy : User, revokedBy : User \cup {NoUser}]

ASSUME RoleAssignmentsAssumption ==
    /\ Profile \in [Member -> ProfileType]
    /\ PlatformAdmin \subseteq User
    /\ Instruction \subseteq Command
    /\ MaxInFlight \in Nat /\ Edited \subseteq Member
    /\ NoAssignment \notin AssignmentRow
    /\ NoCommand \notin Command

VARIABLES
    members,        \* the table Member: role and status
    assignments,    \* the table RoleAssignment
    trail,          \* ROLE_ASSIGNED and ROLE_REVOKED rows: <<action, entity>>
    pc, command,
    stage,          \* stage[r]: the check r is in, or the last one it passed
    found,          \* found[r]: the roles and the user that the check read
    target,         \* target[r]: the assignment that r revokes
    moments         \* history: what held at some moment since r's stage began

tables == <<members, assignments, trail>>
vars == <<tables, pc, command, stage, found, target, moments>>

Stage == {"guard", "revoke", "assign", "serve"}
Step == {"member", "fallback", "roles", "finding", "updating", "creating", "acting", "audit"}
Finished == {"done", "refused", "crashed"}
InFlight == {r \in Request : pc[r] \in Step}

Found == [roles : SUBSET UserRole, user : User \cup {NoUser}]
Nobody == [roles |-> {}, user |-> NoUser]

TypeOK ==
    /\ members \in [Member -> [role : {"ADMIN", "MEMBER"}, status : {"ACTIVE", "LEFT"}]]
    /\ assignments \in [Request -> AssignmentRow \cup {NoAssignment}]
    /\ trail \in SUBSET ({"ROLE_ASSIGNED", "ROLE_REVOKED"} \X Request)
    /\ pc \in [Request -> {"idle"} \cup Step \cup Finished]
    /\ command \in [Request -> Command \cup {NoCommand}]
    /\ stage \in [Request -> Stage]
    /\ found \in [Request -> Found]
    /\ target \in [Request -> Request \cup {NoAssignment}]
    /\ moments \in [Request -> SUBSET {"member", "right"}]

Init ==
    /\ members \in [Member -> [role : {"ADMIN", "MEMBER"}, status : {"ACTIVE"}]]
    /\ \A m \in Member : Profile[m].groupRole # NoGroupRole => members[m].role = "MEMBER"
    /\ assignments = [r \in Request |-> NoAssignment]
    /\ trail = {}
    /\ pc = [r \in Request |-> "idle"]
    /\ command = [r \in Request |-> NoCommand]
    /\ stage = [r \in Request |-> "guard"]
    /\ found = [r \in Request |-> Nobody]
    /\ target = [r \in Request |-> NoAssignment]
    /\ moments = [r \in Request |-> {}]
-----------------------------------------------------------------------------
Stored == {a \in Request : assignments[a] # NoAssignment}

\* The ACTIVE assignments of user u in group g.
Assigned(g, u) ==
    {a \in Stored : /\ assignments[a].group = g /\ assignments[a].user = u
                    /\ assignments[a].status = "ACTIVE"}

\* findFirst of the services.
Existing(g, u, role) == {a \in Assigned(g, u) : assignments[a].role = role}

\* The roles that a member row gives.
OwnRoles(m) ==
    (IF Profile[m].user \in PlatformAdmin THEN {"PLATFORM_ADMIN"} ELSE {})
    \cup {IF Profile[m].groupRole # NoGroupRole THEN Profile[m].groupRole
          ELSE MemberRoleToUserRole(members[m].role)}

AssignedRoles(g, u) == {assignments[a].role : a \in Assigned(g, u)}

RequireRoleChangePermission(roles) == roles \cap {"GROUP_CHAIR", "PLATFORM_ADMIN"} # {}

RequirePermission(roles, permission) ==
    \E role \in roles : RoleHasPermission(role, permission)

\* What the check of the request's stage asks of the roles.
Allowed(r, roles) ==
    IF stage[r] \in {"revoke", "assign"} THEN RequireRoleChangePermission(roles)
    ELSE RequirePermission(roles, IF command[r].op = "use" THEN command[r].route.permission
                                  ELSE "GROUP_MANAGE_ROLES")

\* What is the case of the actor of r, of whichever of its memberships.
Case(r) ==
    LET c == command[r]
        mine == {m \in Member : /\ Profile[m].group = c.group
                                /\ Profile[m].user = c.by.actor \/ m = c.by.actorMember}
    IN  (IF \E m \in mine : members[m].status = "ACTIVE" THEN {"member"} ELSE {})
        \cup (IF \E m \in mine :
                    Allowed(r, OwnRoles(m) \cup AssignedRoles(c.group, Profile[m].user))
              THEN {"right"} ELSE {})

\* History: a stage starts afresh; a request that has ended is forgotten.
Remember ==
    moments' = [r \in Request |->
        IF pc'[r] \notin Step THEN {}
        ELSE (IF stage'[r] # stage[r] \/ pc[r] = "idle" THEN {} ELSE moments[r]) \cup Case(r)']

Goto(r, step) == pc' = [pc EXCEPT ![r] = step]
GotoStage(r, s) == stage' = [stage EXCEPT ![r] = s]
Leave(r, how) == Goto(r, how) /\ found' = [found EXCEPT ![r] = Nobody]

Arrive(r) ==
    /\ pc[r] = "idle"
    /\ Cardinality(InFlight) < MaxInFlight
    /\ \E c \in Instruction : command' = [command EXCEPT ![r] = c]
    /\ Goto(r, "member")
    /\ UNCHANGED <<tables, stage, found, target>>

Reads(r, m) ==
    /\ found' = [found EXCEPT ![r] = [roles |-> OwnRoles(m), user |-> Profile[m].user]]
    /\ Goto(r, "roles")

\* A service that asks again may ask for less than the guard was given: not for
\* the member that the request names, or for nobody at all.
AsksFor(r) ==
    IF stage[r] # "serve" \/ command[r].route.again = "member" THEN {"user", "member"}
    ELSE {command[r].route.again}

\* The ACTIVE membership of the acting user in the group.
ReadMember(r) ==
    /\ pc[r] = "member"
    /\ LET c == command[r]
           mine == {m \in Member : /\ Profile[m].group = c.group
                                   /\ Profile[m].user = c.by.actor
                                   /\ members[m].status = "ACTIVE"}
       IN  IF "user" \in AsksFor(r) /\ mine # {} THEN \E m \in mine : Reads(r, m)
           ELSE /\ Goto(r, IF "member" \in AsksFor(r) /\ c.by.actorMember # NoMember
                           THEN "fallback" ELSE "refused")
                /\ UNCHANGED found
    /\ UNCHANGED <<tables, command, stage, target>>

\* None: the member that the request names.
ReadFallback(r) ==
    /\ pc[r] = "fallback"
    /\ LET m == command[r].by.actorMember
       IN  IF Profile[m].group = command[r].group /\ members[m].status = "ACTIVE"
           THEN Reads(r, m) ELSE Leave(r, "refused")
    /\ UNCHANGED <<tables, command, stage, target>>

\* Defect: a change assigns first.
FirstStageSwapped(r) ==
    CASE command[r].op = "use" -> IF command[r].route.again = "never" THEN "guard" ELSE "serve"
      [] command[r].op = "revoke" -> "revoke"
      [] OTHER -> "assign"

\* The service's own check that follows the guard, where there is one.
FirstStage(r) ==
    CASE command[r].op = "use" -> IF command[r].route.again = "never" THEN "guard" ELSE "serve"
      [] command[r].op = "assign" -> "assign"
      [] OTHER -> "revoke"

\* Defect: the service trusts the guard.
ReadRolesOnce(r) ==
    /\ pc[r] = "roles"
    /\ LET roles == found[r].roles \cup AssignedRoles(command[r].group, found[r].user)
       IN  IF ~Allowed(r, roles) THEN Leave(r, "refused") /\ UNCHANGED stage
           ELSE /\ found' = [found EXCEPT ![r] = Nobody]
                /\ Goto(r, IF command[r].op = "use" THEN "acting" ELSE "finding")
                /\ GotoStage(r, FirstStage(r))
    /\ UNCHANGED <<tables, command, target>>

\* Its assignments; the check passes or throws, the next stage begins.
ReadRoles(r) ==
    /\ pc[r] = "roles"
    /\ LET roles == found[r].roles \cup AssignedRoles(command[r].group, found[r].user)
       IN  IF ~Allowed(r, roles) THEN Leave(r, "refused") /\ UNCHANGED stage
           ELSE /\ found' = [found EXCEPT ![r] = Nobody]
                /\ IF stage[r] = "guard" /\ FirstStage(r) # "guard"
                   THEN Goto(r, "member") /\ GotoStage(r, FirstStage(r))
                   ELSE /\ Goto(r, IF command[r].op = "use" THEN "acting" ELSE "finding")
                        /\ UNCHANGED stage
    /\ UNCHANGED <<tables, command, target>>

\* Write-offs throw once the permission is checked.
NotImplemented == {LoanRoute.recordWriteOff}

\* The guarded operation does its work.
Act(r) ==
    /\ pc[r] = "acting"
    /\ Goto(r, IF command[r].route \in NotImplemented THEN "refused" ELSE "done")
    /\ UNCHANGED <<tables, command, stage, found, target>>

\* assign finds no such group or user.
TurnedAway(r) ==
    /\ pc[r] = "finding" /\ stage[r] = "assign"
    /\ Goto(r, "refused")
    /\ UNCHANGED <<tables, command, stage, found, target>>

FindForRevocation(r) ==
    /\ pc[r] = "finding" /\ stage[r] = "revoke"
    /\ LET c == command[r]
           existing == Existing(c.group, c.user, IF c.op = "change" THEN c.from ELSE c.role)
       IN  IF existing = {} THEN Goto(r, "refused") /\ UNCHANGED target
           ELSE \E a \in existing :
                    target' = [target EXCEPT ![r] = a] /\ Goto(r, "updating")
    /\ UNCHANGED <<tables, command, stage, found>>

FindForAssignment(r) ==
    /\ pc[r] = "finding" /\ stage[r] = "assign"
    /\ Goto(r, IF Existing(command[r].group, command[r].user, command[r].role) = {}
               THEN "creating" ELSE "refused")
    /\ UNCHANGED <<tables, command, stage, found, target>>

\* By id, whatever the row says by now.
Revoke(r) ==
    /\ pc[r] = "updating"
    /\ assignments' = [assignments EXCEPT ![target[r]].status = "REVOKED",
                                          ![target[r]].revokedBy = command[r].by.actor]
    /\ Goto(r, "audit")
    /\ UNCHANGED <<members, trail, command, stage, found, target>>

\* Defect: no partial unique index.
IndexIgnored(g, u, role) == TRUE

\* The index of the migration: unique where status is ACTIVE.
IndexFree(g, u, role) == Existing(g, u, role) = {}

Create(r) ==
    /\ pc[r] = "creating"
    /\ LET c == command[r]
       IN  IF ~IndexFree(c.group, c.user, c.role)
           THEN Goto(r, "refused") /\ UNCHANGED assignments
           ELSE /\ assignments' = [assignments EXCEPT ![r] =
                       [group |-> c.group, user |-> c.user, role |-> c.role,
                        status |-> "ACTIVE", createdBy |-> c.by.actor, revokedBy |-> NoUser]]
                /\ Goto(r, "audit")
    /\ UNCHANGED <<members, trail, command, stage, found, target>>

Append(action, a) == trail' = trail \cup {<<action, a>>}

AuditAssigned(r) ==
    /\ pc[r] = "audit" /\ stage[r] = "assign"
    /\ Append("ROLE_ASSIGNED", r)
    /\ Goto(r, "done")
    /\ UNCHANGED <<members, assignments, command, stage, found, target>>

\* A change goes on to assign, its role checked anew.
AuditRevoked(r) ==
    /\ pc[r] = "audit" /\ stage[r] = "revoke"
    /\ Append("ROLE_REVOKED", target[r])
    /\ IF command[r].op = "change"
       THEN Goto(r, "member") /\ GotoStage(r, "assign")
       ELSE Goto(r, "done") /\ UNCHANGED stage
    /\ UNCHANGED <<members, assignments, command, found, target>>

Crash(r) ==
    /\ pc[r] \in Step
    /\ Leave(r, "crashed")
    /\ UNCHANGED <<tables, command, stage, target>>

\* MemberService.update and .leave: unguarded, one statement each.
UpdateMember(m) ==
    /\ \E role \in {"ADMIN", "MEMBER"} \ {members[m].role} :
          members' = [members EXCEPT ![m].role = role]
    /\ UNCHANGED <<assignments, trail, pc, command, stage, found, target>>

LeaveGroup(m) ==
    /\ members[m].status = "ACTIVE"
    /\ members' = [members EXCEPT ![m].status = "LEFT"]
    /\ UNCHANGED <<assignments, trail, pc, command, stage, found, target>>

Check(r) == ReadMember(r) \/ ReadFallback(r) \/ ReadRoles(r)

RequestStep(r) ==
    \/ Arrive(r) \/ Check(r) \/ Act(r) \/ TurnedAway(r)
    \/ FindForRevocation(r) \/ FindForAssignment(r) \/ Revoke(r) \/ Create(r)
    \/ AuditAssigned(r) \/ AuditRevoked(r) \/ Crash(r)

Next ==
    /\ \/ \E r \in Request : RequestStep(r)
       \/ \E m \in Edited : UpdateMember(m) \/ LeaveGroup(m)
    /\ Remember

Spec == Init /\ [][Next]_vars
-----------------------------------------------------------------------------
\* However assignments, changes and revocations of one role overlap, a user
\* holds it by at most one ACTIVE assignment (the partial unique index; each
\* assign looked before another inserted).
OneActiveAssignment ==
    \A a, b \in Stored :
        /\ assignments[a].status = "ACTIVE" /\ assignments[b].status = "ACTIVE"
        /\ assignments[a].group = assignments[b].group
        /\ assignments[a].user = assignments[b].user
        /\ assignments[a].role = assignments[b].role
        => a = b

\* Whoever gets to a protected statement was an ACTIVE member at some moment
\* since the last check began, and at some moment since then held what it asks
\* for; a change is checked anew after its revocation, so a chair who gave up
\* the chair by it assigns nothing.  The two moments may differ, and both may
\* be over when the statement runs: no more than that is checked.
EntitledWhileServed ==
    \A r \in Request :
        pc[r] \in {"acting", "updating", "creating"} => moments[r] = {"member", "right"}

\* The trail tells the order: an audited revocation was done; an assignment or
\* a revocation that is not audited is still to be, or its request died; and a
\* change that created its assignment has withdrawn and audited the role it
\* replaces before, so nobody ends up with both by one change, only with
\* neither, when the second half is refused or dies.
ChangeRevokesFirst ==
    /\ \A row \in trail :
          /\ row[2] \in Stored
          /\ row[1] = "ROLE_REVOKED" => assignments[row[2]].status = "REVOKED"
    /\ \A a \in Stored :
          /\ <<"ROLE_ASSIGNED", a>> \in trail \/ pc[a] \in {"audit", "crashed"}
          /\ assignments[a].status = "REVOKED" =>
                \/ <<"ROLE_REVOKED", a>> \in trail
                \/ \E r \in Request : target[r] = a /\ pc[r] \in {"audit", "crashed"}
          /\ command[a].op = "change" =>
                /\ target[a] # NoAssignment
                /\ assignments[target[a]].status = "REVOKED"
                /\ <<"ROLE_REVOKED", target[a]>> \in trail
=============================================================================
