------------------------------- MODULE Groups -------------------------------
(***************************************************************************)
(* Groups and members: GroupService, TenantGroupService and MemberService  *)
(* (backend/src/group, tenant-group, member), each request one awaited     *)
(* statement at a time.  GroupService and MemberService write their audit  *)
(* row to AuditEvent, TenantGroupService to AuditLog; both update the same *)
(* Group.  `trail` holds the rows of the two tables in the order of their  *)
(* createdAt.  Of a group its status is modelled, of a member group, role  *)
(* and status.  SocialFund composes this module with the social fund.      *)
(***************************************************************************)
EXTENDS Integers, Sequences, SequencesExt, FiniteSets, TLC

CONSTANTS
    Group, Member,      \* ids that rows have or may get (bounds what is created)
    FirstGroups,        \* groups that are there from the start
    FirstMembers,       \* and their members: a function to rows
    Request, Instruction,
    MaxInFlight,        \* bound: requests being served at the same time
    NoMember, NoRow, NoId, NoChange, NoCommand

Status == {"ACTIVE", "CLOSED"}
Role == {"ADMIN", "MEMBER"}
MemberRow == [group : Group, role : Role, status : {"ACTIVE", "LEFT"}]

\* The columns of Group and Member that are modelled.
GroupTable == [Group -> Status \cup {NoRow}]
MemberTable == [Member -> MemberRow \cup {NoRow}]

CreateGroupDto == [op : {"createGroup"}, via : {"groups", "tenantGroups"}]
UpdateGroupDto ==
    [op : {"updateGroup"}, via : {"groups", "tenantGroups"}, group : Group,
     status : Status \cup {NoChange}, by : Member]
CreateMemberDto == [op : {"createMember"}, group : Group, role : Role \cup {NoChange}]
UpdateMemberDto ==
    [op : {"updateMember"}, member : Member, role : Role] \cup [op : {"leave"}, member : Member]
GroupCommand == CreateGroupDto \cup UpdateGroupDto \cup CreateMemberDto \cup UpdateMemberDto

ASSUME GroupsAssumption ==
    /\ FirstGroups \subseteq Group
    /\ FirstMembers \in MemberTable
    /\ NoRow \notin MemberRow /\ NoMember \notin Member /\ NoChange \notin Status
    /\ NoId \notin Group \cup Member \cup Request
    /\ MaxInFlight \in Nat

VARIABLES
    groups,         \* groups[g]: its status, NoRow before it is created
    members,
    trail,          \* AuditEvent and AuditLog, oldest row first
    pc, command,
    seen,           \* seen[r]: what r has read or made and still uses
    disturbed       \* history: groups whose create and updates overlapped or died

groupVars == <<groups, members, disturbed>>

Step ==
    {"guard", "reading", "checking", "lookup", "emitting", "writing", "naming", "audit"}
Finished == {"done", "refused", "mismatch", "crashed"}
InFlight == {r \in Request : pc[r] \in Step}

Goto(r, step) == pc' = [pc EXCEPT ![r] = step]
Leave(r, how) == Goto(r, how) /\ seen' = [seen EXCEPT ![r] = NoId]

AuditRow(r, entity, action, status) ==
    [request |-> r, entity |-> entity, action |-> action, status |-> status]

\* AuditService.emit and AuditLogService.append, as far as the row goes.
Emit(r, entity, action, status) ==
    trail' = Append(trail, AuditRow(r, entity, action, status))

\* assertAdmin and assertActiveMember.
Entitled(m, g, requireAdmin) ==
    /\ m # NoMember /\ members[m] # NoRow
    /\ members[m].group = g /\ members[m].status = "ACTIVE"
    /\ requireAdmin => members[m].role = "ADMIN"

GroupsInit ==
    /\ groups = [g \in Group |-> IF g \in FirstGroups THEN "ACTIVE" ELSE NoRow]
    /\ members = FirstMembers
    /\ disturbed = {}
-----------------------------------------------------------------------------
Updates(g) == {r \in Request : command[r] \in UpdateGroupDto /\ command[r].group = g}

\* Requests on the way that update g, or have created it.
Touching(g) ==
    {r \in InFlight : r \in Updates(g) \/ (command[r].op = "createGroup" /\ seen[r] = g)}

\* History: a request begins to touch g while another one does.
Disturb(g) == disturbed' = IF Touching(g) # {} THEN disturbed \cup {g} ELSE disturbed

Meets(r, c) == IF c.op = "updateGroup" THEN Disturb(c.group) ELSE UNCHANGED disturbed

FirstStep(c) ==
    CASE c.op = "updateGroup" /\ c.via = "groups" -> "guard"
      [] c.op = "createGroup" -> "writing"
      [] OTHER -> "reading"

ArriveAtGroups(r) ==
    /\ pc[r] = "idle"
    /\ Cardinality(InFlight) < MaxInFlight
    /\ \E c \in Instruction \cap GroupCommand :
          /\ command' = [command EXCEPT ![r] = c]
          /\ Goto(r, FirstStep(c))
          /\ Meets(r, c)
    /\ UNCHANGED <<groups, members, trail, seen>>

\* MemberGuard of PATCH groups/:id: any active member passes.
GuardUpdate(r) ==
    /\ pc[r] = "guard" /\ command[r].op = "updateGroup"
    /\ Goto(r, IF Entitled(command[r].by, command[r].group, FALSE) THEN "reading" ELSE "refused")
    /\ UNCHANGED <<groupVars, trail, command, seen>>

\* The row is there, or the request is refused.
FindGroup(r) ==
    Goto(r, IF groups[command[r].group] = NoRow THEN "refused" ELSE "writing")

\* getOrThrow of GroupService.
ReadGroup(r) ==
    /\ pc[r] = "reading" /\ command[r].op = "updateGroup" /\ command[r].via = "groups"
    /\ FindGroup(r)
    /\ UNCHANGED <<groupVars, trail, command, seen>>

\* findUnique of TenantGroupService; the row becomes the beforeSnapshot.
ReadTenantGroup(r) ==
    /\ pc[r] = "reading" /\ command[r].op = "updateGroup" /\ command[r].via = "tenantGroups"
    /\ FindGroup(r)
    /\ UNCHANGED <<groupVars, trail, command, seen>>

\* MemberService.create looks for the group.
ReadGroupOfMember(r) ==
    /\ pc[r] = "reading" /\ command[r].op = "createMember"
    /\ FindGroup(r)
    /\ UNCHANGED <<groupVars, trail, command, seen>>

ReadMember(r) ==
    /\ pc[r] = "reading" /\ command[r].op \in {"updateMember", "leave"}
    /\ Goto(r, IF members[command[r].member] = NoRow THEN "refused" ELSE "writing")
    /\ UNCHANGED <<groupVars, trail, command, seen>>

\* A row with a fresh id and the default status.
NewGroup(r) ==
    /\ \E g \in {g \in Group : groups[g] = NoRow} :
          /\ groups' = [groups EXCEPT ![g] = "ACTIVE"]
          /\ seen' = [seen EXCEPT ![r] = g]
          /\ Disturb(g)
    /\ Goto(r, "audit")
    /\ UNCHANGED <<members, trail, command>>

CreateGroup(r) ==
    pc[r] = "writing" /\ command[r].op = "createGroup" /\ command[r].via = "groups" /\ NewGroup(r)

CreateTenantGroup(r) ==
    pc[r] = "writing" /\ command[r].op = "createGroup" /\ command[r].via = "tenantGroups" /\ NewGroup(r)

\* A status that is not given stays.
NewStatus(c) == IF c.status = NoChange THEN groups[c.group] ELSE c.status

\* GroupService will audit what it was given.
UpdateGroup(r) ==
    LET c == command[r] IN
    /\ pc[r] = "writing" /\ c.op = "updateGroup" /\ c.via = "groups"
    /\ groups' = [groups EXCEPT ![c.group] = NewStatus(c)]
    /\ seen' = [seen EXCEPT ![r] = c.status]
    /\ Goto(r, "audit")
    /\ UNCHANGED <<members, disturbed, trail, command>>

\* TenantGroupService will log the row that the update returned.
UpdateTenantGroup(r) ==
    LET c == command[r] IN
    /\ pc[r] = "writing" /\ c.op = "updateGroup" /\ c.via = "tenantGroups"
    /\ groups' = [groups EXCEPT ![c.group] = NewStatus(c)]
    /\ seen' = [seen EXCEPT ![r] = NewStatus(c)]
    /\ Goto(r, "audit")
    /\ UNCHANGED <<members, disturbed, trail, command>>

RoleOrDefault(c) == IF c.role = NoChange THEN "MEMBER" ELSE c.role

CreateMember(r) ==
    LET c == command[r] IN
    /\ pc[r] = "writing" /\ c.op = "createMember"
    /\ \E m \in {m \in Member : members[m] = NoRow} :
          /\ members' = [members EXCEPT ![m] =
                 [group |-> c.group, role |-> RoleOrDefault(c), status |-> "ACTIVE"]]
          /\ seen' = [seen EXCEPT ![r] = m]
    /\ Goto(r, "audit")
    /\ UNCHANGED <<groups, disturbed, trail, command>>

\* By id, whether or not the member has left.
UpdateMember(r) ==
    /\ pc[r] = "writing" /\ command[r].op = "updateMember"
    /\ members' = [members EXCEPT ![command[r].member].role = command[r].role]
    /\ Goto(r, "audit")
    /\ UNCHANGED <<groups, disturbed, trail, command, seen>>

LeaveGroup(r) ==
    /\ pc[r] = "writing" /\ command[r].op = "leave"
    /\ members' = [members EXCEPT ![command[r].member].status = "LEFT"]
    /\ Goto(r, "audit")
    /\ UNCHANGED <<groups, disturbed, trail, command, seen>>

\* The audit row, then the answer.
Audited(r, entity, action, status) ==
    /\ Emit(r, entity, action, status)
    /\ Leave(r, "done")
    /\ UNCHANGED <<groupVars, command>>

Auditing(r, op) == pc[r] = "audit" /\ command[r].op = op
AuditingVia(r, op, via) == Auditing(r, op) /\ command[r].via = via

AuditGroupCreated(r) ==
    AuditingVia(r, "createGroup", "groups") /\ Audited(r, seen[r], "CREATED", NoChange)

AuditTenantGroupCreated(r) ==
    AuditingVia(r, "createGroup", "tenantGroups") /\ Audited(r, seen[r], "CREATED", "ACTIVE")

\* The payload is the dto.
AuditGroupUpdated(r) ==
    /\ AuditingVia(r, "updateGroup", "groups")
    /\ Audited(r, command[r].group, "UPDATED", seen[r])

AuditTenantGroupUpdated(r) ==
    /\ AuditingVia(r, "updateGroup", "tenantGroups")
    /\ Audited(r, command[r].group, "UPDATED", seen[r])

AuditMemberCreated(r) ==
    Auditing(r, "createMember") /\ Audited(r, seen[r], "CREATED", NoChange)

AuditMemberUpdated(r) ==
    Auditing(r, "updateMember") /\ Audited(r, command[r].member, "UPDATED", NoChange)

AuditMemberLeft(r) ==
    Auditing(r, "leave") /\ Audited(r, command[r].member, "LEFT", NoChange)

Crash(r) ==
    /\ pc[r] \in Step
    /\ Leave(r, "crashed")
    /\ disturbed' = IF command[r].op = "updateGroup" THEN disturbed \cup {command[r].group}
                    ELSE disturbed
    /\ UNCHANGED <<groups, members, trail, command>>

GroupStep(r) ==
    \/ ArriveAtGroups(r) \/ GuardUpdate(r)
    \/ ReadGroup(r) \/ ReadTenantGroup(r) \/ ReadGroupOfMember(r) \/ ReadMember(r)
    \/ CreateGroup(r) \/ CreateTenantGroup(r) \/ UpdateGroup(r) \/ UpdateTenantGroup(r)
    \/ CreateMember(r) \/ UpdateMember(r) \/ LeaveGroup(r)
    \/ AuditGroupCreated(r) \/ AuditTenantGroupCreated(r)
    \/ AuditGroupUpdated(r) \/ AuditTenantGroupUpdated(r)
    \/ AuditMemberCreated(r) \/ AuditMemberUpdated(r) \/ AuditMemberLeft(r)
    \/ Crash(r)
-----------------------------------------------------------------------------
\* The status that the trail leaves a group with: of the last row about it
\* that tells one, and ACTIVE when no row does.
StatusRows(g) == {i \in DOMAIN trail : trail[i].entity = g /\ trail[i].status \in Status}
StatusInTrail(g) ==
    IF StatusRows(g) = {} THEN "ACTIVE" ELSE trail[Max(StatusRows(g))].status

\* GroupService and TenantGroupService update one table and audit into two:
\* neither trail alone accounts for a group's status, the two together do,
\* for every group whose creation and updates neither overlapped nor died,
\* once each has its row.  When they overlap, the row of the creation can come
\* after that of an update that closed the group.
StatusExplained ==
    \A g \in Group \ disturbed :
        groups[g] # NoRow /\ (\A r \in Updates(g) : pc[r] # "audit")
        => groups[g] = StatusInTrail(g)

\* Every group and every member but the first ones, and every LEFT, has its
\* audit row, or the request that wrote it has not reached it, or it died.
RegisterAudited ==
    /\ \A g \in Group \ FirstGroups : groups[g] # NoRow =>
          \/ \E i \in DOMAIN trail : trail[i].entity = g /\ trail[i].action = "CREATED"
          \/ \E r \in Request : command[r] \in CreateGroupDto /\ pc[r] \in {"audit", "crashed"}
    /\ \A m \in Member : members[m] # NoRow =>
          /\ \/ FirstMembers[m] # NoRow
             \/ \E i \in DOMAIN trail : trail[i].entity = m /\ trail[i].action = "CREATED"
             \/ \E r \in Request : command[r] \in CreateMemberDto /\ pc[r] \in {"audit", "crashed"}
          /\ members[m].status = "LEFT" =>
                \/ FirstMembers[m] # NoRow /\ FirstMembers[m].status = "LEFT"
                \/ \E i \in DOMAIN trail : trail[i].entity = m /\ trail[i].action = "LEFT"
                \/ \E r \in Request : /\ command[r] = [op |-> "leave", member |-> m]
                                      /\ pc[r] \in {"audit", "crashed"}
=============================================================================
