-------------------------- MODULE SocialFundProofs --------------------------
(***************************************************************************)
(* Theorems about groups, members and the social fund, for any requests,   *)
(* groups, members, buckets, keys and amounts: types, one entry under a    *)
(* key with the right answer to every post, exact reversals, entries that  *)
(* add up net of them, the audit rows of the register and of the fund, and *)
(* what the two trails of a group tell of its status.                      *)
(***************************************************************************)
EXTENDS SocialFund, SequenceTheorems, FiniteSetTheorems, TLAPS

Command == GroupCommand \cup FundCommand

\* Steps of a request before it has written anything.
Before == {"idle", "guard", "reading", "checking", "lookup", "emitting"}

\* The row of a post is what was asked for, to the last stored place.
IsPosting(e) ==
    /\ command[e] \in PostSocialFundEntryDto /\ pc[e] \in {"naming", "done", "crashed"}
    /\ entries[e] = [bucket |-> command[e].bucket, amount |-> Stored(command[e].amount),
                     type |-> command[e].type, key |-> command[e].key]

\* The row of a reversal takes back one posting of the same bucket.
IsReversal(e) ==
    LET x == command[e].entry IN
    /\ command[e] \in ReversalSocialFundEntryDto /\ pc[e] = "done"
    /\ x \in Request \ {e} /\ IsPosting(x) /\ entries[x].bucket = command[e].bucket
    /\ entries[e] = [bucket |-> command[e].bucket, amount |-> -entries[x].amount,
                     type |-> "REVERSAL", key |-> NoKey]

EntrySound(r) ==
    /\ entries[r] # NoEntry => IsPosting(r) \/ IsReversal(r)
    /\ pc[r] = "naming" => entries[r] # NoEntry

\* The answers that KeyedOnce promises.
AnswerSound(r) ==
    command[r] \in PostSocialFundEntryDto =>
        /\ pc[r] = "done" =>
              /\ seen[r] \in Posted
              /\ entries[seen[r]].bucket = command[r].bucket
              /\ entries[seen[r]].key = command[r].key
              /\ entries[seen[r]].amount = Stored(command[r].amount)
        /\ pc[r] = "mismatch" => \E e \in Under(command[r].bucket, command[r].key) :
              command[e].amount # command[r].amount \/ Stored(command[r].amount) # command[r].amount

\* What a request has read is still so, and what it holds has its type.
ReadSound(r) ==
    /\ pc[r] = "idle" => command[r] = NoCommand /\ seen[r] = NoId
    /\ pc[r] # "idle" => command[r] \in Command
    /\ pc[r] = "lookup" => command[r].op = "post" /\ command[r].key \in Key
    /\ pc[r] = "naming" => command[r].op = "post"
    /\ pc[r] = "emitting" => command[r].op \in {"post", "reverse"}
    /\ pc[r] \in {"checking", "emitting", "writing"} /\ command[r].op = "reverse" =>
          /\ command[r].entry \in Posted
          /\ entries[command[r].entry].bucket = command[r].bucket
          /\ pc[r] # "checking" => entries[command[r].entry].type # "REVERSAL"
    /\ pc[r] = "writing" =>
          /\ command[r].op = "updateGroup" => groups[command[r].group] # NoRow
          /\ command[r].op \in {"updateMember", "leave"} => members[command[r].member] # NoRow
    /\ pc[r] = "audit" =>
          /\ command[r].op \notin {"post", "reverse"}
          /\ command[r].op = "createGroup" => seen[r] \in Group /\ groups[seen[r]] # NoRow
          /\ command[r].op = "createMember" => seen[r] \in Member
          /\ command[r].op = "createBucket" => seen[r] \in Bucket
          /\ command[r].op = "updateGroup" =>
                seen[r] \in Status \cup {NoChange} /\ groups[command[r].group] # NoRow

UniqueKeys ==
    \A e, f \in Posted :
        entries[e].key # NoKey /\ entries[f].key = entries[e].key
        /\ entries[f].bucket = entries[e].bucket => e = f

Rows(r) == {i \in DOMAIN trail : trail[i].request = r}

\* The audit rows of a request, by what it was asked to do and how far it got.
RowsSound(r) ==
    /\ pc[r] \in Before => Rows(r) = {}
    /\ pc[r] # "idle" /\ command[r].op = "post" =>
          /\ \A i \in Rows(r) :
                /\ trail[i].action = "CREATED" /\ trail[i].status = NoChange
                /\ \/ trail[i].entity = NoId /\ pc[r] \in {"writing", "naming", "refused", "crashed"}
                   \/ trail[i].entity = r /\ pc[r] = "done"
          /\ pc[r] = "writing" \/ entries[r] # NoEntry => Rows(r) # {}
    /\ pc[r] # "idle" /\ command[r].op = "reverse" =>
          /\ \A i \in Rows(r) :
                /\ trail[i].action = "REVERSED" /\ trail[i].entity = command[r].entry
                /\ pc[r] \in {"writing", "crashed"} \/ entries[r] # NoEntry
          /\ pc[r] = "writing" \/ entries[r] # NoEntry => Rows(r) # {}
    /\ pc[r] # "idle" /\ command[r].op \notin {"post", "reverse"} =>
          \A i \in Rows(r) :
              pc[r] = "done" /\ trail[i].entity # NoId /\ trail[i].action # "REVERSED"

\* A row of the register that a request of these commands wrote.
HasRow(entity, action, Commands) ==
    \E i \in DOMAIN trail :
        /\ trail[i].entity = entity /\ trail[i].action = action
        /\ command[trail[i].request] \in Commands

\* Or it is still to come, or its request died.
Owed(id, Commands) ==
    \E r \in Request : /\ command[r] \in Commands
                       /\ pc[r] = "crashed" \/ (pc[r] = "audit" /\ seen[r] = id)

GroupSound(g) ==
    g \notin FirstGroups /\ groups[g] # NoRow =>
        HasRow(g, "CREATED", CreateGroupDto) \/ Owed(g, CreateGroupDto)

Leaving(m) == {[op |-> "leave", member |-> m]}

MemberSound(m) ==
    members[m] # NoRow =>
        /\ FirstMembers[m] # NoRow \/ HasRow(m, "CREATED", CreateMemberDto)
                                   \/ Owed(m, CreateMemberDto)
        /\ members[m].status = "LEFT" =>
              \/ FirstMembers[m] # NoRow /\ FirstMembers[m].status = "LEFT"
              \/ HasRow(m, "LEFT", Leaving(m))
              \/ \E r \in Request : command[r] \in Leaving(m) /\ pc[r] \in {"audit", "crashed"}

RequestSound(r) == EntrySound(r) /\ AnswerSound(r) /\ ReadSound(r) /\ RowsSound(r)

FundInv ==
    /\ TypeOK /\ UniqueKeys
    /\ \A r \in Request : RequestSound(r)
    /\ \A g \in Group : GroupSound(g)
    /\ \A m \in Member : MemberSound(m)
-----------------------------------------------------------------------------
\* What a step of another request leaves of request x.
Same(x) ==
    /\ pc'[x] = pc[x] /\ command'[x] = command[x] /\ seen'[x] = seen[x]
    /\ entries'[x] = entries[x]
    /\ Rows(x)' = Rows(x) /\ \A i \in Rows(x) : trail'[i] = trail[i]

\* No entry changes or goes, nor does a group or a member.
Grows ==
    /\ \A e \in Posted :
          /\ entries'[e] = entries[e] /\ command'[e] = command[e]
          /\ pc[e] \in {"naming", "done", "crashed"} => pc'[e] \in {"naming", "done", "crashed"}
          /\ pc[e] = "done" => pc'[e] = "done"
    /\ \A g \in Group : groups[g] # NoRow => groups'[g] # NoRow
    /\ \A m \in Member : members[m] # NoRow => members'[m] # NoRow

\* No row of the register goes, and no debt but by the death of its request.
RegisterStays ==
    /\ \A x \in Request : pc[x] # "idle" => command'[x] = command[x]
    /\ \A i \in DOMAIN trail :
          /\ i \in DOMAIN trail'
          /\ command[trail[i].request].op # "post" => trail'[i] = trail[i]
    /\ \A x \in Request :
          /\ pc[x] = "crashed" => pc'[x] = "crashed"
          /\ pc[x] = "audit" => \/ pc'[x] = "audit" /\ seen'[x] = seen[x]
                                \/ pc'[x] = "crashed"

\* A command is told by its op.
LEMMA Kinds ==
    ASSUME NEW c \in Command
    PROVE  /\ c.op = "post" <=> c \in PostSocialFundEntryDto
           /\ c.op = "reverse" <=> c \in ReversalSocialFundEntryDto
           /\ c.op = "createBucket" <=> c \in CreateBucketDto
           /\ c.op = "createGroup" <=> c \in CreateGroupDto
           /\ c.op = "updateGroup" <=> c \in UpdateGroupDto
           /\ c.op = "createMember" <=> c \in CreateMemberDto
           /\ c.op \in {"updateMember", "leave"} <=> c \in UpdateMemberDto
           /\ c.op = "leave" => c.member \in Member /\ c \in Leaving(c.member)
           /\ c \in GroupCommand <=> c.op \notin {"post", "reverse", "createBucket"}
BY DEF Command, GroupCommand, FundCommand, PostSocialFundEntryDto, ReversalSocialFundEntryDto,
       CreateBucketDto, CreateGroupDto, UpdateGroupDto, CreateMemberDto, UpdateMemberDto, Leaving

\* Rounding to the column's places once more changes nothing.
LEMMA StoredOnce ==
    ASSUME NEW a \in Int
    PROVE  Stored(a) \in Int /\ Stored(Stored(a)) = Stored(a)
<1>1. PICK q \in Int : q = (a + 5) \div 10
  OBVIOUS
<1>2. PICK p \in Int : p = (-a + 5) \div 10
  OBVIOUS
<1>3. CASE a < 0
  <2>1. Stored(a) = -(p * 10) /\ p >= 0
    BY <1>2, <1>3 DEF Stored
  <2>2. (p * 10 + 5) \div 10 = p
    OBVIOUS
  <2>3. QED
    BY <2>1, <2>2 DEF Stored
<1>4. CASE a >= 0
  <2>1. Stored(a) = q * 10 /\ q >= 0
    BY <1>1, <1>4 DEF Stored
  <2>2. (q * 10 + 5) \div 10 = q
    OBVIOUS
  <2>3. QED
    BY <2>1, <2>2 DEF Stored
<1>5. QED
  BY <1>3, <1>4

\* Before its request writes it there is no entry.
LEMMA Unposted ==
    ASSUME NEW r \in Request, EntrySound(r), pc[r] \notin {"naming", "done", "crashed"}
    PROVE  entries[r] = NoEntry
BY DEF EntrySound, IsPosting, IsReversal

\* Entries have the types of their columns.
LEMMA Rounded ==
    ASSUME TypeOK, NEW e \in Posted
    PROVE  /\ entries[e] \in EntryRow /\ e \in Request
           /\ entries[e].amount \in Int
BY DEF TypeOK, Posted, EntryRow

\* The row of a post is one.
LEMMA PostingThere ==
    ASSUME NEW e \in Request, IsPosting(e)
    PROVE  /\ entries[e] \in EntryRow /\ e \in Posted
           /\ entries[e].type # "REVERSAL"
           /\ entries[e].amount = Stored(command[e].amount)
           /\ entries[e].bucket = command[e].bucket /\ entries[e].key = command[e].key
<1>1. /\ command[e].amount \in Int /\ command[e].bucket \in Bucket
      /\ command[e].type \in {"CONTRIBUTION", "DISBURSEMENT"}
      /\ command[e].key \in Key \cup {NoKey, EmptyKey}
  BY SocialFundAssumption DEF IsPosting, PostSocialFundEntryDto
<1>2. Stored(command[e].amount) \in Int
  BY <1>1, StoredOnce
<1>3. entries[e] \in EntryRow
  BY <1>1, <1>2 DEF IsPosting, EntryRow
<1>4. QED
  BY <1>1, <1>3, SocialFundAssumption DEF IsPosting, Posted

\* The rows of the trail have their types.
LEMMA RowTyped ==
    ASSUME TypeOK, NEW i \in DOMAIN trail
    PROVE  trail[i] \in AuditEventRow /\ trail[i].request \in Request
<1>1. trail \in Seq(AuditEventRow)
  BY DEF TypeOK
<1>2. trail[i] \in AuditEventRow
  BY <1>1
<1>3. QED
  BY <1>2 DEF AuditEventRow

LEMMA RequestKept ==
    ASSUME TypeOK, Grows, NEW x \in Request, RequestSound(x), Same(x)
    PROVE  RequestSound(x)'
<1>1. Posted \subseteq Posted'
  BY DEF Grows, Posted
<1>2. EntrySound(x)'
  <2>1. \A e \in Posted : IsPosting(e) => IsPosting(e)'
    BY DEF Grows, IsPosting
  <2>2. \A e \in Posted : IsReversal(e) => IsReversal(e)'
    <3> SUFFICES ASSUME NEW e \in Posted, IsReversal(e) PROVE IsReversal(e)'
      OBVIOUS
    <3>1. PICK y \in Request : y = command[e].entry
      BY DEF IsReversal
    <3>2. y \in Posted /\ IsPosting(y)' /\ entries'[y] = entries[y]
      <4>1. entries[y] # NoEntry
        BY <3>1, PostingThere DEF IsReversal, Posted
      <4>2. QED
        BY <3>1, <4>1, <2>1 DEF IsReversal, Posted, Grows
    <3>3. QED
      BY <3>1, <3>2 DEF IsReversal, Grows
  <2>3. QED
    BY <2>1, <2>2 DEF RequestSound, EntrySound, Same, Posted
<1>3. AnswerSound(x)'
  <2> SUFFICES ASSUME command[x] \in PostSocialFundEntryDto
               PROVE  AnswerSound(x)'
    BY DEF AnswerSound, Same
  <2>1. pc[x] = "done" => (seen[x] \in Posted)' /\ entries'[seen[x]] = entries[seen[x]]
    BY <1>1 DEF RequestSound, AnswerSound, Grows, Same
  <2>2. \A b, k : Under(b, k) \subseteq Under(b, k)'
    BY <1>1 DEF Under, Grows
  <2>3. \A e \in Posted : command'[e] = command[e]
    BY DEF Grows
  <2>4. \A b, k : Under(b, k) \subseteq Posted
    BY DEF Under
  <2>5. QED
    BY <2>1, <2>2, <2>3, <2>4 DEF RequestSound, AnswerSound, Same
<1>4. ReadSound(x)'
  <2>1. pc[x] # "idle" => command[x] \in Command
    BY DEF RequestSound, ReadSound
  <2>2. QED
    BY <1>1, <2>1, Kinds DEF RequestSound, ReadSound, Same, Grows, UpdateGroupDto, UpdateMemberDto
<1>5. RowsSound(x)'
  BY DEF RequestSound, RowsSound, Same
<1>6. QED
  BY <1>2, <1>3, <1>4, <1>5 DEF RequestSound

LEMMA RegisterKept ==
    ASSUME FundInv, RegisterStays
    PROVE  /\ \A g \in Group : groups'[g] = groups[g] => GroupSound(g)'
           /\ \A m \in Member : members'[m] = members[m] => MemberSound(m)'
<1>1. ASSUME NEW entity, NEW action, NEW Commands, Commands \subseteq GroupCommand,
             HasRow(entity, action, Commands)
      PROVE  HasRow(entity, action, Commands)'
  <2>1. PICK i \in DOMAIN trail :
           /\ trail[i].entity = entity /\ trail[i].action = action
           /\ command[trail[i].request] \in Commands
    BY <1>1 DEF HasRow
  <2>2. trail[i].request \in Request
    BY <2>1, RowTyped DEF FundInv
  <2>3. pc[trail[i].request] # "idle"
    BY <2>1, <2>2 DEF FundInv, RequestSound, RowsSound, Rows, Before
  <2>4. command[trail[i].request].op # "post"
    BY <1>1, <2>1, Kinds DEF Command
  <2>5. QED
    BY <2>1, <2>2, <2>3, <2>4 DEF RegisterStays, HasRow
<1>2. ASSUME NEW id, NEW Commands, Owed(id, Commands)
      PROVE  Owed(id, Commands)'
  BY <1>2 DEF Owed, RegisterStays
<1>3. /\ CreateGroupDto \subseteq GroupCommand /\ CreateMemberDto \subseteq GroupCommand
      /\ \A m \in Member : Leaving(m) \subseteq GroupCommand
  BY DEF GroupCommand, Leaving, UpdateMemberDto
<1>4. ASSUME NEW g \in Group, groups'[g] = groups[g] PROVE GroupSound(g)'
  BY <1>1, <1>2, <1>3, <1>4 DEF GroupSound, FundInv
<1>5. ASSUME NEW m \in Member, members'[m] = members[m] PROVE MemberSound(m)'
  <2>1. CASE members[m] = NoRow
    BY <1>5, <2>1 DEF MemberSound
  <2>2. CASE members[m] # NoRow
    <3>1. /\ FirstMembers[m] # NoRow \/ HasRow(m, "CREATED", CreateMemberDto)
                                     \/ Owed(m, CreateMemberDto)
          /\ members[m].status = "LEFT" =>
                \/ FirstMembers[m] # NoRow /\ FirstMembers[m].status = "LEFT"
                \/ HasRow(m, "LEFT", Leaving(m))
                \/ \E r \in Request : command[r] \in Leaving(m) /\ pc[r] \in {"audit", "crashed"}
      BY <2>2 DEF FundInv, MemberSound
    <3>2. HasRow(m, "CREATED", CreateMemberDto) => HasRow(m, "CREATED", CreateMemberDto)'
      BY <1>1, <1>3
    <3>3. HasRow(m, "LEFT", Leaving(m)) => HasRow(m, "LEFT", Leaving(m))'
      BY <1>1, <1>3
    <3>4. Owed(m, CreateMemberDto) => Owed(m, CreateMemberDto)'
      BY <1>2
    <3>5. \A r \in Request : command[r] \in Leaving(m) /\ pc[r] \in {"audit", "crashed"}
             => command'[r] \in Leaving(m) /\ pc'[r] \in {"audit", "crashed"}
      BY DEF RegisterStays
    <3>6. QED
      BY <1>5, <3>1, <3>2, <3>3, <3>4, <3>5 DEF MemberSound, Leaving
  <2>3. QED
    BY <2>1, <2>2
<1>6. QED
  BY <1>4, <1>5

\* A step that writes neither a row of the register or the fund nor of the trail.
LEMMA QuietStep ==
    ASSUME FundInv, NEW r \in Request, NEW step \in Step \cup Finished,
           pc' = [pc EXCEPT ![r] = step], pc[r] \notin Finished,
           pc[r] \in {"naming", "audit"} => step = "crashed",
           UNCHANGED <<groups, members, entries, trail>>, TypeOK',
           \A x \in Request \ {r} : command'[x] = command[x] /\ seen'[x] = seen[x],
           pc[r] # "idle" => command'[r] = command[r],
           RequestSound(r)'
    PROVE  FundInv'
<1>1. TypeOK /\ pc \in [Request -> {"idle"} \cup Step \cup Finished]
  BY DEF FundInv, TypeOK
<1>2. \A x \in Request \ {r} : Same(x)
  BY <1>1 DEF Same, Rows
<1>3. Grows
  <2>1. pc[r] = "idle" => entries[r] = NoEntry
    BY Unposted DEF FundInv, RequestSound
  <2>2. \A e \in Posted : command'[e] = command[e]
    BY <2>1 DEF Posted
  <2>3. \A e \in Posted :
           /\ pc[e] \in {"naming", "done", "crashed"} => pc'[e] \in {"naming", "done", "crashed"}
           /\ pc[e] = "done" => pc'[e] = "done"
    BY <1>1 DEF Posted, Finished
  <2>4. QED
    BY <2>2, <2>3 DEF Grows
<1>4. RegisterStays
  BY <1>1, <1>2 DEF RegisterStays, Same, Finished
<1>5. \A x \in Request : RequestSound(x)'
  BY <1>1, <1>2, <1>3, RequestKept DEF FundInv
<1>6. UniqueKeys'
  BY DEF FundInv, UniqueKeys, Posted
<1>7. (\A g \in Group : GroupSound(g)') /\ \A m \in Member : MemberSound(m)'
  BY <1>4, RegisterKept
<1>8. QED
  BY <1>5, <1>6, <1>7 DEF FundInv

\* A step before anything is written that changes nothing but where the request is.
LEMMA MoveStep ==
    ASSUME FundInv, NEW r \in Request, pc[r] \in Before \ {"idle"},
           NEW step \in (Before \ {"idle"}) \cup {"refused", "writing"},
           pc' = [pc EXCEPT ![r] = step],
           UNCHANGED <<groupVars, fundVars, trail, command, seen>>,
           step = "writing" => command[r].op \notin {"post", "reverse"},
           ReadSound(r)'
    PROVE  FundInv'
<1> USE DEF groupVars, fundVars
<1>1. /\ step \in Step \cup Finished /\ pc[r] \notin Finished \cup {"naming", "audit"}
      /\ pc \in [Request -> {"idle"} \cup Step \cup Finished]
  BY DEF Before, Step, Finished, FundInv, TypeOK
<1>2. TypeOK'
  BY <1>1 DEF FundInv, TypeOK
<1>3. entries[r] = NoEntry /\ pc'[r] = step
  BY <1>1, Unposted DEF FundInv, RequestSound, Before
<1>4. EntrySound(r)'
  BY <1>3 DEF EntrySound, Before
<1>5. AnswerSound(r)'
  BY <1>3 DEF AnswerSound, Before
<1>6. RowsSound(r)'
  <2>1. Rows(r) = {} /\ Rows(r)' = {}
    BY DEF FundInv, RequestSound, RowsSound, Rows
  <2>2. QED
    BY <1>3, <2>1 DEF RowsSound, Before
<1>7. QED
  BY <1>1, <1>2, <1>4, <1>5, <1>6, QuietStep DEF RequestSound

\* What guards, reads and checks find is so when the request goes on.
LEMMA CheckStep ==
    ASSUME FundInv, NEW r \in Request,
           \/ /\ \/ GuardUpdate(r) \/ ReadGroup(r) \/ ReadTenantGroup(r)
                 \/ ReadGroupOfMember(r) \/ ReadMember(r)
              /\ UNCHANGED fundVars
           \/ GuardAdmin(r) \/ ReadBucket(r) \/ ReadEntry(r)
           \/ CheckPost(r) \/ CheckReversal(r) \/ CheckBucket(r)
    PROVE  FundInv'
<1>a. /\ pc[r] \in {"guard", "reading", "checking"}
      /\ UNCHANGED <<groupVars, fundVars, trail, command, seen>>
  BY DEF GuardUpdate, ReadGroup, ReadTenantGroup,
         ReadGroupOfMember, ReadMember, GuardAdmin, ReadBucket, ReadEntry, CheckPost,
         CheckReversal, CheckBucket
<1>b. TypeOK /\ pc \in [Request -> {"idle"} \cup Step \cup Finished] /\ ReadSound(r)
  BY DEF FundInv, RequestSound, TypeOK
<1>1. /\ TypeOK /\ pc \in [Request -> {"idle"} \cup Step \cup Finished] /\ ReadSound(r)
      /\ pc[r] \in {"guard", "reading", "checking"}
      /\ UNCHANGED <<groupVars, fundVars, trail, command, seen>>
  BY <1>a, <1>b
<1>2. pc[r] \in Before \ {"idle"} /\ command[r] \in Command
  BY <1>1 DEF Before, ReadSound
<1>3. ASSUME NEW step \in {"reading", "refused"}, Goto(r, step)
      PROVE  FundInv'
  <2>1. ReadSound(r)'
    BY <1>1, <1>2, <1>3 DEF ReadSound, Goto
  <2>2. QED
    BY <1>1, <1>2, <1>3, <2>1, MoveStep DEF Goto, Before
<1>4. ASSUME Goto(r, "writing"), command[r].op \notin {"post", "reverse"},
             command[r].op = "updateGroup" => groups[command[r].group] # NoRow,
             command[r].op \in {"updateMember", "leave"} => members[command[r].member] # NoRow
      PROVE  FundInv'
  <2>1. ReadSound(r)'
    BY <1>1, <1>2, <1>4 DEF ReadSound, Goto, groupVars
  <2>2. QED
    BY <1>1, <1>2, <1>4, <2>1, MoveStep DEF Goto, Before
<1>5. ASSUME NEW step \in {"checking", "lookup", "emitting"}, Goto(r, step),
             step = "lookup" => command[r].op = "post" /\ command[r].key \in Key,
             step = "emitting" => command[r].op \in {"post", "reverse"},
             command[r].op = "reverse" =>
                /\ command[r].entry \in Posted
                /\ entries[command[r].entry].bucket = command[r].bucket
                /\ step # "checking" => entries[command[r].entry].type # "REVERSAL"
      PROVE  FundInv'
  <2>1. ReadSound(r)'
    BY <1>1, <1>2, <1>5 DEF ReadSound, Goto, groupVars, fundVars, Posted
  <2>2. QED
    BY <1>1, <1>2, <1>5, <2>1, MoveStep DEF Goto, Before
<1>6. CASE GuardUpdate(r)
  BY <1>3, <1>6 DEF GuardUpdate
<1>7. CASE ReadGroup(r) \/ ReadTenantGroup(r) \/ ReadGroupOfMember(r)
  BY <1>3, <1>4, <1>7 DEF ReadGroup, ReadTenantGroup, ReadGroupOfMember, FindGroup
<1>8. CASE ReadMember(r)
  BY <1>3, <1>4, <1>8 DEF ReadMember
<1>9. CASE GuardAdmin(r)
  BY <1>3, <1>5, <1>9 DEF GuardAdmin
<1>10. CASE ReadBucket(r)
  BY <1>3, <1>5, <1>10 DEF ReadBucket
<1>11. CASE ReadEntry(r)
  BY <1>3, <1>5, <1>11 DEF ReadEntry
<1>12. CASE CheckPost(r)
  BY <1>3, <1>5, <1>12 DEF CheckPost
<1>13. CASE CheckReversal(r)
  BY <1>1, <1>3, <1>5, <1>13 DEF CheckReversal, ReadSound
<1>14. CASE CheckBucket(r)
  BY <1>3, <1>4, <1>14 DEF CheckBucket
<1>15. QED
  BY <1>6, <1>7, <1>8, <1>9, <1>10, <1>11, <1>12, <1>13, <1>14

\* A new request has read and written nothing; a reversal names what is there, or
\* itself.
LEMMA ArrivalStep ==
    ASSUME FundInv, NEW r \in Request,
           (ArriveAtGroups(r) /\ UNCHANGED fundVars) \/ ArriveAtFund(r)
    PROVE  FundInv'
<1>1. /\ pc[r] = "idle" /\ UNCHANGED <<groups, members, fundVars, trail, seen>>
      /\ disturbed' \subseteq disturbed \cup Group
      /\ \E c \in Command, step \in {"guard", "writing", "reading"} :
            /\ command' = [command EXCEPT ![r] = c] /\ Goto(r, step)
            /\ step = "writing" => c.op = "createGroup"
  <2>1. CASE ArriveAtGroups(r) /\ UNCHANGED fundVars
    <3>1. PICK c \in Instruction \cap GroupCommand :
            /\ command' = [command EXCEPT ![r] = c] /\ Goto(r, FirstStep(c)) /\ Meets(r, c)
      BY <2>1 DEF ArriveAtGroups
    <3>2. c \in Command
      BY <3>1 DEF Command
    <3>3. disturbed' \subseteq disturbed \cup Group
      BY <3>1, <3>2, Kinds DEF Meets, Disturb, UpdateGroupDto
    <3>4. \E step \in {"guard", "writing", "reading"} :
             Goto(r, step) /\ (step = "writing" => c.op = "createGroup")
      <4>1. CASE FirstStep(c) = "guard"
        BY <3>1, <4>1
      <4>2. CASE FirstStep(c) = "writing" /\ c.op = "createGroup"
        BY <3>1, <4>2
      <4>3. CASE FirstStep(c) = "reading"
        BY <3>1, <4>3
      <4>4. QED
        BY <4>1, <4>2, <4>3 DEF FirstStep
    <3>5. pc[r] = "idle" /\ UNCHANGED <<groups, members, fundVars, trail, seen>>
      BY <2>1 DEF ArriveAtGroups
    <3>6. PICK step \in {"guard", "writing", "reading"} :
             Goto(r, step) /\ (step = "writing" => c.op = "createGroup")
      BY <3>4
    <3>7. QED
      BY <3>1, <3>2, <3>3, <3>5, <3>6
  <2>2. CASE ArriveAtFund(r)
    <3>1. /\ pc[r] = "idle" /\ UNCHANGED <<groups, members, disturbed, fundVars, trail, seen>>
      BY <2>2 DEF ArriveAtFund, groupVars
    <3>2. CASE \E c \in Instruction \cap (CreateBucketDto \cup PostSocialFundEntryDto) :
                 /\ command' = [command EXCEPT ![r] = c]
                 /\ Goto(r, IF c.op = "post" THEN "reading" ELSE "guard")
      <4>1. PICK c \in Instruction \cap (CreateBucketDto \cup PostSocialFundEntryDto) :
                 /\ command' = [command EXCEPT ![r] = c]
                 /\ Goto(r, IF c.op = "post" THEN "reading" ELSE "guard")
        BY <3>2
      <4>2. c \in Command
        BY DEF Command, FundCommand
      <4>3. QED
        BY <3>1, <4>1, <4>2
    <3>3. CASE \E c \in Instruction \cap ReversalTemplate, e \in Posted \cup {r} :
                 /\ command' = [command EXCEPT ![r] =
                        [op |-> "reverse", group |-> c.group, bucket |-> c.bucket,
                         entry |-> e, by |-> c.by]]
                 /\ Goto(r, "guard")
      <4>1. PICK c \in Instruction \cap ReversalTemplate, e \in Posted \cup {r} :
                 /\ command' = [command EXCEPT ![r] =
                        [op |-> "reverse", group |-> c.group, bucket |-> c.bucket,
                         entry |-> e, by |-> c.by]]
                 /\ Goto(r, "guard")
        BY <3>3
      <4>2. PICK d : d = [op |-> "reverse", group |-> c.group, bucket |-> c.bucket,
                          entry |-> e, by |-> c.by]
        OBVIOUS
      <4>3. d \in Command
        BY <4>2 DEF ReversalTemplate, Posted, Command, FundCommand, ReversalSocialFundEntryDto
      <4>4. QED
        BY <3>1, <4>1, <4>2, <4>3
    <3>4. QED
      BY <2>2, <3>2, <3>3 DEF ArriveAtFund
  <2>3. QED
    BY <2>1, <2>2
<1>2. PICK c \in Command, step \in {"guard", "writing", "reading"} :
        /\ command' = [command EXCEPT ![r] = c] /\ Goto(r, step)
        /\ step = "writing" => c.op = "createGroup"
  BY <1>1
<1>3. TypeOK /\ command \in [Request -> Command \cup {NoCommand}]
      /\ pc \in [Request -> {"idle"} \cup Step \cup Finished]
  BY DEF FundInv, TypeOK, Command
<1>4. pc'[r] = step /\ command'[r] = c
  BY <1>2, <1>3 DEF Goto
<1>5. TypeOK'
  <2>1. command' \in [Request -> Command \cup {NoCommand}]
    BY <1>2, <1>3
  <2>2. pc' \in [Request -> {"idle"} \cup Step \cup Finished]
    BY <1>2, <1>3 DEF Goto, Step
  <2>3. disturbed' \subseteq Group
    BY <1>1, <1>3 DEF TypeOK
  <2>4. QED
    BY <1>1, <1>3, <2>1, <2>2, <2>3 DEF TypeOK, fundVars, Command
<1>6. entries[r] = NoEntry /\ entries'[r] = NoEntry
  BY <1>1, Unposted DEF FundInv, RequestSound, fundVars
<1>7. EntrySound(r)' /\ AnswerSound(r)' /\ ReadSound(r)'
  <2>1. EntrySound(r)'
    BY <1>4, <1>6 DEF EntrySound
  <2>2. AnswerSound(r)'
    BY <1>4 DEF AnswerSound
  <2>3. ReadSound(r)'
    BY <1>2, <1>4 DEF ReadSound
  <2>4. QED
    BY <2>1, <2>2, <2>3
<1>8. RowsSound(r)'
  <2>1. Rows(r) = {} /\ Rows(r)' = {}
    BY <1>1 DEF FundInv, RequestSound, RowsSound, Rows, Before
  <2>2. QED
    BY <1>2, <1>4, <1>6, <2>1 DEF RowsSound
<1>9. \A x \in Request \ {r} : command'[x] = command[x] /\ seen'[x] = seen[x]
  BY <1>1, <1>2, <1>3
<1>10. step \in Step \cup Finished /\ pc[r] \notin Finished \cup {"naming", "audit"}
  BY <1>1 DEF Step, Finished
<1>11. QED
  BY <1>1, <1>2, <1>5, <1>7, <1>8, <1>9, <1>10, QuietStep DEF RequestSound, Goto, fundVars

\* The entry under the key is the answer if it was booked with the amount that
\* is asked for now.
LEMMA LookUpStep ==
    ASSUME FundInv, NEW r \in Request, LookUp(r)
    PROVE  FundInv'
<1>1. /\ TypeOK /\ ReadSound(r) /\ pc \in [Request -> {"idle"} \cup Step \cup Finished]
      /\ seen \in [Request -> Seen] /\ UniqueKeys
  BY DEF FundInv, RequestSound, TypeOK
<1>2. /\ pc[r] = "lookup" /\ UNCHANGED <<groupVars, fundVars, trail, command>>
      /\ command[r] \in PostSocialFundEntryDto /\ command[r].op = "post"
      /\ command[r].key \in Key
  BY <1>1, Kinds DEF LookUp, ReadSound
<1>3. CASE Under(command[r].bucket, command[r].key) = {}
  <2>1. Goto(r, "emitting") /\ UNCHANGED seen
    BY <1>3 DEF LookUp
  <2>2. ReadSound(r)'
    BY <1>1, <1>2, <2>1 DEF ReadSound, Goto
  <2>3. QED
    BY <1>2, <2>1, <2>2, MoveStep DEF Goto, Before
<1>4. CASE Under(command[r].bucket, command[r].key) # {}
  <2>1. PICK e \in Under(command[r].bucket, command[r].key) :
           IF entries[e].amount = command[r].amount
           THEN Goto(r, "done") /\ seen' = [seen EXCEPT ![r] = e]
           ELSE Leave(r, "mismatch")
    BY <1>4 DEF LookUp
  <2>2. /\ e \in Posted /\ e \in Request /\ IsPosting(e)
        /\ entries[e].bucket = command[r].bucket /\ entries[e].key = command[r].key
        /\ entries[e].amount = Stored(command[e].amount)
    <3>1. /\ e \in Posted /\ e \in Request
          /\ entries[e].bucket = command[r].bucket /\ entries[e].key = command[r].key
      BY <2>1 DEF Under, Posted
    <3>2. ~IsReversal(e)
      BY <1>2, <3>1, SocialFundAssumption DEF IsReversal
    <3>3. IsPosting(e)
      BY <3>1, <3>2 DEF FundInv, RequestSound, EntrySound, Posted
    <3>4. QED
      BY <3>1, <3>3, PostingThere
  <2>3. /\ command[e].amount \in Int /\ command[r].amount \in Int
    BY <1>2, <2>2, SocialFundAssumption DEF IsPosting, PostSocialFundEntryDto
  <2>4. PICK step \in {"done", "mismatch"} :
           /\ pc' = [pc EXCEPT ![r] = step]
           /\ step = "done" => entries[e].amount = command[r].amount /\ seen'[r] = e
           /\ step = "mismatch" => entries[e].amount # command[r].amount
    BY <1>1, <2>1 DEF Goto, Leave
  <2>5. /\ seen' \in [Request -> Seen]
        /\ \A x \in Request \ {r} : seen'[x] = seen[x]
    <3>1. e \in Seen /\ NoId \in Seen
      BY <2>2 DEF Seen
    <3>2. QED
      BY <1>1, <2>1, <3>1 DEF Goto, Leave
  <2>6. pc'[r] = step /\ TypeOK'
    BY <1>1, <1>2, <2>4, <2>5 DEF TypeOK, groupVars, fundVars, Finished
  <2>7. EntrySound(r)' /\ ReadSound(r)' /\ entries'[r] = NoEntry
    BY <1>1, <1>2, <2>6, Unposted DEF FundInv, RequestSound, EntrySound, ReadSound, fundVars
  <2>8. RowsSound(r)'
    <3>1. Rows(r) = {} /\ Rows(r)' = {}
      BY <1>2 DEF FundInv, RequestSound, RowsSound, Rows, Before
    <3>2. QED
      BY <1>2, <2>6, <2>7, <3>1 DEF RowsSound
  <2>9. AnswerSound(r)'
    <3>1. CASE step = "done"
      <4>1. entries[e].amount = Stored(command[r].amount)
        BY <2>2, <2>3, <2>4, <3>1, StoredOnce
      <4>2. QED
        BY <1>2, <2>2, <2>4, <2>6, <3>1, <4>1 DEF AnswerSound, fundVars, Posted
    <3>2. CASE step = "mismatch"
      <4>1. command[e].amount # command[r].amount \/ Stored(command[r].amount) # command[r].amount
        BY <2>2, <2>4, <3>2
      <4>2. (e \in Under(command[r].bucket, command[r].key))'
        BY <1>2, <2>1 DEF Under, Posted, fundVars
      <4>3. QED
        BY <1>2, <2>6, <3>2, <4>1, <4>2 DEF AnswerSound
    <3>3. QED
      BY <3>1, <3>2
  <2>10. step \in Step \cup Finished /\ pc[r] \notin Finished \cup {"naming", "audit"}
    BY <1>2 DEF Finished
  <2>11. QED
    BY <1>2, <2>4, <2>5, <2>6, <2>7, <2>8, <2>9, <2>10, QuietStep
       DEF RequestSound, groupVars, fundVars
<1>5. QED
  BY <1>3, <1>4

\* A step of request r that writes one of the tables or the trail keeps the
\* invariant of all that it does not touch.
LEMMA WriteStep ==
    ASSUME FundInv, NEW r \in Request, NEW step \in Step \cup Finished,
           pc' = [pc EXCEPT ![r] = step], UNCHANGED command, TypeOK', Grows,
           \A x \in Request \ {r} : Same(x),
           RequestSound(r)', UniqueKeys',
           \A g \in Group : GroupSound(g)', \A m \in Member : MemberSound(m)'
    PROVE  FundInv'
<1>1. \A x \in Request : RequestSound(x)'
  BY RequestKept DEF FundInv
<1>2. QED
  BY <1>1 DEF FundInv

\* What a row of the register is written with.
LEMMA RegisterWrite ==
    ASSUME FundInv, NEW r \in Request, pc[r] = "writing", pc' = [pc EXCEPT ![r] = "audit"],
           UNCHANGED <<buckets, entries, trail, command>>,
           disturbed' \subseteq disturbed \cup Group,
           command[r].op \notin {"post", "reverse"},
           groups' \in GroupTable, members' \in MemberTable, seen' \in [Request -> Seen],
           \A x \in Request \ {r} : seen'[x] = seen[x],
           \A g \in Group : groups[g] # NoRow => groups'[g] # NoRow,
           \A m \in Member : members[m] # NoRow => members'[m] # NoRow,
           ReadSound(r)',
           \A g \in Group : groups'[g] # groups[g] => GroupSound(g)',
           \A m \in Member : members'[m] # members[m] => MemberSound(m)'
    PROVE  FundInv'
<1>1. /\ TypeOK /\ pc \in [Request -> {"idle"} \cup Step \cup Finished] /\ command[r] \in Command
      /\ "audit" \in Step
  BY DEF FundInv, RequestSound, ReadSound, TypeOK, Step
<1>2. TypeOK'
  <2>1. disturbed' \subseteq Group
    BY <1>1 DEF TypeOK
  <2>2. QED
    BY <1>1, <2>1 DEF TypeOK
<1>3. pc'[r] = "audit" /\ \A x \in Request \ {r} : Same(x)
  BY <1>1 DEF Same, Rows
<1>4. Grows
  BY <1>1, Unposted DEF Grows, Posted, FundInv, RequestSound
<1>5. RegisterStays
  BY <1>1, <1>3 DEF RegisterStays, Same
<1>6. (\A g \in Group : GroupSound(g)') /\ \A m \in Member : MemberSound(m)'
  BY <1>5, RegisterKept
<1>7. entries'[r] = NoEntry
  BY Unposted DEF FundInv, RequestSound
<1>8. EntrySound(r)' /\ AnswerSound(r)'
  BY <1>3, <1>7 DEF EntrySound, AnswerSound
<1>9. RowsSound(r)'
  <2>1. Rows(r)' = {}
    BY <1>1 DEF FundInv, RequestSound, RowsSound, Rows
  <2>2. QED
    BY <1>3, <1>7, <2>1 DEF RowsSound
<1>10. UniqueKeys'
  BY DEF FundInv, UniqueKeys, Posted
<1>11. QED
  BY <1>1, <1>2, <1>3, <1>4, <1>6, <1>8, <1>9, <1>10, WriteStep DEF RequestSound

LEMMA NewGroupStep ==
    ASSUME FundInv, NEW r \in Request, CreateGroup(r) \/ CreateTenantGroup(r), UNCHANGED fundVars
    PROVE  FundInv'
<1>1. /\ TypeOK /\ pc[r] = "writing" /\ NewGroup(r) /\ command[r].op = "createGroup"
      /\ command[r] \in Command /\ groups \in [Group -> Status \cup {NoRow}]
      /\ seen \in [Request -> Seen]
  BY DEF FundInv, RequestSound, ReadSound, TypeOK, CreateGroup, CreateTenantGroup, GroupTable
<1>2. PICK g \in Group : /\ groups[g] = NoRow /\ groups' = [groups EXCEPT ![g] = "ACTIVE"]
                         /\ seen' = [seen EXCEPT ![r] = g]
                         /\ Disturb(g)
  BY <1>1 DEF NewGroup
<1>3. /\ pc' = [pc EXCEPT ![r] = "audit"]
      /\ UNCHANGED <<members, buckets, entries, trail, command>>
  BY <1>1 DEF NewGroup, Goto, fundVars
<1>4. groups' \in GroupTable /\ seen' \in [Request -> Seen]
  BY <1>1, <1>2 DEF GroupTable, Status, Seen
<1>5. pc'[r] = "audit" /\ seen'[r] = g
  BY <1>1, <1>2, <1>3 DEF TypeOK
<1>6. ReadSound(r)'
  <2>1. groups'[g] # NoRow
    BY <1>1, <1>2, SocialFundAssumption DEF Status
  <2>2. QED
    BY <1>1, <1>2, <1>3, <1>5, <2>1 DEF ReadSound
<1>7. command[r] \in CreateGroupDto
  BY <1>1, Kinds
<1>8. GroupSound(g)'
  BY <1>3, <1>5, <1>7 DEF GroupSound, Owed
<1>9. \A h \in Group : h # g => groups'[h] = groups[h]
  BY <1>1, <1>2
<1>10. \A h \in Group : groups[h] # NoRow => groups'[h] # NoRow
  BY <1>2, <1>9
<1>11. members' \in MemberTable
  BY <1>1, <1>3 DEF TypeOK
<1>12. \A x \in Request \ {r} : seen'[x] = seen[x]
  BY <1>1, <1>2
<1>13. \A m \in Member : members'[m] = members[m]
  BY <1>3
<1>14. disturbed' \subseteq disturbed \cup Group
  BY <1>2 DEF Disturb
<1>15. QED
  BY <1>1, <1>3, <1>4, <1>6, <1>8, <1>9, <1>10, <1>11, <1>12, <1>13, <1>14, RegisterWrite

LEMMA UpdateGroupStep ==
    ASSUME FundInv, NEW r \in Request, UpdateGroup(r) \/ UpdateTenantGroup(r), UNCHANGED fundVars
    PROVE  FundInv'
<1>1. /\ TypeOK /\ pc[r] = "writing" /\ command[r].op = "updateGroup"
      /\ command[r] \in Command /\ groups \in [Group -> Status \cup {NoRow}]
      /\ seen \in [Request -> Seen]
  BY DEF FundInv, RequestSound, ReadSound, TypeOK, UpdateGroup, UpdateTenantGroup, GroupTable
<1>2. PICK g : g = command[r].group
  OBVIOUS
<1>3. g \in Group /\ groups[g] # NoRow /\ command[r].status \in Status \cup {NoChange}
  <2>1. command[r] \in UpdateGroupDto
    BY <1>1, Kinds
  <2>2. QED
    BY <1>1, <1>2, <2>1 DEF FundInv, RequestSound, ReadSound, UpdateGroupDto
<1>4. PICK new : new = NewStatus(command[r])
  OBVIOUS
<1>5. new \in Status /\ new # NoRow
  BY <1>1, <1>2, <1>3, <1>4, SocialFundAssumption DEF NewStatus
<1>6. /\ groups' = [groups EXCEPT ![g] = new] /\ pc' = [pc EXCEPT ![r] = "audit"]
      /\ UNCHANGED <<members, disturbed, buckets, entries, trail, command>>
      /\ \E told \in Status \cup {NoChange} : seen' = [seen EXCEPT ![r] = told]
  BY <1>2, <1>3, <1>4, <1>5 DEF UpdateGroup, UpdateTenantGroup, Goto, fundVars
<1>7. PICK told \in Status \cup {NoChange} : seen' = [seen EXCEPT ![r] = told]
  BY <1>6
<1>8. groups' \in GroupTable /\ seen' \in [Request -> Seen]
  BY <1>1, <1>5, <1>6, <1>7 DEF GroupTable, Seen
<1>9. pc'[r] = "audit" /\ seen'[r] = told
  BY <1>1, <1>6, <1>7 DEF TypeOK
<1>10. ReadSound(r)'
  <2>1. groups'[command'[r].group] # NoRow
    BY <1>1, <1>2, <1>3, <1>5, <1>6
  <2>2. QED
    BY <1>1, <1>6, <1>9, <2>1 DEF ReadSound
<1>11. \A h \in Group : h # g => groups'[h] = groups[h]
  BY <1>1, <1>6
<1>12. GroupSound(g)'
  <2>1. GroupSound(g)
    BY <1>3 DEF FundInv
  <2>2. g \in FirstGroups \/ HasRow(g, "CREATED", CreateGroupDto) \/ Owed(g, CreateGroupDto)
    BY <1>3, <2>1 DEF GroupSound
  <2>3. HasRow(g, "CREATED", CreateGroupDto) => HasRow(g, "CREATED", CreateGroupDto)'
    BY <1>6 DEF HasRow
  <2>4. Owed(g, CreateGroupDto) => Owed(g, CreateGroupDto)'
    <3>1. \A x \in Request : x # r => pc'[x] = pc[x] /\ seen'[x] = seen[x]
      BY <1>1, <1>6, <1>7 DEF TypeOK
    <3>2. QED
      BY <1>1, <1>6, <3>1 DEF Owed
  <2>5. QED
    BY <2>2, <2>3, <2>4 DEF GroupSound
<1>13. \A h \in Group : groups[h] # NoRow => groups'[h] # NoRow
  BY <1>1, <1>5, <1>6
<1>14. members' \in MemberTable /\ \A m \in Member : members'[m] = members[m]
  BY <1>1, <1>6 DEF TypeOK
<1>15. \A x \in Request \ {r} : seen'[x] = seen[x]
  BY <1>1, <1>7
<1>16. QED
  BY <1>1, <1>6, <1>8, <1>10, <1>11, <1>12, <1>13, <1>14, <1>15, RegisterWrite

LEMMA CreateMemberStep ==
    ASSUME FundInv, NEW r \in Request, CreateMember(r), UNCHANGED fundVars
    PROVE  FundInv'
<1>1. /\ TypeOK /\ pc[r] = "writing" /\ command[r].op = "createMember"
      /\ command[r] \in Command /\ members \in [Member -> MemberRow \cup {NoRow}]
      /\ seen \in [Request -> Seen]
  BY DEF FundInv, RequestSound, ReadSound, TypeOK, CreateMember, MemberTable
<1>2. PICK row : row = [group |-> command[r].group, role |-> RoleOrDefault(command[r]),
                        status |-> "ACTIVE"]
  OBVIOUS
<1>3. command[r] \in CreateMemberDto
  BY <1>1, Kinds
<1>4. row \in MemberRow /\ row.status = "ACTIVE" /\ row # NoRow
  BY <1>2, <1>3, GroupsAssumption DEF MemberRow, RoleOrDefault, CreateMemberDto, Role
<1>5. PICK m \in Member : /\ members[m] = NoRow /\ members' = [members EXCEPT ![m] = row]
                          /\ seen' = [seen EXCEPT ![r] = m]
  BY <1>2 DEF CreateMember
<1>6. /\ pc' = [pc EXCEPT ![r] = "audit"]
      /\ UNCHANGED <<groups, disturbed, buckets, entries, trail, command>>
  BY DEF CreateMember, Goto, fundVars
<1>7. members' \in MemberTable /\ seen' \in [Request -> Seen]
  BY <1>1, <1>4, <1>5 DEF MemberTable, Seen
<1>8. pc'[r] = "audit" /\ seen'[r] = m /\ members'[m] = row
  BY <1>1, <1>5, <1>6 DEF TypeOK
<1>9. ReadSound(r)'
  BY <1>1, <1>6, <1>8 DEF ReadSound
<1>10. MemberSound(m)'
  BY <1>3, <1>4, <1>6, <1>8 DEF MemberSound, Owed
<1>11. \A h \in Member : h # m => members'[h] = members[h]
  BY <1>1, <1>5
<1>12. \A h \in Member : members[h] # NoRow => members'[h] # NoRow
  BY <1>5, <1>11
<1>13. groups' \in GroupTable /\ \A g \in Group : groups'[g] = groups[g]
  BY <1>1, <1>6 DEF TypeOK
<1>14. \A x \in Request \ {r} : seen'[x] = seen[x]
  BY <1>1, <1>5
<1>15. QED
  BY <1>1, <1>6, <1>7, <1>9, <1>10, <1>11, <1>12, <1>13, <1>14, RegisterWrite

\* A new role, or the end of a membership.
LEMMA ChangeMemberStep ==
    ASSUME FundInv, NEW r \in Request, UpdateMember(r) \/ LeaveGroup(r), UNCHANGED fundVars
    PROVE  FundInv'
<1>1. /\ TypeOK /\ pc[r] = "writing" /\ command[r].op \in {"updateMember", "leave"}
      /\ command[r] \in Command /\ members \in [Member -> MemberRow \cup {NoRow}]
  BY DEF FundInv, RequestSound, ReadSound, TypeOK, UpdateMember, LeaveGroup, MemberTable
<1>2. PICK m : m = command[r].member
  OBVIOUS
<1>3. command[r] \in UpdateMemberDto
  BY <1>1, Kinds
<1>4. m \in Member /\ members[m] # NoRow
  BY <1>1, <1>2, <1>3 DEF FundInv, RequestSound, ReadSound, UpdateMemberDto
<1>5. PICK old \in MemberRow : old = members[m]
  BY <1>1, <1>4
<1>6. /\ pc' = [pc EXCEPT ![r] = "audit"]
      /\ UNCHANGED <<groups, disturbed, buckets, entries, trail, command, seen>>
  BY DEF UpdateMember, LeaveGroup, Goto, fundVars
<1>7. PICK row \in MemberRow :
         /\ members' = [members EXCEPT ![m] = row]
         /\ row.status = old.status \/ (row.status = "LEFT" /\ command[r] \in Leaving(m))
  <2>1. CASE UpdateMember(r)
    <3>1. command[r].role \in Role
      BY <1>3, <2>1 DEF UpdateMember, UpdateMemberDto
    <3>2. PICK row : row = [old EXCEPT !.role = command[r].role]
      OBVIOUS
    <3>3. row \in MemberRow /\ row.status = old.status
      BY <3>1, <3>2 DEF MemberRow
    <3>4. members' = [members EXCEPT ![m] = row]
      BY <1>1, <1>2, <1>4, <1>5, <2>1, <3>2 DEF UpdateMember
    <3>5. QED
      BY <3>3, <3>4
  <2>2. CASE LeaveGroup(r)
    <3>1. PICK row : row = [old EXCEPT !.status = "LEFT"]
      OBVIOUS
    <3>2. row \in MemberRow /\ row.status = "LEFT"
      BY <3>1 DEF MemberRow
    <3>3. members' = [members EXCEPT ![m] = row]
      BY <1>1, <1>2, <1>4, <1>5, <2>2, <3>1 DEF LeaveGroup
    <3>4. command[r] \in Leaving(m)
      BY <1>1, <1>2, <2>2, Kinds DEF LeaveGroup
    <3>5. QED
      BY <3>2, <3>3, <3>4
  <2>3. QED
    BY <2>1, <2>2
<1>8. pc'[r] = "audit" /\ members'[m] = row /\ row # NoRow
  BY <1>1, <1>4, <1>6, <1>7, GroupsAssumption DEF TypeOK
<1>9. members' \in MemberTable
  BY <1>1, <1>7 DEF MemberTable
<1>10. ReadSound(r)'
  BY <1>1, <1>6, <1>8 DEF ReadSound
<1>11. MemberSound(m)'
  <2>1. /\ FirstMembers[m] # NoRow \/ HasRow(m, "CREATED", CreateMemberDto)
                                   \/ Owed(m, CreateMemberDto)
        /\ old.status = "LEFT" =>
              \/ FirstMembers[m] # NoRow /\ FirstMembers[m].status = "LEFT"
              \/ HasRow(m, "LEFT", Leaving(m))
              \/ \E x \in Request : command[x] \in Leaving(m) /\ pc[x] \in {"audit", "crashed"}
    BY <1>4, <1>5 DEF FundInv, MemberSound
  <2>2. \A x \in Request : x # r => pc'[x] = pc[x]
    BY <1>1, <1>6 DEF TypeOK
  <2>3. HasRow(m, "CREATED", CreateMemberDto) => HasRow(m, "CREATED", CreateMemberDto)'
    BY <1>6 DEF HasRow
  <2>4. HasRow(m, "LEFT", Leaving(m)) => HasRow(m, "LEFT", Leaving(m))'
    BY <1>6 DEF HasRow, Leaving
  <2>5. Owed(m, CreateMemberDto) => Owed(m, CreateMemberDto)'
    BY <1>1, <1>6, <2>2 DEF Owed
  <2>6. (\E x \in Request : command[x] \in Leaving(m) /\ pc[x] \in {"audit", "crashed"})
        => \E x \in Request : command'[x] \in Leaving(m) /\ pc'[x] \in {"audit", "crashed"}
    BY <1>1, <1>6, <2>2
  <2>7. command[r] \in Leaving(m)
        => \E x \in Request : command'[x] \in Leaving(m) /\ pc'[x] \in {"audit", "crashed"}
    BY <1>6, <1>8
  <2>8. QED
    BY <1>7, <1>8, <2>1, <2>3, <2>4, <2>5, <2>6, <2>7 DEF MemberSound, Leaving
<1>12. \A h \in Member : h # m => members'[h] = members[h]
  BY <1>1, <1>7
<1>13. \A h \in Member : members[h] # NoRow => members'[h] # NoRow
  BY <1>8, <1>12
<1>14. groups' \in GroupTable /\ \A g \in Group : groups'[g] = groups[g]
  BY <1>1, <1>6 DEF TypeOK
<1>15. seen' \in [Request -> Seen] /\ \A x \in Request \ {r} : seen'[x] = seen[x]
  BY <1>1, <1>6 DEF TypeOK
<1>16. command[r].op \notin {"post", "reverse"}
  BY <1>1
<1>17. QED
  BY <1>1, <1>6, <1>9, <1>10, <1>11, <1>12, <1>13, <1>14, <1>15, <1>16, RegisterWrite

LEMMA CreateBucketStep ==
    ASSUME FundInv, NEW r \in Request, CreateBucket(r)
    PROVE  FundInv'
<1>1. /\ TypeOK /\ pc[r] = "writing" /\ command[r].op = "createBucket"
      /\ command[r] \in Command /\ pc \in [Request -> {"idle"} \cup Step \cup Finished]
      /\ buckets \in [Bucket -> Group \cup {NoRow}] /\ seen \in [Request -> Seen]
  BY DEF FundInv, RequestSound, ReadSound, TypeOK, CreateBucket, BucketTable
<1>2. command[r].group \in Group
  BY <1>1, Kinds DEF CreateBucketDto
<1>3. PICK b \in Bucket : /\ buckets' = [buckets EXCEPT ![b] = command[r].group]
                          /\ seen' = [seen EXCEPT ![r] = b]
  BY DEF CreateBucket
<1>4. /\ pc' = [pc EXCEPT ![r] = "audit"]
      /\ UNCHANGED <<groups, members, disturbed, entries, trail, command>>
  BY DEF CreateBucket, Goto, groupVars
<1>5. pc'[r] = "audit" /\ seen'[r] = b
  BY <1>1, <1>3, <1>4
<1>6. TypeOK'
  <2>1. buckets' \in BucketTable
    BY <1>1, <1>2, <1>3 DEF BucketTable
  <2>2. seen' \in [Request -> Seen]
    BY <1>1, <1>3 DEF Seen
  <2>3. pc' \in [Request -> {"idle"} \cup Step \cup Finished]
    BY <1>1, <1>4 DEF Step
  <2>4. QED
    BY <1>1, <1>4, <2>1, <2>2, <2>3 DEF TypeOK
<1>7. entries'[r] = NoEntry
  BY <1>1, <1>4, Unposted DEF FundInv, RequestSound
<1>8. EntrySound(r)' /\ AnswerSound(r)'
  BY <1>5, <1>7 DEF EntrySound, AnswerSound
<1>9. ReadSound(r)'
  BY <1>1, <1>4, <1>5 DEF ReadSound
<1>10. RowsSound(r)'
  <2>1. Rows(r)' = {}
    BY <1>1, <1>4 DEF FundInv, RequestSound, RowsSound, Rows
  <2>2. QED
    BY <1>4, <1>5, <1>7, <2>1 DEF RowsSound
<1>11. "audit" \in Step \cup Finished /\ pc[r] \notin Finished \cup {"naming", "audit"}
  BY <1>1 DEF Step, Finished
<1>12. \A x \in Request \ {r} : command'[x] = command[x] /\ seen'[x] = seen[x]
  BY <1>1, <1>3, <1>4
<1>13. QED
  BY <1>1, <1>4, <1>6, <1>8, <1>9, <1>10, <1>11, <1>12, QuietStep DEF RequestSound

\* What a crash leaves undone stays so.
LEMMA CrashStep ==
    ASSUME FundInv, NEW r \in Request, Crash(r), UNCHANGED fundVars
    PROVE  FundInv'
<1>1. /\ TypeOK /\ pc[r] \in Step /\ ReadSound(r)
      /\ pc \in [Request -> {"idle"} \cup Step \cup Finished]
      /\ seen \in [Request -> Seen]
  BY DEF FundInv, RequestSound, TypeOK, Crash
<1>2. /\ pc' = [pc EXCEPT ![r] = "crashed"] /\ seen' = [seen EXCEPT ![r] = NoId]
      /\ UNCHANGED <<groups, members, buckets, entries, trail, command>>
  BY DEF Crash, Leave, Goto, fundVars
<1>3. pc[r] # "idle" /\ pc'[r] = "crashed" /\ command[r] \in Command /\ pc[r] \notin Finished
  BY <1>1, <1>2 DEF Step, ReadSound, Finished
<1>4. TypeOK'
  <2>1. disturbed' \subseteq Group
    BY <1>1, <1>3, Kinds DEF Crash, TypeOK, UpdateGroupDto
  <2>2. seen' \in [Request -> Seen]
    BY <1>1, <1>2 DEF Seen
  <2>3. pc' \in [Request -> {"idle"} \cup Step \cup Finished]
    BY <1>1, <1>2 DEF Finished
  <2>4. QED
    BY <1>1, <1>2, <2>1, <2>2, <2>3 DEF TypeOK
<1>5. EntrySound(r)'
  <2>1. entries[r] # NoEntry => IsPosting(r)
    BY <1>1 DEF FundInv, RequestSound, EntrySound, IsReversal, Step
  <2>2. IsPosting(r) => IsPosting(r)'
    BY <1>2, <1>3 DEF IsPosting
  <2>3. QED
    BY <1>2, <1>3, <2>1, <2>2 DEF EntrySound
<1>6. AnswerSound(r)' /\ ReadSound(r)'
  BY <1>2, <1>3 DEF AnswerSound, ReadSound
<1>7. RowsSound(r)'
  <2>1. /\ Rows(r)' = Rows(r) /\ \A i \in Rows(r) : trail'[i] = trail[i]
        /\ pc[r] \in Before => Rows(r) = {}
        /\ pc[r] = "audit" \/ pc[r] \in {"writing", "naming"} \/ pc[r] \in Before
    BY <1>1, <1>2 DEF Rows, FundInv, RequestSound, RowsSound, Step, Before
  <2>2. command[r].op = "post" => RowsSound(r)'
    BY <1>2, <1>3, <2>1 DEF FundInv, RequestSound, RowsSound, Before
  <2>3. command[r].op = "reverse" => RowsSound(r)'
    BY <1>2, <1>3, <2>1 DEF FundInv, RequestSound, RowsSound, Before
  <2>4. command[r].op \notin {"post", "reverse"} => RowsSound(r)'
    BY <1>2, <1>3, <2>1 DEF FundInv, RequestSound, RowsSound, Before
  <2>5. QED
    BY <2>2, <2>3, <2>4
<1>8. "crashed" \in Step \cup Finished /\ \A x \in Request \ {r} : seen'[x] = seen[x]
  BY <1>1, <1>2 DEF Finished
<1>9. QED
  BY <1>1, <1>2, <1>3, <1>4, <1>5, <1>6, <1>7, <1>8, QuietStep DEF RequestSound

\* A row at the end of the trail leaves the others where they are.
LEMMA Appended ==
    ASSUME TypeOK, NEW r \in Request, NEW row \in AuditEventRow, row.request = r,
           trail' = Append(trail, row)
    PROVE  /\ trail' \in Seq(AuditEventRow)
           /\ \E n : /\ n \notin DOMAIN trail /\ DOMAIN trail' = DOMAIN trail \cup {n}
                     /\ trail'[n] = row /\ Rows(r)' = Rows(r) \cup {n}
           /\ \A i \in DOMAIN trail : i \in DOMAIN trail' /\ trail'[i] = trail[i]
           /\ \A x \in Request \ {r} : Rows(x)' = Rows(x)
<1>1. trail \in Seq(AuditEventRow)
  BY DEF TypeOK
<1>2. PICK n : n = Len(trail) + 1
  OBVIOUS
<1>3. /\ trail' \in Seq(AuditEventRow) /\ DOMAIN trail = 1..Len(trail) /\ Len(trail) \in Nat
      /\ DOMAIN trail' = 1..n /\ trail'[n] = row
      /\ \A i \in 1..Len(trail) : trail'[i] = trail[i]
  BY <1>1, <1>2
<1>4. n \notin DOMAIN trail /\ DOMAIN trail' = DOMAIN trail \cup {n}
  BY <1>2, <1>3
<1>5. \A x : Rows(x)' = Rows(x) \cup (IF x = r THEN {n} ELSE {})
  BY <1>3, <1>4 DEF Rows
<1>6. QED
  BY <1>3, <1>4, <1>5

\* The audit row of the register or of a new bucket.
LEMMA AuditedStep ==
    ASSUME FundInv, NEW r \in Request, pc[r] = "audit", UNCHANGED <<groupVars, fundVars, command>>,
           NEW entity, NEW action, NEW status, Emit(r, entity, action, status), Leave(r, "done"),
           AuditRow(r, entity, action, status) \in AuditEventRow,
           entity # NoId, action # "REVERSED",
           command[r].op \in {"createGroup", "createMember"}
              => entity = seen[r] /\ action = "CREATED",
           command[r].op = "leave" => entity = command[r].member /\ action = "LEFT"
    PROVE  FundInv'
<1> USE DEF groupVars, fundVars
<1>1. /\ TypeOK /\ ReadSound(r) /\ pc \in [Request -> {"idle"} \cup Step \cup Finished]
      /\ seen \in [Request -> Seen] /\ command[r] \in Command
      /\ command[r].op \notin {"post", "reverse"}
  BY DEF FundInv, RequestSound, ReadSound, TypeOK
<1>2. PICK row \in AuditEventRow : row = AuditRow(r, entity, action, status)
  OBVIOUS
<1>3. row.request = r /\ row.entity = entity /\ row.action = action /\ trail' = Append(trail, row)
  BY <1>2 DEF AuditRow, Emit
<1>4. /\ trail' \in Seq(AuditEventRow)
      /\ \A i \in DOMAIN trail : i \in DOMAIN trail' /\ trail'[i] = trail[i]
      /\ \A x \in Request \ {r} : Rows(x)' = Rows(x)
  BY <1>1, <1>3, Appended
<1>5. PICK n : /\ n \notin DOMAIN trail /\ DOMAIN trail' = DOMAIN trail \cup {n}
               /\ trail'[n] = row /\ Rows(r)' = Rows(r) \cup {n}
  BY <1>1, <1>3, Appended
<1>6. /\ pc' = [pc EXCEPT ![r] = "done"] /\ pc'[r] = "done"
      /\ seen' \in [Request -> Seen] /\ \A x \in Request \ {r} : seen'[x] = seen[x]
  BY <1>1 DEF Leave, Goto, Seen
<1>7. TypeOK'
  BY <1>1, <1>4, <1>6 DEF TypeOK, Finished
<1>8. entries[r] = NoEntry
  BY <1>1, Unposted DEF FundInv, RequestSound
<1>9. Grows
  BY <1>1, <1>6, <1>8 DEF Grows, Posted
<1>10. \A x \in Request \ {r} : Same(x)
  BY <1>1, <1>4, <1>6 DEF Same, Rows
<1>11. RequestSound(r)'
  <2>1. EntrySound(r)'
    BY <1>6, <1>8 DEF EntrySound
  <2>2. AnswerSound(r)'
    BY <1>1, Kinds DEF AnswerSound
  <2>3. ReadSound(r)'
    BY <1>1, <1>6 DEF ReadSound
  <2>4. RowsSound(r)'
    <3>1. Rows(r) = {}
      BY <1>1 DEF FundInv, RequestSound, RowsSound
    <3>2. QED
      BY <1>1, <1>3, <1>5, <1>6, <3>1 DEF RowsSound, Before
  <2>5. QED
    BY <2>1, <2>2, <2>3, <2>4 DEF RequestSound
<1>12. UniqueKeys'
  BY DEF FundInv, UniqueKeys, Posted
<1>13. \A e, a, C : HasRow(e, a, C) => HasRow(e, a, C)'
  BY <1>4 DEF HasRow
<1>14. \A id, C : command[r] \in C /\ seen[r] = id /\ action = "CREATED" /\ entity = id
                  => HasRow(id, "CREATED", C)'
  BY <1>3, <1>5 DEF HasRow
<1>15. \A x \in Request \ {r} : pc'[x] = pc[x] /\ seen'[x] = seen[x] /\ command'[x] = command[x]
  BY <1>1, <1>6
<1>16. ASSUME NEW id, NEW C \in {CreateGroupDto, CreateMemberDto}, Owed(id, C)
       PROVE  Owed(id, C)' \/ HasRow(id, "CREATED", C)'
  <2>1. PICK x \in Request : /\ command[x] \in C
                             /\ pc[x] = "crashed" \/ (pc[x] = "audit" /\ seen[x] = id)
    BY <1>16 DEF Owed
  <2>2. CASE x = r
    <3>1. command[r].op \in {"createGroup", "createMember"}
      BY <1>1, <2>1, <2>2, Kinds
    <3>2. QED
      BY <1>14, <2>1, <2>2, <3>1
  <2>3. CASE x # r
    BY <1>15, <2>1, <2>3 DEF Owed
  <2>4. QED
    BY <2>2, <2>3
<1>17. ASSUME NEW g \in Group PROVE GroupSound(g)'
  BY <1>13, <1>16 DEF GroupSound, FundInv
<1>18. ASSUME NEW m \in Member PROVE MemberSound(m)'
  <2>1. MemberSound(m) /\ members'[m] = members[m]
    BY DEF FundInv
  <2>2. ASSUME NEW x \in Request, command[x] \in Leaving(m), pc[x] \in {"audit", "crashed"}
        PROVE  \/ HasRow(m, "LEFT", Leaving(m))'
               \/ \E y \in Request : command'[y] \in Leaving(m) /\ pc'[y] \in {"audit", "crashed"}
    <3>1. CASE x = r
      <4>1. entity = m /\ action = "LEFT"
        BY <2>2, <3>1 DEF Leaving
      <4>2. QED
        BY <1>3, <1>5, <2>2, <3>1, <4>1 DEF HasRow, Leaving
    <3>2. CASE x # r
      BY <1>15, <2>2, <3>2
    <3>3. QED
      BY <3>1, <3>2
  <2>3. HasRow(m, "LEFT", Leaving(m)) => HasRow(m, "LEFT", Leaving(m))'
    BY <1>4 DEF HasRow, Leaving
  <2>4. HasRow(m, "CREATED", CreateMemberDto) => HasRow(m, "CREATED", CreateMemberDto)'
    BY <1>13
  <2>5. Owed(m, CreateMemberDto)
        => Owed(m, CreateMemberDto)' \/ HasRow(m, "CREATED", CreateMemberDto)'
    BY <1>16
  <2>6. QED
    BY <2>1, <2>2, <2>3, <2>4, <2>5 DEF MemberSound, Leaving
<1>19. "done" \in Step \cup Finished
  BY DEF Finished
<1>20. QED
  BY <1>6, <1>7, <1>9, <1>10, <1>11, <1>12, <1>17, <1>18, <1>19, WriteStep

LEMMA AuditStep ==
    ASSUME FundInv, NEW r \in Request,
           \/ /\ \/ AuditGroupCreated(r) \/ AuditTenantGroupCreated(r)
                 \/ AuditGroupUpdated(r) \/ AuditTenantGroupUpdated(r)
                 \/ AuditMemberCreated(r) \/ AuditMemberUpdated(r) \/ AuditMemberLeft(r)
              /\ UNCHANGED fundVars
           \/ AuditBucket(r)
    PROVE  FundInv'
<1>1. ReadSound(r) /\ pc[r] = "audit" /\ command[r] \in Command
      /\ UNCHANGED <<groupVars, fundVars, command>>
  <2>1. pc[r] = "audit" /\ UNCHANGED <<groupVars, fundVars, command>>
    BY DEF AuditGroupCreated, AuditTenantGroupCreated, AuditGroupUpdated,
           AuditTenantGroupUpdated, AuditMemberCreated, AuditMemberUpdated, AuditMemberLeft,
           AuditBucket, Audited, Auditing, AuditingVia
  <2>2. QED
    BY <2>1 DEF FundInv, RequestSound, ReadSound
<1>2. ASSUME NEW entity \in Group \cup Member \cup Bucket, NEW action \in {"CREATED", "UPDATED", "LEFT"},
             NEW status \in Status \cup {NoChange}
      PROVE  AuditRow(r, entity, action, status) \in AuditEventRow /\ entity # NoId
  BY GroupsAssumption, SocialFundAssumption DEF AuditRow, AuditEventRow
<1>3. CASE AuditGroupCreated(r)
  <2>1. /\ command[r].op = "createGroup" /\ seen[r] \in Group
        /\ Emit(r, seen[r], "CREATED", NoChange) /\ Leave(r, "done")
    BY <1>1, <1>3 DEF AuditGroupCreated, AuditingVia, Auditing, Audited, ReadSound
  <2>2. AuditRow(r, seen[r], "CREATED", NoChange) \in AuditEventRow /\ seen[r] # NoId
    BY <1>2, <2>1
  <2>3. QED
    BY <1>1, <2>1, <2>2, AuditedStep
<1>4. CASE AuditTenantGroupCreated(r)
  <2>1. /\ command[r].op = "createGroup" /\ seen[r] \in Group
        /\ Emit(r, seen[r], "CREATED", "ACTIVE") /\ Leave(r, "done")
    BY <1>1, <1>4 DEF AuditTenantGroupCreated, AuditingVia, Auditing, Audited, ReadSound
  <2>2. AuditRow(r, seen[r], "CREATED", "ACTIVE") \in AuditEventRow /\ seen[r] # NoId
    BY <1>2, <2>1 DEF Status
  <2>3. QED
    BY <1>1, <2>1, <2>2, AuditedStep
<1>5. CASE AuditGroupUpdated(r) \/ AuditTenantGroupUpdated(r)
  <2>1. /\ command[r].op = "updateGroup" /\ seen[r] \in Status \cup {NoChange}
        /\ Emit(r, command[r].group, "UPDATED", seen[r]) /\ Leave(r, "done")
    BY <1>1, <1>5 DEF AuditGroupUpdated, AuditTenantGroupUpdated, AuditingVia, Auditing, Audited,
                      ReadSound
  <2>2. command[r].group \in Group
    BY <1>1, <2>1, Kinds DEF UpdateGroupDto
  <2>3. AuditRow(r, command[r].group, "UPDATED", seen[r]) \in AuditEventRow
        /\ command[r].group # NoId
    BY <1>2, <2>1, <2>2
  <2>4. QED
    BY <1>1, <2>1, <2>3, AuditedStep
<1>6. CASE AuditMemberCreated(r)
  <2>1. /\ command[r].op = "createMember" /\ seen[r] \in Member
        /\ Emit(r, seen[r], "CREATED", NoChange) /\ Leave(r, "done")
    BY <1>1, <1>6 DEF AuditMemberCreated, Auditing, Audited, ReadSound
  <2>2. AuditRow(r, seen[r], "CREATED", NoChange) \in AuditEventRow /\ seen[r] # NoId
    BY <1>2, <2>1
  <2>3. QED
    BY <1>1, <2>1, <2>2, AuditedStep
<1>7. CASE AuditMemberUpdated(r)
  <2>1. /\ command[r].op = "updateMember"
        /\ Emit(r, command[r].member, "UPDATED", NoChange) /\ Leave(r, "done")
    BY <1>7 DEF AuditMemberUpdated, Auditing, Audited
  <2>2. command[r].member \in Member
    BY <1>1, <2>1, Kinds DEF UpdateMemberDto
  <2>3. AuditRow(r, command[r].member, "UPDATED", NoChange) \in AuditEventRow
        /\ command[r].member # NoId
    BY <1>2, <2>2
  <2>4. QED
    BY <1>1, <2>1, <2>3, AuditedStep
<1>8. CASE AuditMemberLeft(r)
  <2>1. /\ command[r].op = "leave"
        /\ Emit(r, command[r].member, "LEFT", NoChange) /\ Leave(r, "done")
    BY <1>8 DEF AuditMemberLeft, Auditing, Audited
  <2>2. command[r].member \in Member
    BY <1>1, <2>1, Kinds DEF UpdateMemberDto
  <2>3. AuditRow(r, command[r].member, "LEFT", NoChange) \in AuditEventRow
        /\ command[r].member # NoId
    BY <1>2, <2>2
  <2>4. QED
    BY <1>1, <2>1, <2>3, AuditedStep
<1>9. CASE AuditBucket(r)
  <2>1. /\ command[r].op = "createBucket" /\ seen[r] \in Bucket
        /\ Emit(r, seen[r], "CREATED", NoChange) /\ Leave(r, "done")
    BY <1>1, <1>9 DEF AuditBucket, ReadSound
  <2>2. AuditRow(r, seen[r], "CREATED", NoChange) \in AuditEventRow /\ seen[r] # NoId
    BY <1>2, <2>1
  <2>3. QED
    BY <1>1, <2>1, <2>2, AuditedStep
<1>10. QED
  BY <1>3, <1>4, <1>5, <1>6, <1>7, <1>8, <1>9

\* The audit row of an entry comes before the entry.
LEMMA EmitStep ==
    ASSUME FundInv, NEW r \in Request, EmitPosted(r) \/ EmitReversed(r)
    PROVE  FundInv'
<1> USE DEF groupVars, fundVars
<1>1. /\ TypeOK /\ ReadSound(r) /\ pc \in [Request -> {"idle"} \cup Step \cup Finished]
      /\ pc[r] = "emitting" /\ command[r] \in Command /\ command[r].op \in {"post", "reverse"}
      /\ pc' = [pc EXCEPT ![r] = "writing"]
      /\ UNCHANGED <<groupVars, fundVars, command, seen>>
  BY DEF FundInv, RequestSound, ReadSound, TypeOK, EmitPosted, EmitReversed, Goto
<1>2. PICK row \in AuditEventRow :
         /\ row.request = r /\ trail' = Append(trail, row)
         /\ command[r].op = "post" =>
               row.entity = NoId /\ row.action = "CREATED" /\ row.status = NoChange
         /\ command[r].op = "reverse" => row.entity = command[r].entry /\ row.action = "REVERSED"
  <2>1. CASE EmitPosted(r)
    <3>1. PICK row : row = AuditRow(r, NoId, "CREATED", NoChange)
      OBVIOUS
    <3>2. row \in AuditEventRow
      BY <3>1 DEF AuditRow, AuditEventRow
    <3>3. QED
      BY <2>1, <3>1, <3>2 DEF EmitPosted, Emit, AuditRow
  <2>2. CASE EmitReversed(r)
    <3>1. PICK row : row = AuditRow(r, command[r].entry, "REVERSED", NoChange)
      OBVIOUS
    <3>2. command[r].entry \in Request
      BY <1>1, <2>2, Kinds DEF EmitReversed, ReversalSocialFundEntryDto
    <3>3. row \in AuditEventRow
      BY <3>1, <3>2 DEF AuditRow, AuditEventRow
    <3>4. QED
      BY <2>2, <3>1, <3>3 DEF EmitReversed, Emit, AuditRow
  <2>3. QED
    BY <2>1, <2>2
<1>3. /\ trail' \in Seq(AuditEventRow)
      /\ \A i \in DOMAIN trail : i \in DOMAIN trail' /\ trail'[i] = trail[i]
      /\ \A x \in Request \ {r} : Rows(x)' = Rows(x)
  BY <1>1, <1>2, Appended
<1>4. PICK n : /\ n \notin DOMAIN trail /\ DOMAIN trail' = DOMAIN trail \cup {n}
               /\ trail'[n] = row /\ Rows(r)' = Rows(r) \cup {n}
  BY <1>1, <1>2, Appended
<1>5. pc'[r] = "writing" /\ "writing" \in Step \cup Finished
  BY <1>1 DEF Step
<1>6. TypeOK'
  BY <1>1, <1>3, <1>5 DEF TypeOK, Step
<1>7. entries[r] = NoEntry
  BY <1>1, Unposted DEF FundInv, RequestSound
<1>8. Grows
  BY <1>1, <1>7 DEF Grows, Posted
<1>9. \A x \in Request \ {r} : Same(x)
  BY <1>1, <1>3 DEF Same, Rows
<1>10. RequestSound(r)'
  <2>1. EntrySound(r)'
    BY <1>1, <1>5, <1>7 DEF EntrySound
  <2>2. AnswerSound(r)'
    BY <1>5 DEF AnswerSound
  <2>3. ReadSound(r)'
    BY <1>1, <1>5 DEF ReadSound, Posted
  <2>4. RowsSound(r)'
    <3>1. Rows(r) = {}
      BY <1>1 DEF FundInv, RequestSound, RowsSound, Before
    <3>2. QED
      BY <1>1, <1>2, <1>4, <1>5, <3>1 DEF RowsSound, Before
  <2>5. QED
    BY <2>1, <2>2, <2>3, <2>4 DEF RequestSound
<1>11. RegisterStays
  BY <1>1, <1>3, <1>9 DEF RegisterStays, Same
<1>12. UniqueKeys'
  BY <1>1 DEF FundInv, UniqueKeys, Posted
<1>13. (\A g \in Group : GroupSound(g)') /\ \A m \in Member : MemberSound(m)'
  BY <1>1, <1>11, RegisterKept
<1>14. QED
  BY <1>1, <1>5, <1>6, <1>8, <1>9, <1>10, <1>12, <1>13, WriteStep

\* A new row among the entries.
LEMMA EntryStep ==
    ASSUME FundInv, NEW r \in Request, pc[r] = "writing", NEW step \in {"naming", "done"},
           pc' = [pc EXCEPT ![r] = step], NEW row \in EntryRow,
           entries' = [entries EXCEPT ![r] = row],
           UNCHANGED <<groupVars, buckets, trail, command>>,
           seen' \in [Request -> Seen], \A x \in Request \ {r} : seen'[x] = seen[x],
           command[r].op = IF step = "naming" THEN "post" ELSE "reverse",
           IsPosting(r)' \/ IsReversal(r)',
           row.key # NoKey => Under(row.bucket, row.key) = {}
    PROVE  FundInv'
<1> USE DEF groupVars
<1>1. /\ TypeOK /\ ReadSound(r) /\ pc \in [Request -> {"idle"} \cup Step \cup Finished]
      /\ entries \in [Request -> EntryRow \cup {NoEntry}] /\ command[r] \in Command
  BY DEF FundInv, RequestSound, ReadSound, TypeOK
<1>2. step \in Step \cup Finished /\ pc'[r] = step /\ entries'[r] = row /\ row # NoEntry
  BY <1>1, SocialFundAssumption DEF Step, Finished
<1>3. TypeOK'
  BY <1>1, <1>2 DEF TypeOK
<1>4. entries[r] = NoEntry
  BY <1>1, Unposted DEF FundInv, RequestSound
<1>5. Grows
  BY <1>1, <1>4 DEF Grows, Posted
<1>6. \A x \in Request \ {r} : Same(x)
  BY <1>1 DEF Same, Rows
<1>7. RequestSound(r)'
  <2>1. EntrySound(r)'
    BY <1>2 DEF EntrySound
  <2>2. AnswerSound(r)'
    BY <1>1, <1>2, Kinds DEF AnswerSound
  <2>3. ReadSound(r)'
    BY <1>1, <1>2 DEF ReadSound
  <2>4. RowsSound(r)'
    <3>1. Rows(r)' = Rows(r)
      BY DEF Rows
    <3>2. QED
      BY <1>2, <1>4, <3>1 DEF FundInv, RequestSound, RowsSound, Before
  <2>5. QED
    BY <2>1, <2>2, <2>3, <2>4 DEF RequestSound
<1>8. UniqueKeys'
  <2>1. Posted' = Posted \cup {r} /\ r \notin Posted
    BY <1>1, <1>2, <1>4 DEF Posted
  <2>2. \A e \in Posted : entries'[e] = entries[e]
    BY <1>5 DEF Grows
  <2>3. \A e \in Posted : row.key # NoKey => ~(entries[e].bucket = row.bucket /\ entries[e].key = row.key)
    BY DEF Under
  <2>4. QED
    BY <1>2, <2>1, <2>2, <2>3 DEF FundInv, UniqueKeys
<1>9. RegisterStays
  BY <1>1, <1>6 DEF RegisterStays, Same
<1>10. (\A g \in Group : GroupSound(g)') /\ \A m \in Member : MemberSound(m)'
  BY <1>9, RegisterKept
<1>11. QED
  BY <1>1, <1>2, <1>3, <1>5, <1>6, <1>7, <1>8, <1>10, WriteStep

LEMMA CreateEntryStep ==
    ASSUME FundInv, NEW r \in Request, CreateEntry(r)
    PROVE  FundInv'
<1>1. /\ TypeOK /\ ReadSound(r) /\ pc \in [Request -> {"idle"} \cup Step \cup Finished]
      /\ seen \in [Request -> Seen] /\ pc[r] = "writing" /\ command[r].op = "post"
      /\ command[r] \in PostSocialFundEntryDto
      /\ UNCHANGED <<groupVars, buckets, trail, command>>
  <2>1. TypeOK /\ ReadSound(r) /\ pc[r] = "writing" /\ command[r].op = "post"
    BY DEF FundInv, RequestSound, CreateEntry
  <2>2. command[r] \in PostSocialFundEntryDto
    BY <2>1, Kinds DEF ReadSound
  <2>3. QED
    BY <2>1, <2>2 DEF TypeOK, CreateEntry
<1>2. CASE IndexFree(command[r].bucket, command[r].key)
  <2>1. PICK row : row = [bucket |-> command[r].bucket, amount |-> Stored(command[r].amount),
                          type |-> command[r].type, key |-> command[r].key]
    OBVIOUS
  <2>2. /\ entries' = [entries EXCEPT ![r] = row] /\ pc' = [pc EXCEPT ![r] = "naming"]
        /\ UNCHANGED seen
    BY <1>2, <2>1 DEF CreateEntry, Goto
  <2>3. command[r].amount \in Int
    BY <1>1, SocialFundAssumption DEF PostSocialFundEntryDto
  <2>4. row \in EntryRow
    BY <1>1, <2>1, <2>3, StoredOnce DEF EntryRow, PostSocialFundEntryDto
  <2>5. IsPosting(r)'
    BY <1>1, <2>1, <2>2 DEF IsPosting, TypeOK
  <2>6. row.key # NoKey => Under(row.bucket, row.key) = {}
    BY <1>2, <2>1 DEF IndexFree
  <2>7. seen' \in [Request -> Seen] /\ \A x \in Request \ {r} : seen'[x] = seen[x]
    BY <1>1, <2>2
  <2>8. QED
    BY <1>1, <2>2, <2>4, <2>5, <2>6, <2>7, EntryStep
<1>3. CASE ~IndexFree(command[r].bucket, command[r].key)
  <2>1. /\ pc' = [pc EXCEPT ![r] = "refused"] /\ seen' = [seen EXCEPT ![r] = NoId]
        /\ UNCHANGED entries
    BY <1>3 DEF CreateEntry, Leave, Goto
  <2>2. pc'[r] = "refused" /\ "refused" \in Step \cup Finished
    BY <1>1, <2>1 DEF Finished
  <2>3. seen' \in [Request -> Seen] /\ \A x \in Request \ {r} : seen'[x] = seen[x]
    BY <1>1, <2>1 DEF Seen
  <2>4. TypeOK'
    BY <1>1, <2>1, <2>2, <2>3 DEF TypeOK, groupVars
  <2>5. entries'[r] = NoEntry
    BY <1>1, <2>1, Unposted DEF FundInv, RequestSound
  <2>6. EntrySound(r)' /\ AnswerSound(r)' /\ ReadSound(r)'
    BY <1>1, <2>2, <2>5 DEF EntrySound, AnswerSound, ReadSound
  <2>7. RowsSound(r)'
    <3>1. Rows(r)' = Rows(r) /\ \A i \in Rows(r) : trail'[i] = trail[i]
      BY <1>1 DEF Rows
    <3>2. QED
      BY <1>1, <2>2, <2>5, <3>1 DEF FundInv, RequestSound, RowsSound, Before
  <2>8. pc[r] \notin Finished \cup {"naming", "audit"}
    BY <1>1 DEF Finished
  <2>9. QED
    BY <1>1, <2>1, <2>2, <2>3, <2>4, <2>6, <2>7, <2>8, QuietStep DEF RequestSound, groupVars
<1>4. QED
  BY <1>2, <1>3

LEMMA CreateReversalStep ==
    ASSUME FundInv, NEW r \in Request, CreateReversal(r)
    PROVE  FundInv'
<1>1. /\ TypeOK /\ ReadSound(r) /\ pc \in [Request -> {"idle"} \cup Step \cup Finished]
      /\ seen \in [Request -> Seen] /\ pc[r] = "writing" /\ command[r].op = "reverse"
      /\ command[r] \in ReversalSocialFundEntryDto
      /\ UNCHANGED <<groupVars, buckets, trail, command>>
  <2>1. TypeOK /\ ReadSound(r) /\ pc[r] = "writing" /\ command[r].op = "reverse"
    BY DEF FundInv, RequestSound, CreateReversal
  <2>2. command[r] \in ReversalSocialFundEntryDto
    BY <2>1, Kinds DEF ReadSound
  <2>3. QED
    BY <2>1, <2>2 DEF TypeOK, CreateReversal
<1>2. PICK e : e = command[r].entry
  OBVIOUS
<1>3. /\ e \in Posted /\ e \in Request /\ entries[e].bucket = command[r].bucket
      /\ entries[e].type # "REVERSAL"
  BY <1>1, <1>2 DEF ReadSound, Posted
<1>4. IsPosting(e)
  <2>1. ~IsReversal(e)
    BY <1>3 DEF IsReversal
  <2>2. QED
    BY <1>3, <2>1 DEF FundInv, RequestSound, EntrySound, Posted
<1>5. entries[r] = NoEntry /\ e # r
  BY <1>1, <1>3, Unposted DEF FundInv, RequestSound, Posted
<1>6. PICK row : row = [bucket |-> command[r].bucket, amount |-> -entries[e].amount,
                        type |-> "REVERSAL", key |-> NoKey]
  OBVIOUS
<1>7. row \in EntryRow /\ row.key = NoKey
  BY <1>1, <1>3, <1>6, Rounded DEF EntryRow, ReversalSocialFundEntryDto
<1>8. /\ entries' = [entries EXCEPT ![r] = row] /\ pc' = [pc EXCEPT ![r] = "done"]
      /\ seen' = [seen EXCEPT ![r] = NoId]
  BY <1>2, <1>6 DEF CreateReversal, Leave, Goto
<1>9. IsReversal(r)'
  <2>1. entries'[e] = entries[e] /\ pc'[e] = pc[e] /\ entries'[r] = row /\ pc'[r] = "done"
    BY <1>1, <1>3, <1>5, <1>8 DEF TypeOK
  <2>2. IsPosting(e)'
    BY <1>1, <1>4, <2>1 DEF IsPosting
  <2>3. QED
    BY <1>1, <1>2, <1>3, <1>5, <1>6, <2>1, <2>2 DEF IsReversal
<1>10. seen' \in [Request -> Seen] /\ \A x \in Request \ {r} : seen'[x] = seen[x]
  BY <1>1, <1>8 DEF Seen
<1>11. QED
  BY <1>1, <1>7, <1>8, <1>9, <1>10, EntryStep

\* The rows of a post learn which entry they are about.
LEMMA NameEntryStep ==
    ASSUME FundInv, NEW r \in Request, NameEntry(r)
    PROVE  FundInv'
<1> USE DEF groupVars, fundVars
<1>1. /\ TypeOK /\ ReadSound(r) /\ pc \in [Request -> {"idle"} \cup Step \cup Finished]
      /\ seen \in [Request -> Seen] /\ trail \in Seq(AuditEventRow)
      /\ pc[r] = "naming" /\ command[r] \in PostSocialFundEntryDto /\ command[r].op = "post"
      /\ IsPosting(r) /\ r \in Posted
  <2>1. TypeOK /\ ReadSound(r) /\ pc[r] = "naming" /\ EntrySound(r)
    BY DEF FundInv, RequestSound, NameEntry
  <2>2. command[r] \in PostSocialFundEntryDto /\ command[r].op = "post"
    BY <2>1, Kinds DEF ReadSound
  <2>3. IsPosting(r) /\ r \in Posted
    BY <2>1 DEF EntrySound, IsReversal, Posted
  <2>4. QED
    BY <2>1, <2>2, <2>3 DEF TypeOK
<1>2. /\ pc' = [pc EXCEPT ![r] = "done"] /\ seen' = [seen EXCEPT ![r] = r]
      /\ UNCHANGED <<groupVars, fundVars, command>>
      /\ DOMAIN trail' = DOMAIN trail
      /\ \A i \in DOMAIN trail :
            trail'[i] = IF trail[i].request = r THEN [trail[i] EXCEPT !.entity = r] ELSE trail[i]
  BY DEF NameEntry, Goto
<1>3. \A i \in DOMAIN trail :
         /\ trail'[i] \in AuditEventRow
         /\ trail'[i].request = trail[i].request /\ trail'[i].action = trail[i].action
         /\ trail'[i].status = trail[i].status
         /\ trail[i].request = r => trail'[i].entity = r
         /\ trail[i].request # r => trail'[i] = trail[i]
  <2> SUFFICES ASSUME NEW i \in DOMAIN trail
               PROVE  /\ trail'[i] \in AuditEventRow
                      /\ trail'[i].request = trail[i].request /\ trail'[i].action = trail[i].action
                      /\ trail'[i].status = trail[i].status
                      /\ trail[i].request = r => trail'[i].entity = r
                      /\ trail[i].request # r => trail'[i] = trail[i]
    OBVIOUS
  <2>1. PICK old \in AuditEventRow : old = trail[i]
    BY <1>1, RowTyped
  <2>2. trail'[i] = IF old.request = r THEN [old EXCEPT !.entity = r] ELSE old
    BY <1>2, <2>1
  <2>3. CASE old.request = r
    <3>1. PICK new : new = [old EXCEPT !.entity = r]
      OBVIOUS
    <3>2. /\ new \in AuditEventRow /\ new.request = old.request /\ new.action = old.action
          /\ new.status = old.status /\ new.entity = r
      BY <3>1 DEF AuditEventRow
    <3>3. QED
      BY <2>1, <2>2, <2>3, <3>1, <3>2
  <2>4. CASE old.request # r
    BY <2>1, <2>2, <2>4
  <2>5. QED
    BY <2>3, <2>4
<1>4. trail' \in Seq(AuditEventRow)
  <2>1. Len(trail) \in Nat /\ DOMAIN trail = 1..Len(trail)
    BY <1>1
  <2>2. trail' = [i \in DOMAIN trail |-> trail'[i]]
    BY DEF NameEntry
  <2>3. trail' \in [1..Len(trail) -> AuditEventRow]
    BY <1>3, <2>1, <2>2
  <2>4. QED
    BY <2>1, <2>3, SeqDef
<1>5. /\ pc'[r] = "done" /\ seen'[r] = r /\ seen' \in [Request -> Seen]
      /\ \A x \in Request \ {r} : seen'[x] = seen[x]
  BY <1>1, <1>2 DEF Seen
<1>6. TypeOK'
  BY <1>1, <1>2, <1>4, <1>5 DEF TypeOK, Finished
<1>7. \A x : Rows(x)' = Rows(x)
  BY <1>2, <1>3 DEF Rows
<1>8. \A x \in Request \ {r} : Same(x)
  BY <1>1, <1>2, <1>3, <1>5, <1>7 DEF Same, Rows
<1>9. Grows
  BY <1>1, <1>2 DEF Grows, Posted
<1>10. RequestSound(r)'
  <2>1. IsPosting(r)'
    BY <1>1, <1>2, <1>5 DEF IsPosting
  <2>2. EntrySound(r)'
    BY <1>5, <2>1 DEF EntrySound
  <2>3. AnswerSound(r)'
    BY <1>1, <1>2, <1>5, PostingThere DEF AnswerSound, Posted
  <2>4. ReadSound(r)'
    BY <1>1, <1>2, <1>5 DEF ReadSound
  <2>5. RowsSound(r)'
    <3>1. \A i \in Rows(r) : /\ trail'[i].action = "CREATED" /\ trail'[i].entity = r
                             /\ trail'[i].status = NoChange
      BY <1>1, <1>3 DEF FundInv, RequestSound, RowsSound, Rows
    <3>2. Rows(r) # {}
      BY <1>1 DEF FundInv, RequestSound, RowsSound, Posted
    <3>3. QED
      BY <1>1, <1>2, <1>5, <1>7, <3>1, <3>2 DEF RowsSound, Before
  <2>6. QED
    BY <2>2, <2>3, <2>4, <2>5 DEF RequestSound
<1>11. RegisterStays
  BY <1>1, <1>2, <1>3 DEF RegisterStays
<1>12. UniqueKeys'
  BY <1>2 DEF FundInv, UniqueKeys, Posted
<1>13. (\A g \in Group : GroupSound(g)') /\ \A m \in Member : MemberSound(m)'
  BY <1>2, <1>11, RegisterKept
<1>14. "done" \in Step \cup Finished
  BY DEF Finished
<1>15. QED
  BY <1>2, <1>6, <1>8, <1>9, <1>10, <1>12, <1>13, <1>14, WriteStep

-----------------------------------------------------------------------------
LEMMA FundInit == Init => FundInv
<1> SUFFICES ASSUME Init PROVE FundInv
  OBVIOUS
<1> USE DEF Init, GroupsInit
<1>1. TypeOK
  <2>1. groups \in GroupTable /\ members \in MemberTable /\ buckets \in BucketTable
    BY GroupsAssumption, SocialFundAssumption DEF GroupTable, Status
  <2>2. /\ trail \in Seq(AuditEventRow) /\ disturbed \subseteq Group
        /\ entries \in [Request -> EntryRow \cup {NoEntry}]
    OBVIOUS
  <2>3. /\ pc \in [Request -> {"idle"} \cup Step \cup Finished]
        /\ command \in [Request -> GroupCommand \cup FundCommand \cup {NoCommand}]
    OBVIOUS
  <2>4. seen \in [Request -> Seen]
    BY DEF Seen
  <2>5. QED
    BY <2>1, <2>2, <2>3, <2>4 DEF TypeOK
<1>2. UniqueKeys
  BY DEF UniqueKeys, Posted
<1>3. ASSUME NEW r \in Request PROVE RequestSound(r)
  <2>1. pc[r] = "idle" /\ command[r] = NoCommand /\ entries[r] = NoEntry /\ Rows(r) = {}
    BY DEF Rows
  <2>2. EntrySound(r) /\ AnswerSound(r) /\ ReadSound(r)
    BY <2>1 DEF EntrySound, AnswerSound, ReadSound
  <2>3. RowsSound(r)
    BY <2>1 DEF RowsSound
  <2>4. QED
    BY <2>2, <2>3 DEF RequestSound
<1>4. ASSUME NEW g \in Group PROVE GroupSound(g)
  BY DEF GroupSound
<1>5. ASSUME NEW m \in Member PROVE MemberSound(m)
  BY DEF MemberSound
<1>6. QED
  BY <1>1, <1>2, <1>3, <1>4, <1>5 DEF FundInv

LEMMA FundNext == FundInv /\ [Next]_vars => FundInv'
<1> SUFFICES ASSUME FundInv, [Next]_vars PROVE FundInv'
  OBVIOUS
<1>1. ASSUME NEW r \in Request, GroupStep(r), UNCHANGED fundVars
      PROVE  FundInv'
  BY <1>1, ArrivalStep, CheckStep, NewGroupStep, UpdateGroupStep, CreateMemberStep,
     ChangeMemberStep, AuditStep, CrashStep DEF GroupStep
<1>2. ASSUME NEW r \in Request, FundStep(r)
      PROVE  FundInv'
  BY <1>2, ArrivalStep, CheckStep, LookUpStep, EmitStep, CreateBucketStep, CreateEntryStep,
     CreateReversalStep, NameEntryStep, AuditStep DEF FundStep
<1>3. CASE UNCHANGED vars
  <2> USE <1>3 DEF vars, groupVars, fundVars
  <2>1. TypeOK' /\ UniqueKeys'
    BY DEF FundInv, TypeOK, UniqueKeys, Posted
  <2>2. Grows /\ RegisterStays /\ \A x \in Request : Same(x)
    BY DEF Grows, RegisterStays, Same, Rows
  <2>3. \A x \in Request : RequestSound(x)'
    BY <2>2, RequestKept DEF FundInv
  <2>4. (\A g \in Group : GroupSound(g)') /\ \A m \in Member : MemberSound(m)'
    BY <2>2, RegisterKept
  <2>5. QED
    BY <2>1, <2>3, <2>4 DEF FundInv
<1>4. QED
  BY <1>1, <1>2, <1>3 DEF Next

THEOREM Invariance == Spec => []FundInv
BY FundInit, FundNext, PTL DEF Spec

\* Every variable of the register, the fund and their requests keeps its type.
THEOREM FundTypes == Spec => []TypeOK
<1>1. FundInv => TypeOK
  BY DEF FundInv
<1>2. QED
  BY <1>1, Invariance, PTL

\* The look-up and the unique index of postEntry together give one entry under a
\* key, the right answer to each repetition, and no mismatch without a reason
\* (social-fund.service.ts).
THEOREM EntriesAreKeyed == Spec => []KeyedOnce
<1>1. FundInv => KeyedOnce
  BY DEF FundInv, RequestSound, AnswerSound, UniqueKeys, KeyedOnce
<1>2. QED
  BY <1>1, Invariance, PTL

\* reversalEntry takes back a contribution or a disbursement of the same bucket,
\* to the last stored place, and never another reversal.
ReversalsExact ==
    \A e \in Posted :
        entries[e].type = "REVERSAL" =>
            /\ command[e].entry \in Posted \ {e}
            /\ entries[command[e].entry].type \in {"CONTRIBUTION", "DISBURSEMENT"}
            /\ entries[command[e].entry].bucket = entries[e].bucket
            /\ entries[e].amount = -entries[command[e].entry].amount

LEMMA ExactlyReversed == FundInv => ReversalsExact
<1> SUFFICES ASSUME FundInv, NEW e \in Posted, entries[e].type = "REVERSAL"
             PROVE  /\ command[e].entry \in Posted \ {e}
                    /\ entries[command[e].entry].type \in {"CONTRIBUTION", "DISBURSEMENT"}
                    /\ entries[command[e].entry].bucket = entries[e].bucket
                    /\ entries[e].amount = -entries[command[e].entry].amount
  BY DEF ReversalsExact
<1>1. IsPosting(e) \/ IsReversal(e)
  BY DEF FundInv, RequestSound, EntrySound, Posted
<1>2. IsReversal(e)
  BY <1>1, PostingThere DEF Posted
<1>3. PICK x \in Request \ {e} : x = command[e].entry /\ IsPosting(x)
  BY <1>2 DEF IsReversal
<1>4. x \in Posted /\ entries[x].type \in {"CONTRIBUTION", "DISBURSEMENT"}
  BY <1>3, PostingThere DEF EntryRow
<1>5. QED
  BY <1>2, <1>3, <1>4 DEF IsReversal

\* However often and in whatever overlap entries are reversed, each reversal is
\* the exact negative of one posting that is still there unchanged.
THEOREM ReversalsAreExact == Spec => []ReversalsExact
BY ExactlyReversed, Invariance, PTL

\* The service writes the audit row first and completes it last: every entry has
\* its row, and a row without its entry belongs to a request that is under way,
\* was refused by the index or died.
THEOREM FundIsAudited == Spec => []FundTrail
<1>1. FundInv => FundTrail
  <2> SUFFICES ASSUME FundInv PROVE FundTrail
    OBVIOUS
  <2>1. ASSUME NEW e \in Posted
        PROVE  \E i \in DOMAIN trail :
                  /\ trail[i].request = e
                  /\ IF entries[e].type = "REVERSAL" THEN trail[i].entity = command[e].entry
                     ELSE \/ trail[i].entity = e
                          \/ trail[i].entity = NoId /\ pc[e] \in {"naming", "crashed"}
    <3>1. e \in Request /\ entries[e] # NoEntry /\ RowsSound(e) /\ (IsPosting(e) \/ IsReversal(e))
      BY DEF FundInv, RequestSound, EntrySound, Posted
    <3>2. CASE IsPosting(e)
      <4>1. pc[e] # "idle" /\ command[e].op = "post" /\ entries[e].type # "REVERSAL"
        BY <3>1, <3>2, PostingThere DEF IsPosting, PostSocialFundEntryDto
      <4>2. PICK i \in Rows(e) : TRUE
        BY <3>1, <4>1 DEF RowsSound, Posted
      <4>3. QED
        BY <3>1, <3>2, <4>1, <4>2 DEF RowsSound, Rows, IsPosting
    <3>3. CASE IsReversal(e)
      <4>1. pc[e] # "idle" /\ command[e].op = "reverse" /\ entries[e].type = "REVERSAL"
        BY <3>3 DEF IsReversal, ReversalSocialFundEntryDto
      <4>2. PICK i \in Rows(e) : TRUE
        BY <3>1, <4>1 DEF RowsSound, Posted
      <4>3. QED
        BY <3>1, <4>1, <4>2 DEF RowsSound, Rows
    <3>4. QED
      BY <3>1, <3>2, <3>3
  <2>2. ASSUME NEW i \in DOMAIN trail, NEW r, r = trail[i].request,
               \/ trail[i].entity = NoId
               \/ trail[i].action = "REVERSED" /\ r \notin Posted
        PROVE  pc[r] \in {"writing", "naming", "refused", "crashed"}
    <3>1. r \in Request /\ i \in Rows(r) /\ RowsSound(r) /\ ReadSound(r)
      BY <2>2, RowTyped DEF FundInv, RequestSound, Rows
    <3>2. pc[r] # "idle" /\ command[r] \in Command
      BY <3>1 DEF RowsSound, ReadSound, Before
    <3>3. CASE command[r].op = "post"
      BY <2>2, <3>1, <3>2, <3>3, GroupsAssumption DEF RowsSound
    <3>4. CASE command[r].op = "reverse"
      <4>1. command[r].entry \in Request
        BY <3>2, <3>4, Kinds DEF ReversalSocialFundEntryDto
      <4>2. trail[i].entity # NoId
        BY <3>1, <3>2, <3>4, <4>1, GroupsAssumption DEF RowsSound
      <4>3. entries[r] = NoEntry
        BY <2>2, <3>1, <4>2 DEF Posted
      <4>4. QED
        BY <3>1, <3>2, <3>4, <4>3 DEF RowsSound
    <3>5. CASE command[r].op \notin {"post", "reverse"}
      BY <2>2, <3>1, <3>2, <3>5 DEF RowsSound
    <3>6. QED
      BY <3>3, <3>4, <3>5
  <2>3. QED
    BY <2>1, <2>2 DEF FundTrail
<1>2. QED
  BY <1>1, Invariance, PTL

\* Every group and member that was created, and every member that left, has its
\* row in the trail of its service, but for requests that died on the way to it.
THEOREM RegisterIsAudited == Spec => []RegisterAudited
<1>1. FundInv => RegisterAudited
  <2> SUFFICES ASSUME FundInv PROVE RegisterAudited
    OBVIOUS
  <2>1. ASSUME NEW g \in Group \ FirstGroups, groups[g] # NoRow
        PROVE  \/ \E i \in DOMAIN trail : trail[i].entity = g /\ trail[i].action = "CREATED"
               \/ \E r \in Request : command[r] \in CreateGroupDto /\ pc[r] \in {"audit", "crashed"}
    BY <2>1 DEF FundInv, GroupSound, HasRow, Owed
  <2>2. ASSUME NEW m \in Member, members[m] # NoRow
        PROVE  /\ \/ FirstMembers[m] # NoRow
                  \/ \E i \in DOMAIN trail : trail[i].entity = m /\ trail[i].action = "CREATED"
                  \/ \E r \in Request : command[r] \in CreateMemberDto /\ pc[r] \in {"audit", "crashed"}
               /\ members[m].status = "LEFT" =>
                     \/ FirstMembers[m] # NoRow /\ FirstMembers[m].status = "LEFT"
                     \/ \E i \in DOMAIN trail : trail[i].entity = m /\ trail[i].action = "LEFT"
                     \/ \E r \in Request : /\ command[r] = [op |-> "leave", member |-> m]
                                           /\ pc[r] \in {"audit", "crashed"}
    BY <2>2 DEF FundInv, MemberSound, HasRow, Owed, Leaving
  <2>3. QED
    BY <2>1, <2>2 DEF RegisterAudited
<1>2. QED
  BY <1>1, Invariance, PTL
-----------------------------------------------------------------------------
\* The rows that tell the status of g have a last one, and are about a group
\* that is there.
StatusRowsSound(g) ==
    /\ groups[g] = NoRow => StatusRows(g) = {}
    /\ StatusRows(g) # {} => \E i \in StatusRows(g) : \A j \in StatusRows(g) : j <= i

\* Of a group that one request at a time has touched: the trail tells its status
\* before the request writes and after its row, between the two the row to come
\* does; and until its creation has its row it is active and has no other row.
StatusSound(g) ==
    g \notin disturbed =>
        /\ \A x, y \in Touching(g) : x = y
        /\ groups[g] # NoRow /\ (\A r \in Updates(g) : pc[r] # "audit")
           => groups[g] = StatusInTrail(g)
        /\ \A r \in Updates(g) : pc[r] = "audit" =>
              groups[g] = IF seen[r] \in Status THEN seen[r] ELSE StatusInTrail(g)
        /\ \A r \in Request :
              pc[r] = "audit" /\ command[r].op = "createGroup" /\ seen[r] = g =>
                  groups[g] = "ACTIVE" /\ StatusRows(g) = {}

StatusInv == \A g \in Group : StatusRowsSound(g) /\ StatusSound(g)

\* The requests other than r stay where they are.
OthersStay(r) ==
    \A x \in Request \ {r} : pc'[x] = pc[x] /\ command'[x] = command[x] /\ seen'[x] = seen[x]

LEMMA LastIsMax ==
    ASSUME NEW S, S \subseteq Int, NEW i \in S, \A j \in S : j <= i
    PROVE  Max(S) = i
<1>1. \A x \in S : (\A y \in S : x >= y) => x = i
  OBVIOUS
<1>2. \A y \in S : i >= y
  OBVIOUS
<1>3. QED
  BY <1>1, <1>2 DEF Max

\* What the trail tells of g depends on the rows that tell its status alone.
LEMMA SameStatusInTrail ==
    ASSUME NEW g, StatusRowsSound(g), TypeOK, StatusRows(g)' = StatusRows(g),
           \A i \in StatusRows(g) : trail'[i].status = trail[i].status
    PROVE  StatusInTrail(g)' = StatusInTrail(g)
<1>1. CASE StatusRows(g) = {}
  BY <1>1 DEF StatusInTrail
<1>2. CASE StatusRows(g) # {}
  <2>1. PICK i \in StatusRows(g) : \A j \in StatusRows(g) : j <= i
    BY <1>2 DEF StatusRowsSound
  <2>2. StatusRows(g) \subseteq Int
    <3>1. trail \in Seq(AuditEventRow)
      BY DEF TypeOK
    <3>2. DOMAIN trail \subseteq Int
      BY <3>1
    <3>3. QED
      BY <3>2 DEF StatusRows
  <2>3. Max(StatusRows(g)) \in StatusRows(g)
    BY <2>1, <2>2, LastIsMax
  <2>4. StatusInTrail(g) = trail[Max(StatusRows(g))].status
    BY <1>2 DEF StatusInTrail
  <2>5. StatusInTrail(g)' = trail'[Max(StatusRows(g))].status
    BY <1>2 DEF StatusInTrail
  <2>6. QED
    BY <2>3, <2>4, <2>5
<1>3. QED
  BY <1>1, <1>2

\* A row at the end tells the status of the group it is about.
LEMMA StatusAppended ==
    ASSUME TypeOK, NEW row, trail' = Append(trail, row), NEW g, StatusRowsSound(g)
    PROVE  /\ \A i \in StatusRows(g) : trail'[i].status = trail[i].status
           /\ ~(row.entity = g /\ row.status \in Status) => StatusRows(g)' = StatusRows(g)
           /\ row.entity = g /\ row.status \in Status =>
                 /\ \E i \in StatusRows(g)' : \A j \in StatusRows(g)' : j <= i
                 /\ StatusInTrail(g)' = row.status
<1>1. trail \in Seq(AuditEventRow \cup {row}) /\ Len(trail) \in Nat
  BY DEF TypeOK
<1>2. PICK n \in Nat : n = Len(trail) + 1
  BY <1>1
<1>3. /\ DOMAIN trail = 1..Len(trail) /\ DOMAIN trail' = 1..n /\ trail'[n] = row
      /\ \A i \in 1..Len(trail) : trail'[i] = trail[i]
  BY <1>1, <1>2
<1>4. /\ n \notin DOMAIN trail /\ DOMAIN trail' = DOMAIN trail \cup {n}
      /\ \A i \in DOMAIN trail : trail'[i] = trail[i] /\ i \in Int /\ i <= n
  BY <1>1, <1>2, <1>3
<1>5. /\ \A i \in StatusRows(g) : i \in DOMAIN trail /\ trail'[i] = trail[i]
      /\ StatusRows(g)' = StatusRows(g)
            \cup (IF row.entity = g /\ row.status \in Status THEN {n} ELSE {})
  <2>1. StatusRows(g)' = {i \in DOMAIN trail \cup {n} :
                             trail'[i].entity = g /\ trail'[i].status \in Status}
    BY <1>4 DEF StatusRows, Status
  <2>2. QED
    BY <1>3, <1>4, <2>1 DEF StatusRows
<1>6. ASSUME row.entity = g, row.status \in Status
      PROVE  /\ \E i \in StatusRows(g)' : \A j \in StatusRows(g)' : j <= i
             /\ StatusInTrail(g)' = row.status
  <2>1. StatusRows(g)' = StatusRows(g) \cup {n}
    BY <1>5, <1>6
  <2>2. /\ StatusRows(g)' \subseteq Int /\ n \in StatusRows(g)'
        /\ \A j \in StatusRows(g)' : j <= n
    BY <1>2, <1>4, <1>5, <2>1
  <2>3. Max(StatusRows(g)') = n
    BY <2>2, LastIsMax
  <2>4. StatusInTrail(g)' = trail'[Max(StatusRows(g)')].status
    BY <2>2 DEF StatusInTrail
  <2>5. QED
    BY <1>3, <2>2, <2>3, <2>4
<1>7. QED
  BY <1>5, <1>6

\* A step of r that neither writes g nor tells its status, and does not begin to
\* touch it while another request does.
LEMMA StatusKept ==
    ASSUME FundInv, NEW g \in Group, StatusRowsSound(g), StatusSound(g),
           NEW r \in Request, OthersStay(r),
           groups'[g] = groups[g], disturbed \subseteq disturbed',
           StatusRows(g)' = StatusRows(g),
           \A i \in StatusRows(g) : trail'[i].status = trail[i].status,
           \/ g \in disturbed'
           \/ /\ r \in Touching(g)' =>
                    pc'[r] # "audit" /\ (r \in Touching(g) \/ Touching(g) = {})
              /\ pc[r] = "audit" => r \notin Updates(g)
    PROVE  StatusRowsSound(g)' /\ StatusSound(g)'
<1>1. StatusRowsSound(g)'
  BY DEF StatusRowsSound
<1>2. StatusInTrail(g)' = StatusInTrail(g)
  BY SameStatusInTrail DEF FundInv
<1>3. ASSUME g \notin disturbed'
      PROVE  /\ (\A x, y \in Touching(g) : x = y)'
             /\ (groups[g] # NoRow /\ (\A x \in Updates(g) : pc[x] # "audit")
                 => groups[g] = StatusInTrail(g))'
             /\ (\A x \in Updates(g) : pc[x] = "audit" =>
                    groups[g] = IF seen[x] \in Status THEN seen[x] ELSE StatusInTrail(g))'
             /\ (\A x \in Request :
                    pc[x] = "audit" /\ command[x].op = "createGroup" /\ seen[x] = g =>
                        groups[g] = "ACTIVE" /\ StatusRows(g) = {})'
  <2>1. /\ r \in Touching(g)' => pc'[r] # "audit" /\ (r \in Touching(g) \/ Touching(g) = {})
        /\ pc[r] = "audit" => r \notin Updates(g)
        /\ g \notin disturbed
    BY <1>3
  <2>2. \A x \in Request \ {r} : /\ x \in Touching(g)' <=> x \in Touching(g)
                                 /\ x \in Updates(g)' <=> x \in Updates(g)
    BY DEF OthersStay, Touching, Updates, InFlight
  <2>3. \A x \in Request :
           /\ pc'[x] = "audit"
           /\ x \in Updates(g)' \/ (command'[x].op = "createGroup" /\ seen'[x] = g)
           => x \in Touching(g)'
    BY DEF Touching, InFlight, Step
  <2>4. \A x, y \in Touching(g) : x = y
    BY <2>1 DEF StatusSound
  <2>5. (\A x, y \in Touching(g) : x = y)'
    <3>1. \A x \in Touching(g)' : x \in Request
      BY DEF Touching, InFlight
    <3>2. QED
      BY <2>1, <2>2, <2>4, <3>1
  <2>6. (groups[g] # NoRow /\ (\A x \in Updates(g) : pc[x] # "audit")
         => groups[g] = StatusInTrail(g))'
    <3>1. (\A x \in Updates(g)' : pc'[x] # "audit") => \A x \in Updates(g) : pc[x] # "audit"
      <4>1. \A x \in Updates(g) : x \in Request
        BY DEF Updates
      <4>2. QED
        BY <2>1, <2>2, <4>1 DEF OthersStay
    <3>2. QED
      BY <1>2, <2>1, <3>1 DEF StatusSound
  <2>7. (\A x \in Updates(g) : pc[x] = "audit" =>
            groups[g] = IF seen[x] \in Status THEN seen[x] ELSE StatusInTrail(g))'
    <3> SUFFICES ASSUME NEW x \in Updates(g)', pc'[x] = "audit"
                 PROVE  groups'[g] = IF seen'[x] \in Status THEN seen'[x] ELSE StatusInTrail(g)'
      BY DEF Status
    <3>1. x \in Request /\ x # r
      BY <2>1, <2>3 DEF Updates
    <3>2. x \in Updates(g) /\ pc[x] = "audit" /\ seen'[x] = seen[x]
      BY <2>2, <3>1 DEF OthersStay
    <3>3. QED
      BY <1>2, <2>1, <3>2 DEF StatusSound
  <2>8. (\A x \in Request :
            pc[x] = "audit" /\ command[x].op = "createGroup" /\ seen[x] = g =>
                groups[g] = "ACTIVE" /\ StatusRows(g) = {})'
    <3> SUFFICES ASSUME NEW x \in Request, pc'[x] = "audit", command'[x].op = "createGroup",
                        seen'[x] = g
                 PROVE  groups'[g] = "ACTIVE" /\ StatusRows(g)' = {}
      OBVIOUS
    <3>1. x # r
      BY <2>1, <2>3
    <3>2. pc[x] = "audit" /\ command[x].op = "createGroup" /\ seen[x] = g
      BY <3>1 DEF OthersStay
    <3>3. QED
      BY <2>1, <3>2 DEF StatusSound
  <2>9. QED
    BY <2>5, <2>6, <2>7, <2>8
<1>4. StatusSound(g)'
  BY <1>3 DEF StatusSound
<1>5. QED
  BY <1>1, <1>4

\* A step that writes no group and no row of the trail, and neither begins to touch
\* a group nor comes to owe a row about one.
LEMMA StatusQuiet ==
    ASSUME FundInv, StatusInv, NEW r \in Request, OthersStay(r),
           UNCHANGED <<groups, trail, disturbed>>,
           \A g \in Group : r \in Touching(g)' => r \in Touching(g) /\ pc'[r] # "audit",
           pc[r] = "audit" => command[r] \notin UpdateGroupDto
    PROVE  StatusInv'
<1> SUFFICES ASSUME NEW g \in Group
             PROVE  StatusRowsSound(g)' /\ StatusSound(g)'
  BY DEF StatusInv
<1>1. StatusRows(g)' = StatusRows(g)
  BY DEF StatusRows
<1>2. pc[r] = "audit" => r \notin Updates(g)
  BY DEF Updates
<1>3. StatusRowsSound(g) /\ StatusSound(g)
  BY DEF StatusInv
<1>4. \A i \in StatusRows(g) : trail'[i].status = trail[i].status
  OBVIOUS
<1>5. groups'[g] = groups[g] /\ disturbed \subseteq disturbed'
  OBVIOUS
<1>6. r \in Touching(g)' => pc'[r] # "audit" /\ (r \in Touching(g) \/ Touching(g) = {})
  OBVIOUS
<1>7. QED
  BY <1>1, <1>2, <1>3, <1>4, <1>5, <1>6, StatusKept

\* A step that only writes a row telling no status.
LEMMA StatusUntold ==
    ASSUME FundInv, StatusInv, NEW r \in Request, OthersStay(r),
           UNCHANGED <<groups, disturbed, command>>,
           NEW entity, NEW action, Emit(r, entity, action, NoChange),
           pc'[r] # "audit", pc[r] = "audit" => command[r] \notin UpdateGroupDto,
           \A g \in Group : r \in Touching(g)' => r \in Touching(g)
    PROVE  StatusInv'
<1> SUFFICES ASSUME NEW g \in Group
             PROVE  StatusRowsSound(g)' /\ StatusSound(g)'
  BY DEF StatusInv
<1>1. StatusRowsSound(g) /\ StatusSound(g) /\ TypeOK
  BY DEF StatusInv, FundInv
<1>2. PICK row : row = AuditRow(r, entity, action, NoChange)
  OBVIOUS
<1>3. trail' = Append(trail, row) /\ row.status \notin Status
  BY <1>2, GroupsAssumption DEF Emit, AuditRow
<1>4. /\ StatusRows(g)' = StatusRows(g)
      /\ \A i \in StatusRows(g) : trail'[i].status = trail[i].status
  BY <1>1, <1>3, StatusAppended
<1>5. pc[r] = "audit" => r \notin Updates(g)
  BY DEF Updates
<1>6. QED
  BY <1>1, <1>4, <1>5, StatusKept

\* A new request meets whoever touches the group it is to update; one that is to
\* create a group touches none yet.
LEMMA ArriveStatus ==
    ASSUME FundInv, StatusInv, NEW r \in Request, ArriveAtGroups(r) \/ ArriveAtFund(r)
    PROVE  StatusInv'
<1>1. /\ TypeOK /\ pc[r] = "idle" /\ seen[r] = NoId
      /\ pc \in [Request -> {"idle"} \cup Step \cup Finished]
      /\ command \in [Request -> GroupCommand \cup FundCommand \cup {NoCommand}]
      /\ UNCHANGED <<groups, trail, seen>>
  BY DEF FundInv, RequestSound, ReadSound, TypeOK, ArriveAtGroups, ArriveAtFund, groupVars
<1>2. CASE ArriveAtGroups(r)
  <2>1. PICK c \in Instruction \cap GroupCommand :
           /\ command' = [command EXCEPT ![r] = c] /\ Goto(r, FirstStep(c)) /\ Meets(r, c)
    BY <1>2 DEF ArriveAtGroups
  <2>2. FirstStep(c) # "audit"
    <3>1. FirstStep(c) \in {"guard", "writing", "reading"}
      <4>1. c.op = "updateGroup" \/ c.op # "updateGroup"
        OBVIOUS
      <4>2. QED
        BY DEF FirstStep
    <3>2. QED
      BY <3>1
  <2>3. OthersStay(r) /\ command'[r] = c /\ pc'[r] # "audit" /\ seen'[r] = NoId
    BY <1>1, <2>1, <2>2 DEF OthersStay, Goto
  <2>4. disturbed \subseteq disturbed'
    BY <2>1 DEF Meets, Disturb
  <2>5. ASSUME NEW g \in Group, r \in Touching(g)', g \notin disturbed'
        PROVE  Touching(g) = {}
    <3>1. command'[r] \in UpdateGroupDto /\ command'[r].group = g
      BY <2>3, <2>5, GroupsAssumption DEF Touching, Updates
    <3>2. c.op = "updateGroup" /\ c.group = g
      BY <2>3, <3>1 DEF UpdateGroupDto
    <3>3. QED
      BY <2>1, <2>5, <3>2 DEF Meets, Disturb
  <2>6. ASSUME NEW g \in Group
        PROVE  StatusRowsSound(g)' /\ StatusSound(g)'
    <3>1. StatusRowsSound(g) /\ StatusSound(g)
      BY DEF StatusInv
    <3>2. StatusRows(g)' = StatusRows(g)
      BY <1>1 DEF StatusRows
    <3>3. groups'[g] = groups[g] /\ \A i \in StatusRows(g) : trail'[i].status = trail[i].status
      BY <1>1
    <3>4. QED
      BY <1>1, <2>3, <2>4, <2>5, <3>1, <3>2, <3>3, StatusKept
  <2>7. QED
    BY <2>6 DEF StatusInv
<1>3. CASE ArriveAtFund(r)
  <2>1. /\ OthersStay(r) /\ disturbed' = disturbed /\ pc'[r] # "audit" /\ seen'[r] = NoId
        /\ command'[r].op \in {"createBucket", "post", "reverse"}
    <3>1. CASE \E c \in Instruction \cap (CreateBucketDto \cup PostSocialFundEntryDto) :
                  /\ command' = [command EXCEPT ![r] = c]
                  /\ Goto(r, IF c.op = "post" THEN "reading" ELSE "guard")
      BY <1>1, <1>3, <3>1 DEF ArriveAtFund, OthersStay, Goto, groupVars, CreateBucketDto,
                              PostSocialFundEntryDto
    <3>2. CASE \E c \in Instruction \cap ReversalTemplate, e \in Posted \cup {r} :
                  /\ command' = [command EXCEPT ![r] =
                         [op |-> "reverse", group |-> c.group, bucket |-> c.bucket,
                          entry |-> e, by |-> c.by]]
                  /\ Goto(r, "guard")
      BY <1>1, <1>3, <3>2 DEF ArriveAtFund, OthersStay, Goto, groupVars
    <3>3. QED
      BY <1>3, <3>1, <3>2 DEF ArriveAtFund
  <2>2. \A g \in Group : r \notin Touching(g)'
    BY <2>1 DEF Touching, Updates, UpdateGroupDto
  <2>3. QED
    BY <1>1, <2>1, <2>2, StatusQuiet
<1>4. QED
  BY <1>2, <1>3

\* Guards, reads, checks and the writes of members, buckets and entries.
LEMMA OtherStatus ==
    ASSUME FundInv, StatusInv, NEW r \in Request,
           \/ GuardUpdate(r) \/ ReadGroup(r) \/ ReadTenantGroup(r)
           \/ ReadGroupOfMember(r) \/ ReadMember(r)
           \/ CreateMember(r) \/ UpdateMember(r) \/ LeaveGroup(r)
           \/ GuardAdmin(r) \/ ReadBucket(r) \/ ReadEntry(r)
           \/ CheckPost(r) \/ CheckReversal(r) \/ CheckBucket(r) \/ LookUp(r)
           \/ CreateBucket(r) \/ CreateEntry(r) \/ CreateReversal(r)
    PROVE  StatusInv'
<1>1. /\ TypeOK /\ ReadSound(r)
      /\ pc \in [Request -> {"idle"} \cup Step \cup Finished] /\ seen \in [Request -> Seen]
  BY DEF FundInv, RequestSound, TypeOK
<1>2. /\ pc[r] \in Step \ {"audit"} /\ UNCHANGED <<groups, trail, disturbed, command>>
      /\ \E step : pc' = [pc EXCEPT ![r] = step]
      /\ seen' = seen \/ \E s : seen' = [seen EXCEPT ![r] = s]
  <2>1. CASE \/ GuardUpdate(r) \/ ReadGroup(r) \/ ReadTenantGroup(r)
             \/ ReadGroupOfMember(r) \/ ReadMember(r)
    BY <2>1 DEF GuardUpdate, ReadGroup, ReadTenantGroup, ReadGroupOfMember, ReadMember,
                FindGroup, Goto, Step, groupVars
  <2>2. CASE CreateMember(r) \/ UpdateMember(r) \/ LeaveGroup(r)
    BY <2>2 DEF CreateMember, UpdateMember, LeaveGroup, Goto, Step
  <2>3. CASE \/ GuardAdmin(r) \/ ReadBucket(r) \/ ReadEntry(r)
             \/ CheckPost(r) \/ CheckReversal(r) \/ CheckBucket(r)
    BY <2>3 DEF GuardAdmin, ReadBucket, ReadEntry, CheckPost, CheckReversal, CheckBucket,
                Goto, Step, groupVars
  <2>4. CASE LookUp(r)
    <3>1. /\ pc[r] = "lookup" /\ UNCHANGED <<groupVars, trail, command>>
          /\ \/ Goto(r, "emitting") /\ UNCHANGED seen
             \/ \E e : Goto(r, "done") /\ seen' = [seen EXCEPT ![r] = e]
             \/ Leave(r, "mismatch")
      BY <2>4 DEF LookUp
    <3>2. QED
      BY <3>1 DEF Goto, Leave, Step, groupVars
  <2>5. CASE CreateBucket(r) \/ CreateReversal(r)
    BY <2>5 DEF CreateBucket, CreateReversal, Goto, Leave, Step, groupVars
  <2>6. CASE CreateEntry(r)
    <3>1. /\ pc[r] = "writing" /\ UNCHANGED <<groupVars, trail, command>>
          /\ (Leave(r, "refused") \/ (Goto(r, "naming") /\ UNCHANGED seen))
      BY <2>6 DEF CreateEntry
    <3>2. QED
      BY <3>1 DEF Goto, Leave, Step, groupVars
  <2>7. QED
    BY <2>1, <2>2, <2>3, <2>4, <2>5, <2>6
<1>3. OthersStay(r) /\ command'[r] = command[r]
  BY <1>1, <1>2 DEF OthersStay
<1>4. command[r].op \in {"createGroup", "updateGroup"} => seen'[r] = seen[r] /\ pc'[r] # "audit"
  <2>1. ~LookUp(r) \/ command[r].op = "post"
    BY <1>1 DEF LookUp, ReadSound
  <2>2. CASE \/ GuardUpdate(r) \/ ReadGroup(r) \/ ReadTenantGroup(r)
             \/ ReadGroupOfMember(r) \/ ReadMember(r)
    BY <1>1, <2>2 DEF GuardUpdate, ReadGroup, ReadTenantGroup, ReadGroupOfMember, ReadMember,
                FindGroup, Goto
  <2>3. CASE CreateMember(r) \/ UpdateMember(r) \/ LeaveGroup(r)
    BY <2>3 DEF CreateMember, UpdateMember, LeaveGroup
  <2>4. CASE \/ GuardAdmin(r) \/ ReadBucket(r) \/ ReadEntry(r)
             \/ CheckPost(r) \/ CheckReversal(r) \/ CheckBucket(r)
    BY <2>4 DEF GuardAdmin, ReadBucket, ReadEntry, CheckPost, CheckReversal, CheckBucket
  <2>5. CASE CreateBucket(r) \/ CreateEntry(r) \/ CreateReversal(r)
    BY <2>5 DEF CreateBucket, CreateEntry, CreateReversal
  <2>6. QED
    BY <2>1, <2>2, <2>3, <2>4, <2>5
<1>5. ASSUME NEW g \in Group, r \in Touching(g)'
      PROVE  r \in Touching(g) /\ pc'[r] # "audit"
  <2>1. r \in Updates(g)' \/ (command[r].op = "createGroup" /\ seen'[r] = g)
    BY <1>3, <1>5 DEF Touching
  <2>2. r \in Updates(g)' => r \in Updates(g) /\ command[r].op = "updateGroup"
    BY <1>3 DEF Updates, UpdateGroupDto
  <2>3. QED
    BY <1>2, <1>4, <2>1, <2>2 DEF Touching, InFlight
<1>6. QED
  BY <1>2, <1>3, <1>5, StatusQuiet

\* Rows that tell no status, and the naming of one.
LEMMA RowStatus ==
    ASSUME FundInv, StatusInv, NEW r \in Request,
           \/ AuditGroupCreated(r) \/ AuditMemberCreated(r) \/ AuditMemberUpdated(r)
           \/ AuditMemberLeft(r) \/ AuditBucket(r) \/ EmitPosted(r) \/ EmitReversed(r)
           \/ NameEntry(r)
    PROVE  StatusInv'
<1>1. /\ TypeOK /\ ReadSound(r)
      /\ pc \in [Request -> {"idle"} \cup Step \cup Finished] /\ seen \in [Request -> Seen]
  BY DEF FundInv, RequestSound, TypeOK
<1>2. ASSUME NEW entity, NEW action, Emit(r, entity, action, NoChange),
             pc[r] # "idle", command[r].op # "updateGroup",
             UNCHANGED <<groups, disturbed, command>>,
             \/ Leave(r, "done")
             \/ Goto(r, "writing") /\ UNCHANGED seen /\ pc[r] = "emitting"
      PROVE  StatusInv'
  <2>1. OthersStay(r) /\ pc'[r] # "audit" /\ (pc'[r] = "done" \/ seen'[r] = seen[r])
    BY <1>1, <1>2 DEF OthersStay, Leave, Goto
  <2>2. command[r] \notin UpdateGroupDto
    BY <1>2 DEF UpdateGroupDto
  <2>3. ASSUME NEW g \in Group, r \in Touching(g)' PROVE r \in Touching(g)
    <3>1. Goto(r, "writing") /\ UNCHANGED seen /\ pc[r] = "emitting"
      <4>1. pc'[r] # "done"
        BY <2>3 DEF Touching, InFlight, Step
      <4>2. QED
        BY <1>1, <1>2, <4>1 DEF Leave, Goto
    <3>2. QED
      BY <1>2, <2>3, <3>1 DEF Touching, Updates, InFlight, Step
  <2>4. QED
    BY <1>2, <2>1, <2>2, <2>3, StatusUntold
<1>3. CASE \/ AuditGroupCreated(r) \/ AuditMemberCreated(r) \/ AuditMemberUpdated(r)
           \/ AuditMemberLeft(r)
  BY <1>2, <1>3 DEF AuditGroupCreated, AuditMemberCreated, AuditMemberUpdated, AuditMemberLeft,
                    AuditingVia, Auditing, Audited, groupVars
<1>4. CASE AuditBucket(r)
  BY <1>2, <1>4 DEF AuditBucket, groupVars
<1>5. CASE EmitPosted(r) \/ EmitReversed(r)
  BY <1>2, <1>5 DEF EmitPosted, EmitReversed, groupVars
<1>6. CASE NameEntry(r)
  <2>1. /\ pc[r] = "naming" /\ command[r] \in Command /\ command[r].op = "post" /\ RowsSound(r)
        /\ UNCHANGED <<groups, disturbed, command>> /\ DOMAIN trail' = DOMAIN trail
        /\ \A i \in DOMAIN trail : trail'[i] =
              IF trail[i].request = r THEN [trail[i] EXCEPT !.entity = r] ELSE trail[i]
    BY <1>1, <1>6 DEF NameEntry, ReadSound, FundInv, RequestSound, groupVars
  <2>2. OthersStay(r) /\ pc'[r] = "done"
    BY <1>1, <1>6 DEF NameEntry, OthersStay, Goto, groupVars
  <2>3. ASSUME NEW i \in DOMAIN trail, trail[i].request = r
        PROVE  trail[i].status \notin Status /\ trail'[i].status \notin Status
    <3>1. trail[i].status = NoChange
      BY <2>1, <2>3 DEF RowsSound, Rows
    <3>2. PICK old \in AuditEventRow : old = trail[i]
      BY <1>1, RowTyped
    <3>3. trail'[i].status = NoChange
      BY <2>1, <2>3, <3>1, <3>2 DEF AuditEventRow
    <3>4. QED
      BY <3>1, <3>3, GroupsAssumption
  <2>4. ASSUME NEW g \in Group
        PROVE  StatusRowsSound(g)' /\ StatusSound(g)'
    <3>1. StatusRows(g)' = StatusRows(g)
      <4>1. StatusRows(g)' = {i \in DOMAIN trail :
                                 trail'[i].entity = g /\ trail'[i].status \in Status}
        BY <2>1 DEF StatusRows, Status
      <4>2. QED
        BY <2>1, <2>3, <4>1 DEF StatusRows
    <3>2. \A i \in StatusRows(g) : trail'[i].status = trail[i].status
      BY <2>1, <2>3 DEF StatusRows
    <3>3. r \notin Touching(g)'
      BY <2>2 DEF Touching, InFlight, Step
    <3>4. StatusRowsSound(g) /\ StatusSound(g) /\ groups'[g] = groups[g] /\ disturbed' = disturbed
      BY <2>1 DEF StatusInv
    <3>5. QED
      BY <2>1, <2>2, <3>1, <3>2, <3>3, <3>4, StatusKept
  <2>5. QED
    BY <2>4 DEF StatusInv
<1>7. QED
  BY <1>3, <1>4, <1>5, <1>6

\* A new group has no row, and whoever touches it is disturbed.
LEMMA NewGroupStatus ==
    ASSUME FundInv, StatusInv, NEW r \in Request, CreateGroup(r) \/ CreateTenantGroup(r)
    PROVE  StatusInv'
<1>1. /\ TypeOK /\ pc[r] = "writing" /\ NewGroup(r) /\ command[r].op = "createGroup"
      /\ pc \in [Request -> {"idle"} \cup Step \cup Finished] /\ seen \in [Request -> Seen]
      /\ groups \in [Group -> Status \cup {NoRow}]
  BY DEF FundInv, TypeOK, CreateGroup, CreateTenantGroup, GroupTable
<1>2. PICK new \in Group : /\ groups[new] = NoRow /\ groups' = [groups EXCEPT ![new] = "ACTIVE"]
                           /\ seen' = [seen EXCEPT ![r] = new] /\ Disturb(new)
  BY <1>1 DEF NewGroup
<1>3. /\ OthersStay(r) /\ pc'[r] = "audit" /\ seen'[r] = new
      /\ UNCHANGED <<trail, command>> /\ groups'[new] = "ACTIVE"
      /\ disturbed \subseteq disturbed'
  BY <1>1, <1>2 DEF NewGroup, Goto, OthersStay, Disturb
<1>4. ASSUME NEW g \in Group, g # new
      PROVE  StatusRowsSound(g)' /\ StatusSound(g)'
  <2>1. r \notin Touching(g)'
    BY <1>1, <1>3, <1>4 DEF Touching, Updates, UpdateGroupDto
  <2>2. /\ StatusRowsSound(g) /\ StatusSound(g) /\ groups'[g] = groups[g]
        /\ StatusRows(g)' = StatusRows(g)
        /\ \A i \in StatusRows(g) : trail'[i].status = trail[i].status
    BY <1>2, <1>3, <1>4 DEF StatusInv, StatusRows
  <2>3. QED
    BY <1>1, <1>3, <2>1, <2>2, StatusKept
<1>5. StatusRows(new) = {} /\ StatusRows(new)' = {}
  BY <1>2, <1>3 DEF StatusInv, StatusRowsSound, StatusRows
<1>6. StatusRowsSound(new)'
  BY <1>5 DEF StatusRowsSound
<1>7. ASSUME new \notin disturbed'
      PROVE  /\ \A x \in Request \ {r} : x \notin Touching(new)'
             /\ \A x \in Request : pc'[x] = "audit" => x \notin Updates(new)'
  <2>1. Touching(new) = {}
    BY <1>2, <1>7 DEF Disturb
  <2>2. \A x \in Request \ {r} : x \notin Touching(new)'
    BY <1>3, <2>1 DEF OthersStay, Touching, Updates, InFlight
  <2>3. \A x \in Request \ {r} : pc'[x] = "audit" => x \notin Updates(new)'
    BY <2>2 DEF Touching, InFlight, Step
  <2>4. r \notin Updates(new)'
    BY <1>1, <1>3 DEF Updates, UpdateGroupDto
  <2>5. QED
    BY <2>2, <2>3, <2>4
<1>8. StatusSound(new)'
  <2>1. StatusInTrail(new)' = "ACTIVE"
    BY <1>5 DEF StatusInTrail
  <2>2. \A x \in Touching(new)' : x \in Request
    BY DEF Touching, InFlight
  <2>3. \A x \in Updates(new)' : x \in Request
    BY DEF Updates
  <2>4. QED
    BY <1>3, <1>5, <1>7, <2>1, <2>2, <2>3 DEF StatusSound
<1>9. QED
  BY <1>4, <1>6, <1>8 DEF StatusInv

\* Whoever alone touches the group it has updated owes the row that tells its status.
LEMMA UpdateStatus ==
    ASSUME FundInv, StatusInv, NEW r \in Request, UpdateGroup(r) \/ UpdateTenantGroup(r)
    PROVE  StatusInv'
<1>1. /\ TypeOK /\ pc[r] = "writing" /\ command[r].op = "updateGroup"
      /\ command[r] \in UpdateGroupDto
      /\ groups[command[r].group] # NoRow
      /\ pc \in [Request -> {"idle"} \cup Step \cup Finished] /\ seen \in [Request -> Seen]
      /\ groups \in [Group -> Status \cup {NoRow}]
  <2>1. /\ TypeOK /\ ReadSound(r) /\ pc[r] = "writing" /\ command[r].op = "updateGroup"
        /\ command[r] \in Command
    BY DEF FundInv, RequestSound, ReadSound, UpdateGroup, UpdateTenantGroup
  <2>2. QED
    BY <2>1, Kinds DEF ReadSound, TypeOK, GroupTable
<1>2. PICK new : new = command[r].group
  OBVIOUS
<1>3. new \in Group /\ command[r].status \in Status \cup {NoChange} /\ r \in Updates(new)
  BY <1>1, <1>2 DEF UpdateGroupDto, Updates
<1>4. PICK status : status = NewStatus(command[r])
  OBVIOUS
<1>5. /\ groups' = [groups EXCEPT ![new] = status]
      /\ pc' = [pc EXCEPT ![r] = "audit"] /\ UNCHANGED <<disturbed, trail, command>>
      /\ \/ seen' = [seen EXCEPT ![r] = command[r].status]
         \/ seen' = [seen EXCEPT ![r] = status]
  BY <1>2, <1>4 DEF UpdateGroup, UpdateTenantGroup, Goto
<1>6. /\ OthersStay(r) /\ pc'[r] = "audit" /\ groups'[new] = status
      /\ seen'[r] \in {command[r].status, status}
  BY <1>1, <1>3, <1>5 DEF OthersStay
<1>7. ASSUME NEW g \in Group, g # new
      PROVE  StatusRowsSound(g)' /\ StatusSound(g)'
  <2>1. r \notin Touching(g)' /\ r \notin Updates(g)
    BY <1>1, <1>2, <1>5, <1>7 DEF Touching, Updates
  <2>2. /\ StatusRowsSound(g) /\ StatusSound(g) /\ groups'[g] = groups[g]
        /\ StatusRows(g)' = StatusRows(g)
        /\ \A i \in StatusRows(g) : trail'[i].status = trail[i].status
    BY <1>5, <1>7 DEF StatusInv, StatusRows
  <2>3. QED
    BY <1>5, <1>6, <2>1, <2>2, StatusKept
<1>8. StatusRows(new)' = StatusRows(new) /\ StatusInTrail(new)' = StatusInTrail(new)
  BY <1>5 DEF StatusRows, StatusInTrail
<1>9. groups[new] # NoRow /\ groups[new] \in Status /\ status \in Status /\ status # NoRow
  BY <1>1, <1>2, <1>3, <1>4, SocialFundAssumption DEF NewStatus
<1>10. StatusRowsSound(new)'
  BY <1>3, <1>6, <1>8, <1>9 DEF StatusInv, StatusRowsSound
<1>11. ASSUME new \notin disturbed'
       PROVE  /\ groups[new] = StatusInTrail(new)
              /\ \A x \in Request : x \in Touching(new)' => x = r
  <2>1. new \notin disturbed /\ StatusSound(new)
    BY <1>3, <1>5, <1>11 DEF StatusInv
  <2>2. r \in Touching(new)
    BY <1>1, <1>3 DEF Touching, InFlight, Step
  <2>3. \A x \in Touching(new) : x = r
    BY <2>1, <2>2 DEF StatusSound
  <2>4. \A x \in Updates(new) : pc[x] # "audit"
    <3>1. \A x \in Updates(new) : pc[x] = "audit" => x \in Touching(new)
      BY DEF Updates, Touching, InFlight, Step
    <3>2. QED
      BY <1>1, <2>3, <3>1
  <2>5. \A x \in Request \ {r} : x \in Touching(new)' => x \in Touching(new)
    BY <1>6 DEF OthersStay, Touching, Updates, InFlight
  <2>6. QED
    BY <1>9, <2>1, <2>3, <2>4, <2>5 DEF StatusSound
<1>12. StatusSound(new)'
  <2> SUFFICES ASSUME new \notin disturbed'
               PROVE  /\ (\A x, y \in Touching(new) : x = y)'
                      /\ ~(\A x \in Updates(new)' : pc'[x] # "audit")
                      /\ \A x \in Updates(new)' : pc'[x] = "audit" =>
                            groups'[new] = IF seen'[x] \in Status THEN seen'[x]
                                           ELSE StatusInTrail(new)'
                      /\ \A x \in Request :
                            ~(pc'[x] = "audit" /\ command'[x].op = "createGroup" /\ seen'[x] = new)
    BY DEF StatusSound
  <2>1. \A x \in Touching(new)' : x = r
    <3>1. \A x \in Touching(new)' : x \in Request
      BY DEF Touching, InFlight
    <3>2. QED
      BY <1>11, <3>1
  <2>2. \A x \in Request : /\ pc'[x] = "audit"
                           /\ x \in Updates(new)' \/ (command'[x].op = "createGroup" /\ seen'[x] = new)
                           => x = r
    <3>1. \A x \in Request : /\ pc'[x] = "audit"
                             /\ x \in Updates(new)' \/ (command'[x].op = "createGroup" /\ seen'[x] = new)
                             => x \in Touching(new)'
      BY DEF Touching, InFlight, Step
    <3>2. QED
      BY <1>11, <3>1
  <2>3. r \in Updates(new)'
    BY <1>3, <1>5 DEF Updates
  <2>4. groups'[new] = IF seen'[r] \in Status THEN seen'[r] ELSE StatusInTrail(new)'
    <3>1. CASE seen'[r] = status
      BY <1>6, <1>9, <3>1
    <3>2. CASE seen'[r] = command[r].status
      <4>1. status = IF command[r].status = NoChange THEN groups[new] ELSE command[r].status
        BY <1>2, <1>4 DEF NewStatus
      <4>2. QED
        BY <1>3, <1>6, <1>8, <1>11, <3>2, <4>1, GroupsAssumption
    <3>3. QED
      BY <1>6, <3>1, <3>2
  <2>5. \A x \in Updates(new)' : x \in Request
    BY DEF Updates
  <2>6. QED
    BY <1>1, <1>5, <1>6, <2>1, <2>2, <2>3, <2>4, <2>5
<1>13. QED
  BY <1>7, <1>10, <1>12 DEF StatusInv

\* The row that was owed tells the status the group has.
LEMMA ToldStatus ==
    ASSUME FundInv, StatusInv, NEW r \in Request,
           AuditTenantGroupCreated(r) \/ AuditGroupUpdated(r) \/ AuditTenantGroupUpdated(r)
    PROVE  StatusInv'
<1>1. /\ TypeOK /\ ReadSound(r) /\ pc[r] = "audit" /\ command[r] \in Command
      /\ command[r].op \in {"createGroup", "updateGroup"}
      /\ pc \in [Request -> {"idle"} \cup Step \cup Finished] /\ seen \in [Request -> Seen]
      /\ UNCHANGED <<groups, disturbed, command>> /\ Leave(r, "done")
  BY DEF FundInv, RequestSound, ReadSound, TypeOK, AuditTenantGroupCreated, AuditGroupUpdated,
         AuditTenantGroupUpdated, AuditingVia, Auditing, Audited, groupVars
<1>2. PICK about : about = IF command[r].op = "createGroup" THEN seen[r] ELSE command[r].group
  OBVIOUS
<1>3. /\ about \in Group /\ groups[about] # NoRow /\ r \in Touching(about)
      /\ command[r].op = "updateGroup" => r \in Updates(about)
      /\ command[r].op = "createGroup" => \A g : r \notin Updates(g)
  <2>1. CASE command[r].op = "createGroup"
    BY <1>1, <1>2, <2>1 DEF ReadSound, Touching, Updates, UpdateGroupDto, InFlight, Step
  <2>2. CASE command[r].op = "updateGroup"
    <3>1. command[r] \in UpdateGroupDto
      BY <1>1, <2>2, Kinds
    <3>2. QED
      BY <1>1, <1>2, <2>2, <3>1 DEF ReadSound, Touching, Updates, UpdateGroupDto, InFlight, Step
  <2>3. QED
    BY <1>1, <2>1, <2>2
<1>4. PICK told : told = IF command[r].op = "createGroup" THEN "ACTIVE" ELSE seen[r]
  OBVIOUS
<1>5. PICK row : trail' = Append(trail, row) /\ row.entity = about /\ row.status = told
  <2>1. CASE AuditTenantGroupCreated(r)
    BY <1>2, <1>4, <2>1 DEF AuditTenantGroupCreated, AuditingVia, Auditing, Audited, Emit, AuditRow
  <2>2. CASE AuditGroupUpdated(r) \/ AuditTenantGroupUpdated(r)
    BY <1>2, <1>4, <2>2 DEF AuditGroupUpdated, AuditTenantGroupUpdated, AuditingVia, Auditing,
                            Audited, Emit, AuditRow
  <2>3. QED
    BY <2>1, <2>2
<1>6. OthersStay(r) /\ pc'[r] = "done" /\ \A g : r \notin Touching(g)'
  BY <1>1 DEF Leave, Goto, OthersStay, Touching, InFlight, Step
<1>7. ASSUME NEW g \in Group, g # about
      PROVE  StatusRowsSound(g)' /\ StatusSound(g)'
  <2>1. StatusRowsSound(g) /\ StatusSound(g)
    BY DEF StatusInv
  <2>2. /\ StatusRows(g)' = StatusRows(g)
        /\ \A i \in StatusRows(g) : trail'[i].status = trail[i].status
    BY <1>1, <1>5, <1>7, <2>1, StatusAppended
  <2>3. r \notin Updates(g)
    BY <1>2, <1>3, <1>7, <1>1 DEF Updates
  <2>4. QED
    BY <1>1, <1>6, <2>1, <2>2, <2>3, StatusKept
<1>8. StatusRowsSound(about) /\ StatusSound(about)
  BY <1>3 DEF StatusInv
<1>9. StatusRowsSound(about)'
  <2>1. \/ StatusRows(about)' = StatusRows(about)
        \/ \E i \in StatusRows(about)' : \A j \in StatusRows(about)' : j <= i
    BY <1>1, <1>5, <1>8, StatusAppended
  <2>2. QED
    BY <1>1, <1>3, <1>8, <2>1 DEF StatusRowsSound
<1>10. ASSUME about \notin disturbed
       PROVE  /\ groups'[about] = StatusInTrail(about)'
              /\ \A x \in Request : x \notin Touching(about)'
  <2>1. \A x \in Touching(about) : x = r
    BY <1>3, <1>8, <1>10 DEF StatusSound
  <2>2. \A x \in Request \ {r} : x \in Touching(about)' => x \in Touching(about)
    BY <1>6 DEF OthersStay, Touching, Updates, InFlight
  <2>3. groups'[about] = StatusInTrail(about)'
    <3>1. CASE told \in Status
      <4>1. StatusInTrail(about)' = told
        BY <1>1, <1>5, <1>8, <3>1, StatusAppended
      <4>2. groups[about] = told
        BY <1>1, <1>2, <1>3, <1>4, <1>8, <1>10, <3>1 DEF StatusSound
      <4>3. QED
        BY <1>1, <4>1, <4>2
    <3>2. CASE told \notin Status
      <4>1. command[r].op = "updateGroup" /\ told = seen[r]
        BY <1>1, <1>4, <3>2 DEF Status
      <4>2. /\ StatusRows(about)' = StatusRows(about)
            /\ \A i \in StatusRows(about) : trail'[i].status = trail[i].status
        BY <1>1, <1>5, <1>8, <3>2, StatusAppended
      <4>3. StatusInTrail(about)' = StatusInTrail(about)
        BY <1>1, <1>8, <4>2, SameStatusInTrail
      <4>4. groups[about] = StatusInTrail(about)
        BY <1>1, <1>3, <1>8, <1>10, <3>2, <4>1 DEF StatusSound
      <4>5. QED
        BY <1>1, <4>3, <4>4
    <3>3. QED
      BY <3>1, <3>2
  <2>4. QED
    BY <1>6, <2>1, <2>2, <2>3
<1>11. StatusSound(about)'
  <2>1. \A x \in Touching(about)' : x \in Request
    BY DEF Touching, InFlight
  <2>2. \A x \in Updates(about)' : x \in Request /\ (pc'[x] = "audit" => x \in Touching(about)')
    BY DEF Updates, Touching, InFlight, Step
  <2>3. \A x \in Request : pc'[x] = "audit" /\ command'[x].op = "createGroup" /\ seen'[x] = about
           => x \in Touching(about)'
    BY DEF Touching, InFlight, Step
  <2>4. QED
    BY <1>1, <1>10, <2>1, <2>2, <2>3 DEF StatusSound
<1>12. QED
  BY <1>7, <1>9, <1>11 DEF StatusInv

\* The update of a group that dies disturbs it; a creation that dies leaves it as it is.
LEMMA CrashStatus ==
    ASSUME FundInv, StatusInv, NEW r \in Request, Crash(r)
    PROVE  StatusInv'
<1>1. /\ TypeOK /\ pc[r] \in Step /\ UNCHANGED <<groups, trail, command>>
      /\ pc \in [Request -> {"idle"} \cup Step \cup Finished] /\ seen \in [Request -> Seen]
      /\ pc' = [pc EXCEPT ![r] = "crashed"] /\ seen' = [seen EXCEPT ![r] = NoId]
      /\ disturbed' = IF command[r].op = "updateGroup" THEN disturbed \cup {command[r].group}
                      ELSE disturbed
  BY DEF FundInv, TypeOK, Crash, Leave, Goto
<1>2. OthersStay(r) /\ \A g : r \notin Touching(g)'
  BY <1>1 DEF OthersStay, Touching, InFlight, Step
<1>3. ASSUME NEW g \in Group
      PROVE  StatusRowsSound(g)' /\ StatusSound(g)'
  <2>1. g \in disturbed' \/ r \notin Updates(g)
    BY <1>1 DEF Updates, UpdateGroupDto
  <2>2. /\ StatusRowsSound(g) /\ StatusSound(g) /\ StatusRows(g)' = StatusRows(g)
        /\ \A i \in StatusRows(g) : trail'[i].status = trail[i].status
        /\ groups'[g] = groups[g] /\ disturbed \subseteq disturbed'
    BY <1>1 DEF StatusInv, StatusRows
  <2>3. QED
    BY <1>2, <2>1, <2>2, StatusKept
<1>4. QED
  BY <1>3 DEF StatusInv

LEMMA StatusInit == Init => StatusInv
<1> SUFFICES ASSUME Init, NEW g \in Group PROVE StatusRowsSound(g) /\ StatusSound(g)
  BY DEF StatusInv
<1>1. StatusRows(g) = {} /\ Touching(g) = {}
  BY DEF Init, StatusRows, Touching, InFlight, Step
<1>2. groups[g] # NoRow => groups[g] = "ACTIVE"
  BY DEF Init, GroupsInit
<1>3. \A r \in Request : pc[r] # "audit"
  BY DEF Init
<1>4. StatusInTrail(g) = "ACTIVE"
  BY <1>1 DEF StatusInTrail
<1>5. \A r \in Updates(g) : r \in Request
  BY DEF Updates
<1>6. QED
  BY <1>1, <1>2, <1>3, <1>4, <1>5 DEF StatusRowsSound, StatusSound

LEMMA StatusNext == FundInv /\ StatusInv /\ [Next]_vars => StatusInv'
<1> SUFFICES ASSUME FundInv, StatusInv, [Next]_vars PROVE StatusInv'
  OBVIOUS
<1>1. ASSUME NEW r \in Request, GroupStep(r)
      PROVE  StatusInv'
  BY <1>1, ArriveStatus, OtherStatus, NewGroupStatus, UpdateStatus, RowStatus, ToldStatus,
     CrashStatus DEF GroupStep
<1>2. ASSUME NEW r \in Request, FundStep(r)
      PROVE  StatusInv'
  BY <1>2, ArriveStatus, OtherStatus, RowStatus DEF FundStep
<1>3. CASE UNCHANGED vars
  <2> USE <1>3 DEF vars, groupVars
  <2>1. ASSUME NEW g \in Group
        PROVE  /\ Touching(g)' = Touching(g) /\ Updates(g)' = Updates(g)
               /\ StatusRows(g)' = StatusRows(g) /\ StatusInTrail(g)' = StatusInTrail(g)
    BY DEF Touching, Updates, InFlight, StatusRows, StatusInTrail
  <2>2. ASSUME NEW g \in Group
        PROVE  StatusRowsSound(g)' /\ StatusSound(g)'
    BY <2>1 DEF StatusInv, StatusRowsSound, StatusSound
  <2>3. QED
    BY <2>2 DEF StatusInv
<1>4. QED
  BY <1>1, <1>2, <1>3 DEF Next

THEOREM StatusInvariant == Spec => []StatusInv
BY Invariance, StatusInit, StatusNext, PTL DEF Spec

\* Every write of the register and of the fund is accounted for by the audit rows of
\* its service, and the two trails that the two group services keep tell the status
\* of every group that one request at a time created and updated.
THEOREM TrailsAccount == Spec => []TrailAccounts
<1>1. StatusInv => StatusExplained
  BY DEF StatusInv, StatusSound, StatusExplained
<1>2. QED
  BY <1>1, StatusInvariant, FundIsAudited, RegisterIsAudited, PTL DEF TrailAccounts
-----------------------------------------------------------------------------
(* Sums over finite sets, which the community modules define by a fold.    *)

LEMMA LeastNat ==
    ASSUME NEW S, S \subseteq Nat, S # {}
    PROVE  \E x \in S : \A y \in S : x <= y
<1> DEFINE R == OpToRel(<, Nat)
<1>1. IsWellFoundedOn(R, Nat)
  BY NatLessThanWellFounded
<1>2. \A x, y \in Nat : x < y => <<x, y>> \in R
  BY DEF OpToRel
<1> HIDE DEF R
<1>3. PICK x \in S : \A y \in S : ~(<<y, x>> \in R)
  BY <1>1, WFMin
<1>4. \A y \in S : x \in Nat /\ y \in Nat /\ ~(y < x)
  BY <1>2, <1>3
<1>5. \A y \in S : x <= y
  BY <1>4
<1>6. QED
  BY <1>3, <1>5

\* What a finite set has if a set has it whenever it does without any one of its elements.
LEMMA SetInduction ==
    ASSUME NEW S, IsFiniteSet(S), NEW G,
           \A s \in SUBSET S : (\A x \in s : s \ {x} \in G) => s \in G
    PROVE  S \in G
<1> DEFINE T == {Cardinality(s) : s \in {t \in SUBSET S : t \notin G}}
<1>1. \A s \in SUBSET S : IsFiniteSet(s) /\ Cardinality(s) \in Nat
  BY FS_Subset, FS_CardinalityType
<1> SUFFICES ASSUME S \notin G PROVE FALSE
  OBVIOUS
<1>2. T \subseteq Nat /\ T # {}
  <2>1. T \subseteq Nat
    BY <1>1
  <2>2. S \in {t \in SUBSET S : t \notin G}
    OBVIOUS
  <2>3. QED
    BY <2>1, <2>2
<1>3. PICK n \in T : \A m \in T : n <= m
  BY <1>2, LeastNat
<1>4. PICK s \in SUBSET S : s \notin G /\ n = Cardinality(s)
  BY <1>3
<1>5. PICK x \in s : s \ {x} \notin G
  BY <1>4
<1>6. s \ {x} \in SUBSET S
  OBVIOUS
<1>7. Cardinality(s \ {x}) = Cardinality(s) - 1 /\ Cardinality(s \ {x}) \in Nat /\ Cardinality(s) \in Nat
  BY <1>1, <1>6, FS_RemoveElement
<1>8. Cardinality(s \ {x}) \in T
  BY <1>5, <1>6
<1> HIDE DEF T
<1>9. n <= Cardinality(s \ {x})
  BY <1>3, <1>8
<1>10. QED
  BY <1>4, <1>7, <1>9

-----------------------------------------------------------------------------
\* The function by which SumFunctionOnSet is defined, and its value for one set.
Chosen(s) == CHOOSE x \in s : TRUE
Value(sum, f, s) == IF s = {} THEN 0 ELSE f[Chosen(s)] + sum[s \ {Chosen(s)}]
Iter(sum, f, S) == sum = [s \in SUBSET S |-> Value(sum, f, s)]

LEMMA SumIsIter ==
    ASSUME NEW f, NEW S
    PROVE  SumFunctionOnSet(f, S) = (CHOOSE sum : Iter(sum, f, S))[S]
BY DEF SumFunctionOnSet, FoldFunctionOnSet, MapThenFoldSet, Iter, Value, Chosen

LEMMA IterExists ==
    ASSUME NEW f, NEW S, IsFiniteSet(S)
    PROVE  \E sum : Iter(sum, f, S)
<1> DEFINE UpTo(sum, n) == /\ sum = [s \in SUBSET S |-> sum[s]]
                           /\ \A s \in SUBSET S : Cardinality(s) <= n => sum[s] = Value(sum, f, s)
           T == {n \in Nat : ~\E sum : UpTo(sum, n)}
<1>1. \A s \in SUBSET S : IsFiniteSet(s) /\ Cardinality(s) \in Nat
  BY FS_Subset, FS_CardinalityType
<1>2. T = {}
  <2> SUFFICES ASSUME T # {} PROVE FALSE
    OBVIOUS
  <2>1. PICK n \in T : \A m \in T : n <= m
    <3>1. T \subseteq Nat
      OBVIOUS
    <3> HIDE DEF T
    <3>2. QED
      BY <3>1, LeastNat
  <2>2. PICK old : /\ old = [s \in SUBSET S |-> old[s]]
                   /\ \A s \in SUBSET S : Cardinality(s) < n => old[s] = Value(old, f, s)
    <3>1. CASE n = 0
      <4>1. \A s \in SUBSET S : ~(Cardinality(s) < n)
        BY <1>1, <3>1
      <4> PICK old : old = [s \in SUBSET S |-> 0]
        OBVIOUS
      <4>2. QED
        BY <4>1
    <3>2. CASE n # 0
      <4>1. n - 1 \in Nat /\ n - 1 \notin T
        <5>1. n \in Nat
          OBVIOUS
        <5> HIDE DEF T
        <5>2. n - 1 \in Nat /\ ~(n <= n - 1)
          BY <3>2, <5>1
        <5>3. QED
          BY <2>1, <5>2
      <4>2. PICK old : UpTo(old, n - 1)
        BY <4>1
      <4>3. \A s \in SUBSET S : Cardinality(s) < n => Cardinality(s) <= n - 1
        BY <1>1, <2>1
      <4>4. QED
        BY <4>2, <4>3
    <3>3. QED
      BY <3>1, <3>2
  <2> DEFINE new == [s \in SUBSET S |-> Value(old, f, s)]
  <2>3. ASSUME NEW s \in SUBSET S, Cardinality(s) <= n
        PROVE  new[s] = Value(new, f, s)
    <3>1. CASE s = {}
      BY <3>1 DEF Value
    <3>2. CASE s # {}
      <4> DEFINE t == s \ {Chosen(s)}
      <4>1. Chosen(s) \in s
        BY <3>2 DEF Chosen
      <4>2. t \in SUBSET S /\ Cardinality(t) < n
        <5>1. t \in SUBSET S
          OBVIOUS
        <5>2. Cardinality(t) = Cardinality(s) - 1
          BY <1>1, <4>1, FS_RemoveElement
        <5>3. QED
          BY <1>1, <2>1, <2>3, <5>1, <5>2
      <4>3. new[t] = Value(old, f, t)
        BY <4>2
      <4>4. old[t] = new[t]
        BY <2>2, <4>2, <4>3
      <4>5. new[s] = f[Chosen(s)] + old[t] /\ Value(new, f, s) = f[Chosen(s)] + new[t]
        BY <3>2 DEF Value
      <4>6. QED
        BY <4>4, <4>5
    <3>3. QED
      BY <3>1, <3>2
  <2>4. new = [s \in SUBSET S |-> new[s]]
    OBVIOUS
  <2> HIDE DEF new
  <2>5. UpTo(new, n)
    BY <2>3, <2>4
  <2>6. QED
    BY <2>1, <2>5
<1>3. PICK sum : UpTo(sum, Cardinality(S))
  BY <1>1, <1>2
<1>4. \A s \in SUBSET S : Cardinality(s) <= Cardinality(S)
  BY FS_Subset
<1>5. QED
  BY <1>3, <1>4 DEF Iter

LEMMA IterUnique ==
    ASSUME NEW f, NEW S, IsFiniteSet(S), NEW U, S \subseteq U, NEW V, S \subseteq V,
           NEW g, Iter(g, f, U), NEW h, Iter(h, f, V)
    PROVE  g[S] = h[S]
<1> DEFINE G == {s \in SUBSET S : g[s] = h[s]}
<1>1. ASSUME NEW s \in SUBSET S, \A x \in s : s \ {x} \in G
      PROVE  s \in G
  <2>1. g[s] = Value(g, f, s) /\ h[s] = Value(h, f, s)
    <3>1. s \in SUBSET U /\ s \in SUBSET V
      OBVIOUS
    <3>2. QED
      BY <3>1 DEF Iter
  <2>2. CASE s = {}
    BY <2>1, <2>2 DEF Value
  <2>3. CASE s # {}
    <3>1. Chosen(s) \in s
      BY <2>3 DEF Chosen
    <3>2. g[s \ {Chosen(s)}] = h[s \ {Chosen(s)}]
      BY <1>1, <3>1
    <3>3. QED
      BY <2>1, <2>3, <3>2 DEF Value
  <2>4. QED
    BY <2>2, <2>3
<1> HIDE DEF G
<1>2. S \in G
  BY <1>1, SetInduction
<1>3. QED
  BY <1>2 DEF G

\* A sum takes the chosen element first.
LEMMA SumChosen ==
    ASSUME NEW f, NEW S, IsFiniteSet(S)
    PROVE  SumFunctionOnSet(f, S) =
              IF S = {} THEN 0
              ELSE f[Chosen(S)] + SumFunctionOnSet(f, S \ {Chosen(S)})
<1> DEFINE T == S \ {Chosen(S)}
           g == CHOOSE sum : Iter(sum, f, S)
           h == CHOOSE sum : Iter(sum, f, T)
<1>1. IsFiniteSet(T) /\ T \subseteq S
  BY FS_Subset
<1>2. Iter(g, f, S) /\ Iter(h, f, T)
  <2>1. Iter(g, f, S)
    BY IterExists
  <2>2. Iter(h, f, T)
    <3>1. \E sum : Iter(sum, f, T)
      BY <1>1, IterExists
    <3>2. QED
      BY <3>1
  <2>3. QED
    BY <2>1, <2>2
<1>3. SumFunctionOnSet(f, S) = g[S] /\ SumFunctionOnSet(f, T) = h[T]
  BY SumIsIter
<1> HIDE DEF g, h
<1>4. g[T] = h[T]
  BY <1>1, <1>2, IterUnique
<1>5. g[S] = Value(g, f, S)
  BY <1>2 DEF Iter
<1>6. QED
  BY <1>3, <1>4, <1>5 DEF Value

LEMMA SumEmpty == ASSUME NEW f PROVE SumFunctionOnSet(f, {}) = 0
BY SumChosen, FS_EmptySet

LEMMA SumType ==
    ASSUME NEW S, IsFiniteSet(S), NEW f, \A x \in S : f[x] \in Int
    PROVE  SumFunctionOnSet(f, S) \in Int
<1> DEFINE G == {s \in SUBSET S : SumFunctionOnSet(f, s) \in Int}
<1>1. ASSUME NEW s \in SUBSET S, \A x \in s : s \ {x} \in G
      PROVE  s \in G
  <2>1. IsFiniteSet(s)
    BY FS_Subset
  <2>2. CASE s = {}
    BY <2>2, SumEmpty
  <2>3. CASE s # {}
    <3>1. Chosen(s) \in s
      BY <2>3 DEF Chosen
    <3>2. SumFunctionOnSet(f, s \ {Chosen(s)}) \in Int /\ f[Chosen(s)] \in Int
      BY <1>1, <3>1
    <3>3. SumFunctionOnSet(f, s) = f[Chosen(s)] + SumFunctionOnSet(f, s \ {Chosen(s)})
      BY <2>1, <2>3, SumChosen
    <3>4. QED
      BY <3>2, <3>3
  <2>4. QED
    BY <2>2, <2>3
<1> HIDE DEF G
<1>2. S \in G
  BY <1>1, SetInduction
<1>3. QED
  BY <1>2 DEF G

\* A sum may take any element first.
LEMMA SumRemove ==
    ASSUME NEW S, IsFiniteSet(S), NEW f, \A y \in S : f[y] \in Int, NEW x \in S
    PROVE  /\ SumFunctionOnSet(f, S) = f[x] + SumFunctionOnSet(f, S \ {x})
           /\ SumFunctionOnSet(f, S) \in Int /\ SumFunctionOnSet(f, S \ {x}) \in Int
<1> DEFINE Sum(s) == SumFunctionOnSet(f, s)
           G == {s \in SUBSET S : \A y \in s : Sum(s) = f[y] + Sum(s \ {y})}
<1>1. \A s \in SUBSET S : IsFiniteSet(s) /\ Sum(s) \in Int
  <2> TAKE s \in SUBSET S
  <2>1. IsFiniteSet(s)
    BY FS_Subset
  <2>2. QED
    BY <2>1, SumType
<1>2. ASSUME NEW s \in SUBSET S, \A y \in s : s \ {y} \in G
      PROVE  s \in G
  <2> SUFFICES ASSUME NEW y \in s PROVE Sum(s) = f[y] + Sum(s \ {y})
    OBVIOUS
  <2>1. PICK c : c = Chosen(s)
    OBVIOUS
  <2>2. c \in s /\ Sum(s) = f[c] + Sum(s \ {c})
    <3>1. c \in s /\ s # {}
      BY <2>1 DEF Chosen
    <3>2. IsFiniteSet(s)
      BY <1>1
    <3>3. SumFunctionOnSet(f, s) = f[c] + SumFunctionOnSet(f, s \ {c})
      BY <2>1, <3>1, <3>2, SumChosen
    <3>4. QED
      BY <3>1, <3>3
  <2>3. CASE c = y
    BY <2>2, <2>3
  <2>4. CASE c # y
    <3>1. s \ {c} \in G /\ s \ {y} \in G /\ y \in s \ {c} /\ c \in s \ {y}
      BY <1>2, <2>2, <2>4
    <3>2. /\ Sum(s \ {c}) = f[y] + Sum((s \ {c}) \ {y})
          /\ Sum(s \ {y}) = f[c] + Sum((s \ {y}) \ {c})
      BY <3>1
    <3>3. (s \ {c}) \ {y} = (s \ {y}) \ {c} /\ (s \ {y}) \ {c} \in SUBSET S
      OBVIOUS
    <3>4. PICK a : a = Sum((s \ {y}) \ {c})
      OBVIOUS
    <3>5. a \in Int /\ f[c] \in Int /\ f[y] \in Int
      BY <1>1, <2>2, <3>3, <3>4
    <3>6. Sum(s \ {c}) = f[y] + a /\ Sum(s \ {y}) = f[c] + a
      BY <3>2, <3>3, <3>4
    <3> HIDE DEF Sum, G
    <3>7. QED
      BY <2>2, <3>5, <3>6
  <2>5. QED
    BY <2>3, <2>4
<1> HIDE DEF G
<1>3. S \in G
  BY <1>2, SetInduction
<1>4. QED
  BY <1>1, <1>3 DEF G

LEMMA SumSame ==
    ASSUME NEW S, IsFiniteSet(S), NEW f, NEW g, \A x \in S : f[x] = g[x]
    PROVE  SumFunctionOnSet(f, S) = SumFunctionOnSet(g, S)
<1> DEFINE G == {s \in SUBSET S : SumFunctionOnSet(f, s) = SumFunctionOnSet(g, s)}
<1>1. ASSUME NEW s \in SUBSET S, \A x \in s : s \ {x} \in G
      PROVE  s \in G
  <2>1. IsFiniteSet(s)
    BY FS_Subset
  <2>2. CASE s = {}
    BY <2>2, SumEmpty
  <2>3. CASE s # {}
    <3>1. Chosen(s) \in s
      BY <2>3 DEF Chosen
    <3>2. /\ SumFunctionOnSet(f, s \ {Chosen(s)}) = SumFunctionOnSet(g, s \ {Chosen(s)})
          /\ f[Chosen(s)] = g[Chosen(s)]
      BY <1>1, <3>1
    <3>3. QED
      BY <2>1, <2>3, <3>2, SumChosen
  <2>4. QED
    BY <2>2, <2>3
<1> HIDE DEF G
<1>2. S \in G
  BY <1>1, SetInduction
<1>3. QED
  BY <1>2 DEF G

-----------------------------------------------------------------------------
(* The balance of a bucket.  Only finitely many requests have posted, and    *)
(* every reversal takes one posting of its bucket back.                      *)

\* Reversals taken one by one: each takes the amount of its posting back.
LEMMA NetOfReversals ==
    ASSUME NEW P, IsFiniteSet(P), NEW R, IsFiniteSet(R), P \cap R = {},
           NEW a, \A x \in P \cup R : a[x] \in Int,
           NEW t \in [R -> P], \A x \in R : a[x] = -a[t[x]],
           NEW of \in [P -> SUBSET R], \A e \in P, x \in R : x \in of[e] <=> t[x] = e,
           NEW net, \A e \in P : net[e] = a[e] * (1 - Cardinality(of[e]))
    PROVE  SumFunctionOnSet(a, P \cup R) = SumFunctionOnSet(net, P)
<1> DEFINE Of(s, e) == {x \in s : t[x] = e}
           Left(s) == [e \in P |-> a[e] * (1 - Cardinality(Of(s, e)))]
           Sound == {s \in SUBSET R :
                        SumFunctionOnSet(a, P \cup s) = SumFunctionOnSet(Left(s), P)}
<1>1. \A s \in SUBSET R, e \in P :
         /\ IsFiniteSet(Of(s, e)) /\ Cardinality(Of(s, e)) \in Nat
  <2> TAKE s \in SUBSET R, e \in P
  <2>1. Of(s, e) \subseteq R
    OBVIOUS
  <2>2. IsFiniteSet(Of(s, e))
    BY <2>1, FS_Subset
  <2>3. QED
    BY <2>2, FS_CardinalityType
<1>2. \A s \in SUBSET R, e \in P :
         Left(s)[e] = a[e] * (1 - Cardinality(Of(s, e))) /\ Left(s)[e] \in Int
  <2> HIDE DEF Of
  <2>1. QED
    BY <1>1
<1>3. \A s \in SUBSET R : IsFiniteSet(P \cup s) /\ \A x \in P \cup s : a[x] \in Int
  <2> TAKE s \in SUBSET R
  <2>1. IsFiniteSet(s)
    BY FS_Subset
  <2>2. QED
    BY <2>1, FS_Union
<1>4. ASSUME NEW s \in SUBSET R, \A x \in s : s \ {x} \in Sound
      PROVE  s \in Sound
  <2>1. CASE s = {}
    <3>1. P \cup s = P
      BY <2>1
    <3>2. ASSUME NEW e \in P PROVE a[e] = Left(s)[e]
      <4>1. Of(s, e) = {}
        BY <2>1
      <4>2. Cardinality(Of(s, e)) = 0
        BY <4>1, FS_EmptySet
      <4>3. Left(s)[e] = a[e] * (1 - 0) /\ a[e] \in Int
        BY <1>2, <4>2
      <4> HIDE DEF Left
      <4>4. QED
        BY <4>3
    <3> HIDE DEF Left
    <3>3. SumFunctionOnSet(a, P) = SumFunctionOnSet(Left(s), P)
      BY <3>2, SumSame
    <3>4. QED
      BY <3>1, <3>3
  <2>2. CASE s # {}
    <3>1. PICK x \in s : TRUE
      BY <2>2
    <3>2. PICK r, e : r = s \ {x} /\ e = t[x]
      OBVIOUS
    <3>3. r \in SUBSET R /\ r \in Sound /\ e \in P /\ x \in R /\ a[x] = -a[e] /\ x \notin P
      BY <1>4, <3>1, <3>2
    <3>4. SumFunctionOnSet(a, P \cup r) = SumFunctionOnSet(Left(r), P)
      BY <3>3
    <3>5. /\ SumFunctionOnSet(a, P \cup s) = a[x] + SumFunctionOnSet(a, P \cup r)
          /\ SumFunctionOnSet(a, P \cup r) \in Int
      <4>1. PICK u : u = P \cup s
        OBVIOUS
      <4>2. u \ {x} = P \cup r /\ x \in u
        BY <3>1, <3>2, <3>3, <4>1
      <4>3. IsFiniteSet(u) /\ \A y \in u : a[y] \in Int
        BY <1>3, <4>1
      <4> HIDE DEF Sound
      <4>4. /\ SumFunctionOnSet(a, u) = a[x] + SumFunctionOnSet(a, u \ {x})
            /\ SumFunctionOnSet(a, u \ {x}) \in Int
        BY <4>2, <4>3, SumRemove
      <4>5. QED
        BY <4>1, <4>2, <4>4
    <3>6. Left(s)[e] = Left(r)[e] - a[e]
      <4>1. Of(r, e) = Of(s, e) \ {x} /\ x \in Of(s, e)
        BY <3>1, <3>2
      <4> HIDE DEF Of, Sound
      <4>2. PICK k \in Nat : k = Cardinality(Of(r, e))
        BY <1>1, <3>3
      <4>3. Cardinality(Of(r, e)) = Cardinality(Of(s, e)) - 1 /\ Cardinality(Of(s, e)) \in Nat
        <5>1. PICK c : c = Of(s, e)
          OBVIOUS
        <5>2. IsFiniteSet(c) /\ Cardinality(c) \in Nat
          BY <1>1, <3>3, <5>1
        <5>3. x \in c /\ Of(r, e) = c \ {x}
          BY <4>1, <5>1
        <5>4. Cardinality(c \ {x}) = Cardinality(c) - 1
          BY <5>2, <5>3, FS_RemoveElement
        <5>5. QED
          BY <5>1, <5>2, <5>3, <5>4
      <4>4. Cardinality(Of(s, e)) = k + 1
        BY <4>2, <4>3
      <4>5. PICK n \in Int : n = a[e]
        BY <3>3
      <4>6. Left(s)[e] = n * (1 - (k + 1)) /\ Left(r)[e] = n * (1 - k)
        BY <1>2, <3>3, <4>2, <4>4, <4>5
      <4>7. n * (1 - (k + 1)) = n * (1 - k) - n
        OBVIOUS
      <4> HIDE DEF Left
      <4>8. QED
        BY <4>5, <4>6, <4>7
    <3>7. ASSUME NEW f \in P \ {e} PROVE Left(s)[f] = Left(r)[f]
      <4>1. Of(s, f) = Of(r, f)
        BY <3>2
      <4>2. QED
        BY <1>2, <3>3, <4>1
    <3> HIDE DEF Left, Sound
    <3>8. /\ SumFunctionOnSet(Left(s), P) = Left(s)[e] + SumFunctionOnSet(Left(s), P \ {e})
          /\ SumFunctionOnSet(Left(s), P \ {e}) \in Int
      <4>1. \A f \in P : Left(s)[f] \in Int
        BY <1>2
      <4>2. QED
        BY <3>3, <4>1, SumRemove
    <3>9. SumFunctionOnSet(Left(r), P) = Left(r)[e] + SumFunctionOnSet(Left(r), P \ {e})
      <4>1. \A f \in P : Left(r)[f] \in Int
        BY <1>2, <3>3
      <4>2. QED
        BY <3>3, <4>1, SumRemove
    <3>10. SumFunctionOnSet(Left(s), P \ {e}) = SumFunctionOnSet(Left(r), P \ {e})
      <4>1. IsFiniteSet(P \ {e})
        BY FS_Subset
      <4>2. QED
        BY <3>7, <4>1, SumSame
    <3>11. Left(r)[e] \in Int /\ a[e] \in Int
      BY <1>2, <3>3
    <3>12. SumFunctionOnSet(a, P \cup s) = SumFunctionOnSet(Left(s), P)
      BY <3>3, <3>4, <3>5, <3>6, <3>8, <3>9, <3>10, <3>11
    <3>13. QED
      BY <3>12 DEF Sound
  <2>3. QED
    BY <2>1, <2>2
<1> HIDE DEF Sound
<1>5. R \in Sound
  BY <1>4, SetInduction
<1>6. SumFunctionOnSet(a, P \cup R) = SumFunctionOnSet(Left(R), P)
  BY <1>5 DEF Sound
<1>7. ASSUME NEW e \in P PROVE Left(R)[e] = net[e]
  <2>1. Of(R, e) = {x \in of[e] : TRUE}
    OBVIOUS
  <2>2. Of(R, e) = of[e]
    BY <2>1
  <2>3. QED
    BY <2>2
<1> HIDE DEF Left
<1>8. SumFunctionOnSet(Left(R), P) = SumFunctionOnSet(net, P)
  BY <1>7, SumSame
<1>9. QED
  BY <1>6, <1>8

\* One request posts one entry, so there are finitely many.
LEMMA PostedFinite == IsFiniteSet(Posted) /\ TypeOK /\ [Next]_vars => IsFiniteSet(Posted)'
<1> SUFFICES ASSUME IsFiniteSet(Posted), TypeOK, [Next]_vars PROVE IsFiniteSet(Posted)'
  OBVIOUS
<1>1. \/ UNCHANGED entries
      \/ \E r \in Request : \A e \in Request \ {r} : entries'[e] = entries[e]
  <2>1. ASSUME NEW r \in Request, GroupStep(r) /\ UNCHANGED fundVars PROVE UNCHANGED entries
    BY <2>1 DEF fundVars
  <2>2. ASSUME NEW r \in Request, CreateEntry(r) \/ CreateReversal(r)
        PROVE  \A e \in Request \ {r} : entries'[e] = entries[e]
    BY <2>2 DEF CreateEntry, CreateReversal, TypeOK
  <2>3. ASSUME NEW r \in Request,
               \/ ArriveAtFund(r) \/ GuardAdmin(r) \/ ReadBucket(r) \/ ReadEntry(r)
               \/ CheckPost(r) \/ CheckReversal(r) \/ CheckBucket(r) \/ LookUp(r)
               \/ EmitPosted(r) \/ EmitReversed(r) \/ CreateBucket(r)
               \/ NameEntry(r) \/ AuditBucket(r)
        PROVE  UNCHANGED entries
    BY <2>3 DEF fundVars, ArriveAtFund, GuardAdmin, ReadBucket, ReadEntry, CheckPost,
       CheckReversal, CheckBucket, LookUp, EmitPosted, EmitReversed, CreateBucket, NameEntry,
       AuditBucket
  <2>4. UNCHANGED vars => UNCHANGED entries
    BY DEF vars, fundVars
  <2>5. QED
    BY <2>1, <2>2, <2>3, <2>4 DEF Next, FundStep
<1>2. PICK r : Posted' \subseteq Posted \cup {r}
  BY <1>1 DEF Posted
<1>3. IsFiniteSet(Posted \cup {r})
  BY FS_AddElement
<1>4. QED
  BY <1>2, <1>3, FS_Subset

\* The reversals of a posting are those that name it.
LEMMA ReversalsNamed ==
    ASSUME FundInv, NEW e \in Posted, entries[e].type # "REVERSAL"
    PROVE  ReversalsOf(e) = {x \in Posted : /\ entries[x].bucket = entries[e].bucket
                                            /\ entries[x].type = "REVERSAL"
                                            /\ command[x].entry = e}
<1>1. ASSUME NEW x \in Posted, entries[x].type = "REVERSAL"
      PROVE  /\ \A i \in Rows(x) : trail[i].entity = command[x].entry
             /\ Rows(x) # {}
             /\ entries[command[x].entry].bucket = entries[x].bucket
  <2>1. x \in Request /\ entries[x] # NoEntry /\ RowsSound(x)
        /\ (IsPosting(x) \/ IsReversal(x))
    BY DEF FundInv, RequestSound, EntrySound, Posted
  <2>2. IsReversal(x)
    BY <1>1, <2>1, PostingThere DEF Posted
  <2>3. pc[x] # "idle" /\ command[x].op = "reverse"
    BY <2>2 DEF IsReversal, ReversalSocialFundEntryDto
  <2>4. entries[command[x].entry].bucket = entries[x].bucket
    BY <2>2 DEF IsReversal
  <2>5. QED
    BY <2>1, <2>3, <2>4 DEF RowsSound
<1>2. \A x \in Posted : entries[x].type = "REVERSAL" =>
         ((\E i \in DOMAIN trail : trail[i].request = x /\ trail[i].entity = e)
             <=> command[x].entry = e)
  <2> SUFFICES ASSUME NEW x \in Posted, entries[x].type = "REVERSAL"
               PROVE  (\E i \in Rows(x) : trail[i].entity = e) <=> command[x].entry = e
    BY DEF Rows
  <2>1. QED
    BY <1>1
<1>3. QED
  BY <1>1, <1>2 DEF ReversalsOf

\* The stored entries of a bucket add up exactly to what was posted, less what was
\* taken back (SocialFundService.postEntry and reversalEntry): the part of BalanceIsNet that
\* is about what is stored.  What listBuckets makes of it in numbers is not proved.
THEOREM FundAddsUp == Spec => []EntriesAddUp
<1>1. FundInv /\ IsFiniteSet(Posted) => EntriesAddUp
  <2> SUFFICES ASSUME FundInv, IsFiniteSet(Posted), NEW b \in Bucket
      PROVE  SumFunctionOnSet([e \in Request |-> IF e \in Posted THEN entries[e].amount ELSE 0],
                              {e \in Posted : entries[e].bucket = b}) = SumFunctionOnSet(
               [e \in Request |->
                  IF e \in Posted THEN entries[e].amount * (1 - Cardinality(ReversalsOf(e))) ELSE 0],
               {e \in Posted : entries[e].bucket = b /\ entries[e].type # "REVERSAL"})
    BY DEF EntriesAddUp, Net
  <2> DEFINE a == [e \in Request |-> IF e \in Posted THEN entries[e].amount ELSE 0]
             net == [e \in Request |->
                       IF e \in Posted THEN entries[e].amount * (1 - Cardinality(ReversalsOf(e)))
                       ELSE 0]
             P == {e \in Posted : entries[e].bucket = b /\ entries[e].type # "REVERSAL"}
             R == {e \in Posted : entries[e].bucket = b /\ entries[e].type = "REVERSAL"}
             t == [e \in R |-> command[e].entry]
  <2>1. Posted \subseteq Request /\ \A e \in Posted : entries[e] \in EntryRow
    BY DEF FundInv, TypeOK, Posted
  <2>2. IsFiniteSet(P) /\ IsFiniteSet(R) /\ P \cap R = {}
        /\ P \cup R = {e \in Posted : entries[e].bucket = b}
    <3>1. P \subseteq Posted /\ R \subseteq Posted
      OBVIOUS
    <3>2. IsFiniteSet(P) /\ IsFiniteSet(R)
      BY <3>1, FS_Subset
    <3>3. QED
      BY <3>2
  <2>3. \A x \in P \cup R : a[x] = entries[x].amount /\ a[x] \in Int
    BY <2>1 DEF EntryRow
  <2>4. ASSUME NEW x \in R PROVE t[x] \in P /\ a[x] = -a[t[x]]
    <3>1. /\ command[x].entry \in Posted \ {x}
          /\ entries[command[x].entry].type \in {"CONTRIBUTION", "DISBURSEMENT"}
          /\ entries[command[x].entry].bucket = entries[x].bucket
          /\ entries[x].amount = -entries[command[x].entry].amount
      BY ExactlyReversed DEF ReversalsExact
    <3>2. t[x] = command[x].entry /\ t[x] \in P
      BY <2>1, <3>1
    <3> HIDE DEF a, P, R, t
    <3>3. QED
      BY <2>3, <3>1, <3>2
  <2>5. t \in [R -> P]
    BY <2>4
  <2>6. PICK of : of = [e \in P |-> ReversalsOf(e)]
    OBVIOUS
  <2>7. of \in [P -> SUBSET R] /\ \A e \in P, x \in R : x \in of[e] <=> t[x] = e
    <3>1. ASSUME NEW e \in P
          PROVE  of[e] = {x \in Posted : /\ entries[x].bucket = entries[e].bucket
                                         /\ entries[x].type = "REVERSAL"
                                         /\ command[x].entry = e}
      BY <2>6, ReversalsNamed
    <3>2. \A e \in P : of[e] = {x \in R : t[x] = e}
      BY <2>1, <3>1
    <3> HIDE DEF P, R, t
    <3>3. QED
      BY <2>6, <3>2
  <2>8. \A e \in P : net[e] = a[e] * (1 - Cardinality(of[e]))
    BY <2>1, <2>3, <2>6
  <2> HIDE DEF a, net, t, P, R
  <2>9. SumFunctionOnSet(a, P \cup R) = SumFunctionOnSet(net, P)
    <3>1. \A x \in R : a[x] = -a[t[x]]
      BY <2>4
    <3>2. QED
      BY <2>2, <2>3, <2>5, <2>7, <2>8, <3>1, NetOfReversals
  <2>10. QED
    BY <2>2, <2>9 DEF a, net, P
<1>2. Init => IsFiniteSet(Posted)
  <2> SUFFICES ASSUME Init PROVE IsFiniteSet(Posted)
    OBVIOUS
  <2>1. Posted = {}
    BY DEF Init, Posted
  <2>2. QED
    BY <2>1, FS_EmptySet
<1>3. FundInv => TypeOK
  BY DEF FundInv
<1>4. QED
  BY <1>1, <1>2, <1>3, PostedFinite, Invariance, PTL DEF Spec
=============================================================================
