------------------------- MODULE LoanApprovalProofs -------------------------
(***************************************************************************)
(* Theorems about LoanApproval and the rules it composes, for any number   *)
(* of requests and rule changes served at the same time: rules survive, an *)
(* application has one loan, and its terms are those of a version that was *)
(* in effect.                                                              *)
(***************************************************************************)
EXTENDS LoanApproval, FiniteSetTheorems, TLAPS

USE GroupRulesAssumption, LoanApprovalAssumption

-----------------------------------------------------------------------------
(* The rules.  A call writes its own row, once; the version it closes is    *)
(* one of its group.                                                        *)

Unwritten == {"idle", "start", "current", "closing", "opening"}

\* What the statements of a rule change rely on from the earlier ones.
ChangeSound(r) ==
    /\ changePc[r] \in ChangeStep => change[r] \in RuleCall
    /\ changePc[r] \in Unwritten => versions[r] = NoVersion
    /\ \/ changePc[r] = "closing"
       \/ changePc[r] = "opening" /\ change[r].op = "update"
       => /\ basis[r].current \in RuleChange
          /\ versions[basis[r].current] # NoVersion
          /\ versions[basis[r].current].group = change[r].group

ChangeInv == \A r \in RuleChange : ChangeSound(r)

LEMMA CallTypes ==
    ASSUME NEW c \in RuleCall
    PROVE  /\ c.op \in {"create", "update"} /\ c.group \in Group
           /\ c.op = "create" => c.enabled \in BOOLEAN /\ c.rateBps \in Int
           /\ c.op = "update" => /\ c.enabled \in BOOLEAN \cup {Keep}
                                 /\ c.rateBps \in Int \cup {Keep}
BY DEF CreateRuleVersionDto, UpdateRuleVersionDto

LEMMA OpenedType ==
    ASSUME RulesTypeOK, ChangeInv, NEW r \in RuleChange, changePc[r] = "opening"
    PROVE  LET row == IF change[r].op = "create" THEN CreatedVersion(r) ELSE UpdatedVersion(r)
           IN  row \in RuleVersionRow /\ row.group = change[r].group /\ row.to = NoDate
<1>1. change[r] \in RuleCall /\ basis[r].now \in Nat /\ basis[r] \in Basis
  BY DEF ChangeInv, ChangeSound, ChangeStep, RulesTypeOK, Basis
<1>2. CASE change[r].op = "create"
  BY <1>1, <1>2, CallTypes DEF CreatedVersion, RuleVersionRow
<1>3. CASE change[r].op = "update"
  <2>1. basis[r].current \in RuleChange /\ versions[basis[r].current] # NoVersion
    BY <1>3 DEF ChangeInv, ChangeSound
  <2>2. versions[basis[r].current] \in RuleVersionRow
    BY <2>1 DEF RulesTypeOK
  <2>3. /\ Given(change[r].enabled, versions[basis[r].current].enabled) \in BOOLEAN
        /\ Given(change[r].rateBps, versions[basis[r].current].rateBps) \in Int
    BY <1>1, <1>3, <2>2, CallTypes DEF Given, RuleVersionRow
  <2>4. QED
    BY <1>1, <1>3, <2>3, CallTypes DEF UpdatedVersion, RuleVersionRow
<1>4. QED
  BY <1>1, <1>2, <1>3, CallTypes

\* The tables and the calls of the rules keep their type.
LEMMA RulesTypeStep ==
    ASSUME RulesTypeOK, ChangeInv, RulesNext
    PROVE  RulesTypeOK'
<1> USE DEF RulesTypeOK, GoChange, ChangeStep, ChangeFinished
<1>1. CASE Tick
  BY <1>1 DEF Tick
<1>2. ASSUME NEW r \in RuleChange, ArriveChange(r) PROVE RulesTypeOK'
  BY <1>2 DEF ArriveChange
<1>3. ASSUME NEW r \in RuleChange,
             TurnChangeAway(r) \/ StartUpdate(r) \/ AuditChange(r) \/ CrashChange(r)
      PROVE  RulesTypeOK'
  BY <1>3 DEF TurnChangeAway, StartUpdate, AuditChange, CrashChange
<1>4. ASSUME NEW r \in RuleChange, StartCreate(r) PROVE RulesTypeOK'
  <2>1. [basis[r] EXCEPT !.now = clock] \in Basis
    BY DEF Basis
  <2>2. basis' \in [RuleChange -> Basis]
    BY <1>4, <2>1 DEF StartCreate
  <2>3. QED
    BY <1>4, <2>2 DEF StartCreate
<1>5. ASSUME NEW r \in RuleChange, ReadCurrentForCreate(r) PROVE RulesTypeOK'
  <2>1. ASSUME NEW v \in Newest(Open(change[r].group))
        PROVE  [basis[r] EXCEPT !.current = v] \in Basis
    BY DEF Newest, Open, VersionsOf, Basis
  <2>2. basis' \in [RuleChange -> Basis]
    BY <1>5, <2>1 DEF ReadCurrentForCreate
  <2>3. QED
    BY <1>5, <2>2 DEF ReadCurrentForCreate
<1>6. ASSUME NEW r \in RuleChange, ReadCurrentForUpdate(r) PROVE RulesTypeOK'
  <2>1. ASSUME NEW v \in Newest(Open(change[r].group))
        PROVE  [current |-> v, now |-> clock] \in Basis
    BY DEF Newest, Open, VersionsOf, Basis
  <2>2. basis' \in [RuleChange -> Basis]
    BY <1>6, <2>1 DEF ReadCurrentForUpdate
  <2>3. QED
    BY <1>6, <2>2 DEF ReadCurrentForUpdate
<1>7. ASSUME NEW r \in RuleChange, CloseVersion(r) PROVE RulesTypeOK'
  <2> DEFINE v == basis[r].current
  <2>1. v \in RuleChange /\ versions[v] \in RuleVersionRow /\ basis[r].now \in Nat
    BY <1>7 DEF CloseVersion, ChangeInv, ChangeSound, Basis
  <2>2. [versions[v] EXCEPT !.to = basis[r].now] \in RuleVersionRow
    BY <2>1 DEF RuleVersionRow
  <2>3. versions' \in [RuleChange -> RuleVersionRow \cup {NoVersion}]
    BY <1>7, <2>1, <2>2 DEF CloseVersion
  <2>4. QED
    BY <1>7, <2>3 DEF CloseVersion
<1>8. ASSUME NEW r \in RuleChange, OpenVersion(r) PROVE RulesTypeOK'
  <2>1. versions' \in [RuleChange -> RuleVersionRow \cup {NoVersion}]
    BY <1>8, OpenedType DEF OpenVersion
  <2>2. QED
    BY <1>8, <2>1 DEF OpenVersion
<1>9. QED
  BY <1>1, <1>2, <1>3, <1>4, <1>5, <1>6, <1>7, <1>8 DEF RulesNext

\* Versions stay, with their group.
LEMMA VersionsKept ==
    ASSUME RulesTypeOK, ChangeInv, RulesNext, NEW v \in RuleChange, versions[v] # NoVersion
    PROVE  versions'[v] # NoVersion /\ versions'[v].group = versions[v].group
<1>1. versions[v] \in RuleVersionRow
  BY DEF RulesTypeOK
<1>2. ASSUME NEW r \in RuleChange, CloseVersion(r)
      PROVE  versions'[v] # NoVersion /\ versions'[v].group = versions[v].group
  <2>1. versions'[v] = versions[v] \/ versions'[v] = [versions[v] EXCEPT !.to = basis[r].now]
    BY <1>1, <1>2 DEF CloseVersion, RulesTypeOK
  <2>2. basis[r].now \in Nat
    BY DEF RulesTypeOK, Basis
  <2>3. versions'[v] \in RuleVersionRow /\ versions'[v].group = versions[v].group
    BY <1>1, <2>1, <2>2 DEF RuleVersionRow
  <2>4. QED
    BY <2>3
<1>3. ASSUME NEW r \in RuleChange, OpenVersion(r)
      PROVE  versions'[v] # NoVersion /\ versions'[v].group = versions[v].group
  <2>1. v # r
    BY <1>3 DEF OpenVersion, ChangeInv, ChangeSound, Unwritten
  <2>2. versions'[v] = versions[v]
    BY <1>1, <1>3, <2>1 DEF OpenVersion, RulesTypeOK
  <2>3. QED
    BY <1>1, <2>2
<1>4. QED
  BY <1>2, <1>3 DEF RulesNext, Tick, ArriveChange, TurnChangeAway, StartCreate,
     StartUpdate, ReadCurrentForCreate, ReadCurrentForUpdate, AuditChange, CrashChange

\* Nobody but the call itself fills its row.
LEMMA RowOfItsCall ==
    ASSUME RulesTypeOK, ChangeInv, RulesNext, NEW r \in RuleChange, versions[r] = NoVersion
    PROVE  versions'[r] = NoVersion \/ OpenVersion(r)
<1>1. ASSUME NEW q \in RuleChange, CloseVersion(q) PROVE versions'[r] = NoVersion
  <2>1. basis[q].current # r
    BY <1>1 DEF CloseVersion, ChangeInv, ChangeSound
  <2>2. QED
    BY <1>1, <2>1 DEF CloseVersion, RulesTypeOK
<1>2. ASSUME NEW q \in RuleChange, q # r, OpenVersion(q) PROVE versions'[r] = versions[r]
  BY <1>2 DEF OpenVersion, RulesTypeOK
<1>3. QED
  BY <1>1, <1>2 DEF RulesNext, Tick, ArriveChange, TurnChangeAway, StartCreate,
     StartUpdate, ReadCurrentForCreate, ReadCurrentForUpdate, AuditChange, CrashChange

\* What a call relies on survives every step.
LEMMA ChangeStepInv ==
    ASSUME RulesTypeOK, ChangeInv, RulesNext
    PROVE  ChangeInv'
<1> SUFFICES ASSUME NEW r \in RuleChange PROVE ChangeSound(r)'
  BY DEF ChangeInv
<1> USE DEF ChangeSound, Unwritten, ChangeStep
<1>1. ChangeSound(r) /\ basis[r] \in Basis
  BY DEF ChangeInv, RulesTypeOK
<1>2. ASSUME changePc'[r] = changePc[r], change'[r] = change[r], basis'[r] = basis[r],
             changePc[r] = "opening" => ~OpenVersion(r)
      PROVE  ChangeSound(r)'
  BY <1>1, <1>2, VersionsKept, RowOfItsCall DEF OpenVersion
<1>3. ASSUME NEW q \in RuleChange, q # r,
             \/ ArriveChange(q) \/ TurnChangeAway(q) \/ StartCreate(q) \/ StartUpdate(q)
             \/ ReadCurrentForCreate(q) \/ ReadCurrentForUpdate(q)
             \/ CloseVersion(q) \/ OpenVersion(q) \/ AuditChange(q) \/ CrashChange(q)
      PROVE  ChangeSound(r)'
  <2>1. changePc'[r] = changePc[r] /\ change'[r] = change[r] /\ basis'[r] = basis[r]
    BY <1>3 DEF RulesTypeOK, GoChange, ArriveChange, TurnChangeAway, StartCreate, StartUpdate,
       ReadCurrentForCreate, ReadCurrentForUpdate, CloseVersion, OpenVersion, AuditChange,
       CrashChange
  <2>2. CASE OpenVersion(r)
    <3>1. changePc[r] # changePc'[r]
      BY <2>2 DEF OpenVersion, GoChange, RulesTypeOK
    <3>2. QED
      BY <2>1, <3>1
  <2>3. QED
    BY <1>2, <2>1, <2>2
<1>4. CASE Tick
  BY <1>1, <1>2, <1>4 DEF Tick, OpenVersion, GoChange, RulesTypeOK
<1>5. CASE ArriveChange(r) \/ TurnChangeAway(r) \/ StartCreate(r) \/ StartUpdate(r)
            \/ AuditChange(r) \/ CrashChange(r)
  BY <1>1, <1>5 DEF ArriveChange, TurnChangeAway, StartCreate, StartUpdate, AuditChange,
     CrashChange, GoChange, RulesTypeOK
<1>6. CASE ReadCurrentForCreate(r) \/ ReadCurrentForUpdate(r)
  <2>1. change' = change /\ versions' = versions /\ change[r] \in RuleCall
        /\ versions[r] = NoVersion
    BY <1>1, <1>6 DEF ReadCurrentForCreate, ReadCurrentForUpdate
  <2>2. \/ changePc'[r] = "closing"
           /\ \E v \in Newest(Open(change[r].group)) : basis'[r].current = v
        \/ changePc'[r] = "opening" /\ change[r].op = "create"
        \/ changePc'[r] = "refused"
    BY <1>1, <1>6 DEF ReadCurrentForCreate, ReadCurrentForUpdate, GoChange, RulesTypeOK, Basis
  <2>3. \A v \in Newest(Open(change[r].group)) :
           v \in RuleChange /\ versions[v] # NoVersion /\ versions[v].group = change[r].group
    BY DEF Newest, Open, VersionsOf
  <2>4. QED
    BY <2>1, <2>2, <2>3, CallTypes
<1>7. CASE CloseVersion(r)
  BY <1>1, <1>7, VersionsKept, RowOfItsCall DEF CloseVersion, GoChange, RulesTypeOK, OpenVersion
<1>8. CASE OpenVersion(r)
  BY <1>1, <1>8 DEF OpenVersion, GoChange, RulesTypeOK
<1>9. QED
  BY <1>3, <1>4, <1>5, <1>6, <1>7, <1>8 DEF RulesNext

\* The call that has closed the open version of g and not opened the next.
Succeeding(g) ==
    {r \in RuleChange : /\ change[r] # NoCall /\ change[r].group = g
                        /\ basis[r].current # NoVersion
                        /\ changePc[r] \in {"opening", "crashed"}}

\* Closing a version leaves its caller on the way to the next one; opening one
\* gives the group an open version.
LEMMA SurviveStep ==
    ASSUME RulesTypeOK, ChangeInv, RulesNext, RulesSurviveChange
    PROVE  RulesSurviveChange'
<1> SUFFICES ASSUME NEW g \in Group, VersionsOf(g)' # {}
             PROVE  Open(g)' # {} \/ Succeeding(g)' # {}
  BY DEF RulesSurviveChange, Succeeding
<1>1. VersionsOf(g) # {} => Open(g) # {} \/ Succeeding(g) # {}
  BY DEF RulesSurviveChange, Succeeding
<1>2. ASSUME NEW r \in RuleChange, OpenVersion(r)
      PROVE  Open(g)' # {} \/ Succeeding(g)' # {}
  <2>1. /\ versions'[r] # NoVersion /\ versions'[r].group = change[r].group
        /\ versions'[r].to = NoDate
    BY <1>2, OpenedType DEF OpenVersion, RulesTypeOK
  <2>2. CASE change[r].group = g
    BY <2>1, <2>2 DEF Open, VersionsOf
  <2>3. CASE change[r].group # g
    <3>1. \A v \in RuleChange : v # r => versions'[v] = versions[v]
      BY <1>2 DEF OpenVersion, RulesTypeOK
    <3>2. versions[r] = NoVersion
      BY <1>2 DEF OpenVersion, ChangeInv, ChangeSound, Unwritten
    <3>3. VersionsOf(g)' = VersionsOf(g) /\ Open(g)' = Open(g)
      BY <2>1, <2>3, <3>1, <3>2 DEF Open, VersionsOf
    <3>4. \A q \in Succeeding(g) : q # r
      BY <2>3 DEF Succeeding
    <3>5. Succeeding(g) \subseteq Succeeding(g)'
      BY <1>2, <3>4 DEF Succeeding, OpenVersion, GoChange, RulesTypeOK
    <3>6. QED
      BY <1>1, <3>3, <3>5
  <2>4. QED
    BY <2>2, <2>3
<1>3. ASSUME NEW r \in RuleChange, CloseVersion(r)
      PROVE  Open(g)' # {} \/ Succeeding(g)' # {}
  <2>1. change[r] \in RuleCall /\ basis[r].current \in VersionsOf(change[r].group)
        /\ basis[r].current # NoVersion
    BY <1>3 DEF CloseVersion, ChangeInv, ChangeSound, ChangeStep, VersionsOf
  <2>2. CASE change[r].group = g
    BY <1>3, <2>1, <2>2 DEF CloseVersion, GoChange, Succeeding, RulesTypeOK
  <2>3. CASE change[r].group # g
    <3>1. \A v \in RuleChange : v # basis[r].current => versions'[v] = versions[v]
      BY <1>3 DEF CloseVersion, RulesTypeOK
    <3>2. basis[r].current \notin VersionsOf(g)
      BY <2>1, <2>3 DEF VersionsOf
    <3>3. versions'[basis[r].current] = [versions[basis[r].current] EXCEPT !.to = basis[r].now]
      BY <1>3, <2>1 DEF CloseVersion, RulesTypeOK, VersionsOf
    <3>4. versions'[basis[r].current].group # g
      BY <2>1, <2>3, <3>3 DEF VersionsOf, RulesTypeOK, RuleVersionRow
    <3>5. VersionsOf(g)' = VersionsOf(g) /\ Open(g)' = Open(g)
      BY <3>1, <3>2, <3>4 DEF Open, VersionsOf
    <3>6. Succeeding(g) \subseteq Succeeding(g)'
      BY <1>3 DEF Succeeding, CloseVersion, GoChange, RulesTypeOK
    <3>7. QED
      BY <1>1, <3>5, <3>6
  <2>4. QED
    BY <2>2, <2>3
<1>4. ASSUME UNCHANGED versions, Succeeding(g) \subseteq Succeeding(g)'
      PROVE  Open(g)' # {} \/ Succeeding(g)' # {}
  <2>1. VersionsOf(g)' = VersionsOf(g) /\ Open(g)' = Open(g)
    BY <1>4 DEF Open, VersionsOf
  <2>2. QED
    BY <1>1, <1>4, <2>1
<1>5. ASSUME NEW r \in RuleChange,
             \/ ArriveChange(r) \/ TurnChangeAway(r) \/ StartCreate(r) \/ StartUpdate(r)
             \/ ReadCurrentForCreate(r) \/ ReadCurrentForUpdate(r)
             \/ AuditChange(r) \/ CrashChange(r)
      PROVE  UNCHANGED versions /\ Succeeding(g) \subseteq Succeeding(g)'
  BY <1>5 DEF Succeeding, GoChange, RulesTypeOK, ArriveChange, TurnChangeAway, StartCreate,
     StartUpdate, ReadCurrentForCreate, ReadCurrentForUpdate, AuditChange, CrashChange
<1>6. CASE Tick
  BY <1>4, <1>6 DEF Tick, Succeeding
<1>7. QED
  BY <1>2, <1>3, <1>4, <1>5, <1>6 DEF RulesNext

-----------------------------------------------------------------------------
(* Applications and loans.                                                 *)

Ungranted == {"idle", "start", "creatingApplication", "application", "rules", "creatingLoan"}

\* What the statements of a request rely on from the earlier ones.
RequestSound(r) ==
    /\ pc[r] \in Step => command[r] \in Command
    /\ pc[r] = "creatingApplication" => command[r].op = "submit"
    /\ pc[r] = "application" => command[r].op # "submit"
    /\ pc[r] \in {"rules", "creatingLoan", "approving"} => command[r].op = "approve"
    /\ pc[r] = "rejecting" => command[r].op = "reject"
    /\ pc[r] \in {"idle", "start", "creatingApplication"} => applications[r] = NoApplication
    /\ pc[r] \in Step /\ command[r].op # "submit" =>
          applications[command[r].application] # NoApplication
    /\ pc[r] \in {"rules", "creatingLoan", "approving", "rejecting"} =>
          applications[command[r].application].group = command[r].group
    /\ pc[r] \in Ungranted => loans[r] = NoLoan
    /\ pc[r] = "creatingLoan" => snapshot[r] \in Snapshot
    /\ pc[r] = "approving" =>
          loans[r] # NoLoan /\ loans[r].application = command[r].application

RequestInv == \A r \in Request : RequestSound(r)

LEMMA CommandTypes ==
    ASSUME NEW c \in Command
    PROVE  /\ c.op \in {"submit", "approve", "reject"} /\ c.group \in Group
           /\ c.op = "submit" => c.amount \in Int /\ c.terms \in Int
           /\ c.op # "submit" => c.application \in Request
BY DEF Command, Submit, Decide

\* What was asked for is what the application says.
LEMMA ApplicationType ==
    ASSUME TypeOK, RequestInv, NEW r \in Request, pc[r] = "creatingApplication"
    PROVE  [group |-> command[r].group, amount |-> command[r].amount,
            terms |-> command[r].terms, status |-> "SUBMITTED"] \in ApplicationRow
BY CommandTypes DEF RequestInv, RequestSound, Step, ApplicationRow

LEMMA TakenType ==
    ASSUME TypeOK, NEW g \in Group, NEW date, NEW v \in GetSnapshotForLoan(g, date),
           v # NoVersion
    PROVE  Taken(v) \in Snapshot
<1>1. v \in RuleChange /\ versions[v] \in RuleVersionRow
  BY DEF GetSnapshotForLoan, Newest, EffectiveAt, VersionsOf, TypeOK, RulesTypeOK
<1>2. QED
  BY <1>1 DEF Taken, Snapshot, RuleVersionRow

LEMMA NewLoanType ==
    ASSUME TypeOK, RequestInv, NEW r \in Request, pc[r] = "creatingLoan"
    PROVE  /\ command[r] \in Command /\ command[r].application \in Request
           /\ applications[command[r].application] \in ApplicationRow
           /\ NewLoan(r) \in LoanRow
<1>1. command[r] \in Command /\ command[r].op = "approve" /\ snapshot[r] \in Snapshot
  BY DEF RequestInv, RequestSound, Step
<1>2. command[r].application \in Request /\ command[r].group \in Group
  BY <1>1, CommandTypes
<1>3. applications[command[r].application] \in ApplicationRow
  BY <1>1, <1>2 DEF RequestInv, RequestSound, Step, TypeOK
<1>4. clock \in Nat
  BY DEF TypeOK, RulesTypeOK
<1>5. QED
  BY <1>1, <1>2, <1>3, <1>4 DEF NewLoan, LoanRow, Snapshot, ApplicationRow

\* A decision changes the status of its application and nothing else.
LEMMA StatusSet ==
    ASSUME TypeOK, RequestInv, NEW r \in Request, NEW status \in {"APPROVED", "REJECTED"},
           pc[r] \in {"approving", "rejecting"}, SetStatus(r, status),
           NEW a, a = command[r].application
    PROVE  /\ a \in Request /\ applications[a] \in ApplicationRow
           /\ applications'[a] \in ApplicationRow
           /\ applications'[a].status = status
           /\ applications'[a].group = applications[a].group
           /\ applications'[a].amount = applications[a].amount
           /\ applications'[a].terms = applications[a].terms
           /\ \A b \in Request : b # a => applications'[b] = applications[b]
           /\ applications' \in [Request -> ApplicationRow \cup {NoApplication}]
<1>1. command[r] \in Command /\ command[r].op # "submit"
  BY DEF RequestInv, RequestSound, Step
<1>2. a \in Request /\ applications[a] \in ApplicationRow
  BY <1>1, CommandTypes DEF RequestInv, RequestSound, Step, TypeOK
<1>3. applications' = [applications EXCEPT ![a] = [applications[a] EXCEPT !.status = status]]
  BY DEF SetStatus
<1>4. [applications[a] EXCEPT !.status = status] \in ApplicationRow
  BY <1>2 DEF ApplicationRow
<1>5. /\ applications'[a] = [applications[a] EXCEPT !.status = status]
      /\ \A b \in Request : b # a => applications'[b] = applications[b]
      /\ applications' \in [Request -> ApplicationRow \cup {NoApplication}]
  BY <1>2, <1>3, <1>4 DEF TypeOK
<1>6. /\ applications'[a].status = status
      /\ applications'[a].group = applications[a].group
      /\ applications'[a].amount = applications[a].amount
      /\ applications'[a].terms = applications[a].terms
  BY <1>2, <1>5 DEF ApplicationRow
<1>7. QED
  BY <1>2, <1>4, <1>5, <1>6

\* Every variable keeps its type.
LEMMA TypeStep ==
    ASSUME TypeOK, RequestInv, LoanNext
    PROVE  TypeOK'
<1>1. RulesTypeOK'
  BY DEF LoanNext, TypeOK, RulesTypeOK, ruleVars, Arrive, TurnedAway, Begin, CreateApplication,
     ReadForApproval, ReadForRejection, ReadRules, CreateLoan, Approve, Reject, SetStatus,
     AuditSubmission, AuditApproval, AuditRejection, Audit, Crash
<1> USE DEF Goto, Step, Finished
<1>2. ASSUME NEW r \in Request, Arrive(r) PROVE TypeOK'
  <2>1. \A c \in Application \cup {d \in Decide : d.application \in Submitted} : c \in Command
    BY DEF Command
  <2>2. QED
    BY <1>1, <1>2, <2>1 DEF Arrive, TypeOK, Granted
<1>3. ASSUME NEW r \in Request, TurnedAway(r) \/ Begin(r) \/ Crash(r) \/ ReadForRejection(r)
      PROVE  TypeOK'
  BY <1>1, <1>3 DEF TurnedAway, Begin, Crash, ReadForRejection, TypeOK, Granted
<1>4. ASSUME NEW r \in Request, CreateApplication(r) PROVE TypeOK'
  BY <1>1, <1>4, ApplicationType DEF CreateApplication, TypeOK, Granted
<1>5. ASSUME NEW r \in Request, ReadForApproval(r) PROVE TypeOK'
  BY <1>1, <1>5 DEF ReadForApproval, TypeOK, RulesTypeOK, Granted
<1>6. ASSUME NEW r \in Request, ReadRules(r) PROVE TypeOK'
  <2>1. command[r].group \in Group
    BY <1>6, CommandTypes DEF ReadRules, RequestInv, RequestSound
  <2>2. snapshot' \in [Request -> Snapshot \cup {NoSnapshot}]
    BY <1>6, <2>1, TakenType DEF ReadRules, TypeOK
  <2>3. pc' \in [Request -> {"idle"} \cup Step \cup Finished]
    BY <1>6 DEF ReadRules, TypeOK
  <2>4. QED
    BY <1>1, <1>6, <2>2, <2>3 DEF ReadRules, TypeOK, Granted
<1>7. ASSUME NEW r \in Request, CreateLoan(r) PROVE TypeOK'
  <2>1. NewLoan(r) \in LoanRow
    BY <1>7, NewLoanType DEF CreateLoan
  <2>2. Goto(r, "approving") \/ Goto(r, "refused")
    BY <1>7 DEF CreateLoan
  <2>3. pc' \in [Request -> {"idle"} \cup Step \cup Finished]
    BY <2>2 DEF TypeOK
  <2>4. CASE UNCHANGED <<loans, schedules>>
    BY <1>1, <1>7, <2>3, <2>4 DEF CreateLoan, TypeOK, Granted
  <2>5. CASE /\ loans' = [loans EXCEPT ![r] = NewLoan(r)]
             /\ schedules' = [schedules EXCEPT ![r] =
                   GenerateSchedule(NewLoan(r).principal, NewLoan(r).terms, NewLoan(r).rateBps)]
    <3>1. DOMAIN GenerateSchedule(NewLoan(r).principal, NewLoan(r).terms, NewLoan(r).rateBps)
          = 1..NewLoan(r).terms
      BY DEF GenerateSchedule
    <3>2. loans' \in [Request -> LoanRow \cup {NoLoan}] /\ DOMAIN schedules' = Request
      BY <2>1, <2>5 DEF TypeOK
    <3>3. \A l \in Granted' : DOMAIN schedules'[l] = 1..loans'[l].terms
      BY <2>5, <3>1 DEF TypeOK, Granted
    <3>4. QED
      BY <1>1, <1>7, <2>3, <3>2, <3>3 DEF CreateLoan, TypeOK
  <2>6. QED
    BY <1>7, <2>4, <2>5 DEF CreateLoan
<1>8. ASSUME NEW r \in Request, Approve(r) \/ Reject(r) PROVE TypeOK'
  <2>1. applications' \in [Request -> ApplicationRow \cup {NoApplication}]
    BY <1>8, StatusSet DEF Approve, Reject
  <2>2. QED
    BY <1>1, <1>8, <2>1 DEF Approve, Reject, SetStatus, TypeOK, Granted
<1>9. ASSUME NEW r \in Request, AuditSubmission(r) \/ AuditApproval(r) \/ AuditRejection(r)
      PROVE  TypeOK'
  BY <1>1, <1>9 DEF AuditSubmission, AuditApproval, AuditRejection, Audit, TypeOK, Granted
<1>10. QED
  BY <1>2, <1>3, <1>4, <1>5, <1>6, <1>7, <1>8, <1>9 DEF LoanNext

\* Applications stay, with what was asked for.
LEMMA ApplicationsKept ==
    ASSUME TypeOK, RequestInv, LoanNext, NEW a \in Request, applications[a] # NoApplication
    PROVE  /\ applications'[a] # NoApplication
           /\ applications'[a].group = applications[a].group
           /\ applications'[a].amount = applications[a].amount
           /\ applications'[a].terms = applications[a].terms
<1>1. ASSUME NEW r \in Request, CreateApplication(r) PROVE applications'[a] = applications[a]
  <2>1. r # a
    BY <1>1 DEF CreateApplication, RequestInv, RequestSound
  <2>2. QED
    BY <1>1, <2>1 DEF CreateApplication, TypeOK
<1>2. ASSUME NEW r \in Request, Approve(r) \/ Reject(r)
      PROVE  /\ applications'[a] # NoApplication
             /\ applications'[a].group = applications[a].group
             /\ applications'[a].amount = applications[a].amount
             /\ applications'[a].terms = applications[a].terms
  <2>1. PICK status \in {"APPROVED", "REJECTED"} :
           pc[r] \in {"approving", "rejecting"} /\ SetStatus(r, status)
    BY <1>2 DEF Approve, Reject
  <2>2. CASE a = command[r].application
    BY <2>1, <2>2, StatusSet
  <2>3. CASE a # command[r].application
    BY <2>1, <2>3, StatusSet
  <2>4. QED
    BY <2>2, <2>3
<1>3. QED
  BY <1>1, <1>2 DEF LoanNext, Arrive, TurnedAway, Begin, ReadForApproval, ReadForRejection,
     ReadRules, CreateLoan, AuditSubmission, AuditApproval, AuditRejection, Audit, Crash

\* Only its own request fills the row of an application.
LEMMA ApplicationOfItsRequest ==
    ASSUME TypeOK, RequestInv, LoanNext, NEW a \in Request, applications[a] = NoApplication
    PROVE  applications'[a] = NoApplication \/ CreateApplication(a)
<1>1. ASSUME NEW r \in Request, r # a, CreateApplication(r)
      PROVE  applications'[a] = applications[a]
  BY <1>1 DEF CreateApplication, TypeOK
<1>2. ASSUME NEW r \in Request, Approve(r) \/ Reject(r)
      PROVE  applications'[a] = applications[a]
  <2>1. PICK status \in {"APPROVED", "REJECTED"} :
           pc[r] \in {"approving", "rejecting"} /\ SetStatus(r, status)
    BY <1>2 DEF Approve, Reject
  <2>2. a # command[r].application
    BY <2>1, StatusSet, LoanApprovalAssumption
  <2>3. QED
    BY <2>1, <2>2, StatusSet
<1>3. QED
  BY <1>1, <1>2 DEF LoanNext, Arrive, TurnedAway, Begin, ReadForApproval, ReadForRejection,
     ReadRules, CreateLoan, AuditSubmission, AuditApproval, AuditRejection, Audit, Crash

\* Loans stay as they were made, and only its own request makes one.
LEMMA LoansKept ==
    ASSUME TypeOK, RequestInv, LoanNext, NEW l \in Request
    PROVE  /\ loans[l] # NoLoan => loans'[l] = loans[l]
           /\ loans[l] = NoLoan => loans'[l] = NoLoan \/ CreateLoan(l)
<1>1. ASSUME NEW r \in Request, r # l, CreateLoan(r) PROVE loans'[l] = loans[l]
  BY <1>1 DEF CreateLoan, TypeOK
<1>2. CreateLoan(l) => loans[l] = NoLoan
  BY DEF CreateLoan, RequestInv, RequestSound, Ungranted
<1>3. QED
  BY <1>1, <1>2 DEF LoanNext, Arrive, TurnedAway, Begin, CreateApplication, ReadForApproval,
     ReadForRejection, ReadRules, Approve, Reject, SetStatus, AuditSubmission, AuditApproval,
     AuditRejection, Audit, Crash

\* What a request relies on survives every step.
LEMMA RequestStepInv ==
    ASSUME TypeOK, RequestInv, LoanNext
    PROVE  RequestInv'
<1> SUFFICES ASSUME NEW r \in Request PROVE RequestSound(r)'
  BY DEF RequestInv
<1> USE DEF RequestSound, Ungranted, Step
<1>1. RequestSound(r) /\ (command[r] \in Command /\ command[r].op # "submit"
                            => command[r].application \in Request)
  BY CommandTypes DEF RequestInv
<1>2. ASSUME pc'[r] = pc[r], command'[r] = command[r], snapshot'[r] = snapshot[r],
             ~CreateApplication(r), ~CreateLoan(r)
      PROVE  RequestSound(r)'
  BY <1>1, <1>2, ApplicationsKept, ApplicationOfItsRequest, LoansKept
<1>3. ASSUME NEW q \in Request, q # r,
             \/ Arrive(q) \/ TurnedAway(q) \/ Begin(q) \/ CreateApplication(q)
             \/ ReadForApproval(q) \/ ReadForRejection(q) \/ ReadRules(q) \/ CreateLoan(q)
             \/ Approve(q) \/ Reject(q)
             \/ AuditSubmission(q) \/ AuditApproval(q) \/ AuditRejection(q) \/ Crash(q)
      PROVE  RequestSound(r)'
  <2>1. pc'[r] = pc[r] /\ command'[r] = command[r] /\ snapshot'[r] = snapshot[r]
    BY <1>3 DEF TypeOK, Goto, Arrive, TurnedAway, Begin, CreateApplication, ReadForApproval,
       ReadForRejection, ReadRules, CreateLoan, Approve, Reject, SetStatus, AuditSubmission,
       AuditApproval, AuditRejection, Audit, Crash
  <2>2. CreateApplication(r) \/ CreateLoan(r) => pc'[r] # pc[r]
    BY DEF CreateApplication, CreateLoan, Goto, TypeOK
  <2>3. QED
    BY <1>2, <2>1, <2>2
<1>4. CASE Arrive(r)
  <2>1. /\ pc[r] = "idle" /\ pc'[r] = "start" /\ UNCHANGED <<applications, loans>>
        /\ command'[r] \in Application \cup {d \in Decide : d.application \in Submitted}
    BY <1>4 DEF Arrive, Goto, TypeOK
  <2>2. command'[r] \in Command
    BY <2>1 DEF Command
  <2>3. command'[r].op # "submit" => command'[r].application \in Submitted
    BY <2>1 DEF Submit
  <2>4. QED
    BY <1>1, <2>1, <2>2, <2>3 DEF Submitted
<1>5. CASE TurnedAway(r) \/ Crash(r) \/ AuditSubmission(r) \/ AuditApproval(r) \/ AuditRejection(r)
  <2>1. pc'[r] \in {"refused", "crashed", "done"}
    BY <1>5 DEF TurnedAway, Crash, AuditSubmission, AuditApproval, AuditRejection, Audit, Goto,
       TypeOK
  <2>2. QED
    BY <2>1
<1>6. CASE Begin(r)
  BY <1>1, <1>6 DEF Begin, Goto, TypeOK
<1>7. CASE CreateApplication(r)
  BY <1>1, <1>7, ApplicationsKept, LoansKept DEF CreateApplication, CreateLoan, Goto, TypeOK
<1>8. CASE ReadForApproval(r) \/ ReadForRejection(r)
  <2>1. UNCHANGED <<applications, loans, command>>
    BY <1>8 DEF ReadForApproval, ReadForRejection
  <2>2. \/ pc'[r] = "rules" /\ command[r].op = "approve" /\ Decidable(r)
        \/ pc'[r] = "rejecting" /\ command[r].op = "reject" /\ Decidable(r)
        \/ pc'[r] = "refused"
    BY <1>8 DEF ReadForApproval, ReadForRejection, Goto, TypeOK
  <2>3. pc[r] = "application"
    BY <1>8 DEF ReadForApproval, ReadForRejection
  <2>4. QED
    BY <1>1, <2>1, <2>2, <2>3 DEF Decidable
<1>9. CASE ReadRules(r)
  <2>1. UNCHANGED <<applications, loans, command>> /\ pc[r] = "rules"
    BY <1>9 DEF ReadRules
  <2>2. command[r].group \in Group
    BY <1>1, <2>1, CommandTypes
  <2>3. pc'[r] = "refused" \/ (pc'[r] = "creatingLoan" /\ snapshot'[r] \in Snapshot)
    BY <1>9, <2>2, TakenType DEF ReadRules, Goto, TypeOK
  <2>4. QED
    BY <1>1, <2>1, <2>3
<1>10. CASE CreateLoan(r)
  <2>1. UNCHANGED <<applications, command>> /\ pc[r] = "creatingLoan"
    BY <1>10 DEF CreateLoan
  <2>2. NewLoan(r) \in LoanRow /\ NewLoan(r).application = command[r].application
    BY <2>1, NewLoanType DEF NewLoan
  <2>3. pc'[r] = "refused" \/ (pc'[r] = "approving" /\ loans'[r] = NewLoan(r))
    BY <1>10 DEF CreateLoan, Goto, TypeOK
  <2>4. QED
    BY <1>1, <2>1, <2>2, <2>3
<1>11. CASE Approve(r) \/ Reject(r)
  <2>1. /\ pc[r] \in {"approving", "rejecting"} /\ pc'[r] = "audit"
        /\ UNCHANGED <<loans, command>>
    BY <1>11 DEF Approve, Reject, SetStatus, Goto, TypeOK
  <2>2. QED
    BY <1>1, <2>1, ApplicationsKept
<1>12. QED
  BY <1>3, <1>4, <1>5, <1>6, <1>7, <1>8, <1>9, <1>10, <1>11 DEF LoanNext

-----------------------------------------------------------------------------
(* One loan per application, and statuses that follow loans.               *)

\* A new loan is the first of its application; an old one stays the only one.
LEMMA OneLoanStep ==
    ASSUME TypeOK, RequestInv, LoanNext, OneLoanPerApplication
    PROVE  OneLoanPerApplication'
<1>1. ASSUME NEW l \in Granted', l \notin Granted
      PROVE  /\ loans'[l] = NewLoan(l) /\ LoansOf(loans'[l].application) = {}
             /\ CreateLoan(l) /\ loans'[l].application \in Request
             /\ applications[loans'[l].application] # NoApplication
             /\ applications[loans'[l].application].group = loans'[l].group
             /\ applications[loans'[l].application].amount = loans'[l].principal
             /\ applications[loans'[l].application].terms = loans'[l].terms
  <2>1. l \in Request /\ loans[l] = NoLoan /\ loans'[l] # NoLoan
    BY <1>1 DEF Granted
  <2>2. CreateLoan(l)
    BY <2>1, LoansKept
  <2>3. loans'[l] = NewLoan(l) /\ FreeOfLoan(command[l].application)
    BY <2>1, <2>2 DEF CreateLoan, TypeOK
  <2>4. command[l].application \in Request
        /\ applications[command[l].application] \in ApplicationRow
    BY <2>1, <2>2, NewLoanType DEF CreateLoan
  <2>5. applications[command[l].application].group = command[l].group
    BY <2>1, <2>2 DEF CreateLoan, RequestInv, RequestSound
  <2>6. QED
    BY <2>2, <2>3, <2>4, <2>5 DEF NewLoan, FreeOfLoan
<1>2. ASSUME NEW l \in Granted
      PROVE  loans'[l] = loans[l] /\ l \in Granted' /\ loans[l].application \in Request
  BY <1>2, LoansKept DEF Granted, TypeOK, LoanRow
<1>3. ASSUME NEW l \in Granted', NEW m \in Granted', m # l
      PROVE  loans'[m].application # loans'[l].application
  <2>1. CASE l \in Granted /\ m \in Granted
    BY <1>2, <1>3, <2>1 DEF OneLoanPerApplication, LoansOf
  <2>2. CASE l \in Granted /\ m \notin Granted
    BY <1>1, <1>2, <2>2 DEF LoansOf
  <2>3. CASE l \notin Granted /\ m \in Granted
    BY <1>1, <1>2, <2>3 DEF LoansOf
  <2>4. CASE l \notin Granted /\ m \notin Granted
    <3>1. CreateLoan(l) /\ CreateLoan(m) /\ l \in Request /\ m \in Request
          /\ loans'[m] # NoLoan /\ loans[m] = NoLoan
      BY <1>1, <2>4 DEF Granted
    <3>2. loans'[m] = loans[m]
      BY <1>3, <3>1 DEF CreateLoan, TypeOK
    <3>3. QED
      BY <3>1, <3>2
  <2>5. QED
    BY <2>1, <2>2, <2>3, <2>4
<1>4. ASSUME NEW l \in Granted'
      PROVE  LET a == loans'[l].application
             IN  /\ applications'[a] # NoApplication
                 /\ applications'[a].group = loans'[l].group
                 /\ applications'[a].amount = loans'[l].principal
                 /\ applications'[a].terms = loans'[l].terms
  <2>1. CASE l \in Granted
    BY <1>2, <2>1, ApplicationsKept DEF OneLoanPerApplication
  <2>2. CASE l \notin Granted
    BY <1>1, <2>2, ApplicationsKept
  <2>3. QED
    BY <2>1, <2>2
<1>5. ASSUME NEW l \in Granted'
      PROVE  LoansOf(loans[l].application)' = {l}
  BY <1>3 DEF LoansOf
<1>6. QED
  BY <1>4, <1>5 DEF OneLoanPerApplication

\* A request that has decided an application, with its audit row or without.
Decider(r, a, op) ==
    /\ command[r] # NoCommand /\ command[r].op = op /\ command[r].application = a
    /\ pc[r] \in {"audit", "crashed"} \/ (pc[r] = "done" /\ r \in trail)

\* StatusFollowsLoan, application by application and loan by loan.
StatusSound(a) ==
    /\ applications[a].status = "APPROVED" =>
          /\ \E l \in Granted : loans[l].application = a
          /\ \E r \in Request : Decider(r, a, "approve")
    /\ applications[a].status = "REJECTED" => \E r \in Request : Decider(r, a, "reject")

LoanSound(l) ==
    \/ applications[loans[l].application].status = "APPROVED"
    \/ pc[l] \in {"approving", "crashed"}
    \/ \E r \in Request : Decider(r, loans[l].application, "reject")

StatusInv ==
    /\ \A a \in Submitted : StatusSound(a)
    /\ \A l \in Granted : LoanSound(l)

\* Whoever has decided stays the decider.
LEMMA DecidersStay ==
    ASSUME TypeOK, LoanNext, NEW r \in Request, NEW a \in Request,
           NEW op \in {"approve", "reject"}, Decider(r, a, op)
    PROVE  Decider(r, a, op)'
<1> USE DEF Decider, Goto, TypeOK, Step
<1>1. ASSUME NEW q \in Request, q # r,
             \/ Arrive(q) \/ TurnedAway(q) \/ Begin(q) \/ CreateApplication(q)
             \/ ReadForApproval(q) \/ ReadForRejection(q) \/ ReadRules(q) \/ CreateLoan(q)
             \/ Approve(q) \/ Reject(q)
             \/ AuditSubmission(q) \/ AuditApproval(q) \/ AuditRejection(q) \/ Crash(q)
      PROVE  /\ pc'[r] = pc[r] /\ command'[r] = command[r]
             /\ r \in trail => r \in trail'
  BY <1>1 DEF Arrive, TurnedAway, Begin, CreateApplication,
     ReadForApproval, ReadForRejection, ReadRules, CreateLoan, Approve, Reject, SetStatus,
     AuditSubmission, AuditApproval, AuditRejection, Audit, Crash
<1>2. CASE AuditSubmission(r) \/ AuditApproval(r) \/ AuditRejection(r) \/ Crash(r)
  BY <1>2 DEF AuditSubmission, AuditApproval, AuditRejection, Audit, Crash
<1>3. ~( \/ Arrive(r) \/ TurnedAway(r) \/ Begin(r) \/ CreateApplication(r)
         \/ ReadForApproval(r) \/ ReadForRejection(r) \/ ReadRules(r) \/ CreateLoan(r)
         \/ Approve(r) \/ Reject(r) )
  BY DEF Arrive, TurnedAway, Begin, CreateApplication, ReadForApproval, ReadForRejection,
     ReadRules, CreateLoan, Approve, Reject
<1>4. QED
  BY <1>1, <1>2, <1>3 DEF LoanNext

\* A decision makes its request the decider of the status it wrote.
LEMMA DecisionMade ==
    ASSUME TypeOK, RequestInv, NEW r \in Request, Approve(r) \/ Reject(r)
    PROVE  \E a \in Request, op \in {"approve", "reject"} :
              /\ Decider(r, a, op)'
              /\ applications'[a].status = IF op = "approve" THEN "APPROVED" ELSE "REJECTED"
              /\ \A b \in Request : b # a => applications'[b] = applications[b]
              /\ op = "approve" => loans[r] # NoLoan /\ loans[r].application = a
              /\ pc[r] = "approving" <=> op = "approve"
              /\ UNCHANGED loans
<1>1. PICK op \in {"approve", "reject"} :
         /\ pc[r] \in {"approving", "rejecting"} /\ (pc[r] = "approving" <=> op = "approve")
         /\ SetStatus(r, IF op = "approve" THEN "APPROVED" ELSE "REJECTED")
  BY DEF Approve, Reject
<1>2. /\ command[r] \in Command /\ command[r].op = op
      /\ op = "approve" => loans[r] # NoLoan /\ loans[r].application = command[r].application
  BY <1>1 DEF RequestInv, RequestSound, Step
<1>3. PICK a \in Request : a = command[r].application
  BY <1>1, StatusSet
<1>4. pc'[r] = "audit" /\ command' = command /\ UNCHANGED loans
  BY <1>1 DEF SetStatus, Goto, TypeOK
<1>5. /\ applications'[a].status = IF op = "approve" THEN "APPROVED" ELSE "REJECTED"
      /\ \A b \in Request : b # a => applications'[b] = applications[b]
  BY <1>1, <1>3, StatusSet
<1>6. Decider(r, a, op)'
  BY <1>2, <1>3, <1>4, LoanApprovalAssumption DEF Decider
<1>7. op = "approve" => loans[r] # NoLoan /\ loans[r].application = a
  BY <1>2, <1>3
<1>8. QED
  BY <1>1, <1>4, <1>5, <1>6, <1>7

LEMMA StatusStep ==
    ASSUME TypeOK, RequestInv, LoanNext, OneLoanPerApplication, StatusInv
    PROVE  StatusInv'
<1>1. ASSUME NEW l \in Granted
      PROVE  loans'[l] = loans[l] /\ l \in Granted' /\ loans[l].application \in Request
             /\ l \in Request
  BY <1>1, LoansKept DEF Granted, TypeOK, LoanRow
<1>2. ASSUME NEW a \in Submitted, applications'[a].status = applications[a].status
      PROVE  StatusSound(a)'
  <2>1. a \in Request /\ StatusSound(a)
    BY <1>2 DEF StatusInv, Submitted
  <2>2. applications'[a].status = "APPROVED" => \E l \in Granted' : loans'[l].application = a
    BY <1>1, <1>2, <2>1 DEF StatusSound
  <2>3. QED
    BY <1>2, <2>1, <2>2, DecidersStay DEF StatusSound
<1>3. ASSUME NEW l \in Granted,
             \/ applications'[loans[l].application].status
                    = applications[loans[l].application].status
             \/ applications'[loans[l].application].status = "APPROVED",
             pc'[l] = pc[l] \/ pc'[l] = "crashed" \/ pc[l] \notin {"approving", "crashed"}
      PROVE  LoanSound(l)'
  <2>1. LoanSound(l)
    BY <1>3 DEF StatusInv
  <2>2. QED
    BY <1>1, <1>3, <2>1, DecidersStay DEF LoanSound
<1>4. ASSUME NEW r \in Request, CreateApplication(r) PROVE StatusInv'
  <2>1. /\ applications[r] = NoApplication /\ applications'[r].status = "SUBMITTED"
        /\ \A a \in Request : a # r => applications'[a] = applications[a]
    BY <1>4, ApplicationType DEF CreateApplication, RequestInv, RequestSound, TypeOK
  <2>2. ASSUME NEW a \in Submitted' PROVE StatusSound(a)'
    BY <1>2, <2>1 DEF Submitted, StatusSound
  <2>3. ASSUME NEW l \in Granted' PROVE LoanSound(l)'
    <3>1. loans' = loans /\ Granted' = Granted
      BY <1>4 DEF CreateApplication, Granted
    <3>2. loans[l].application # r
      BY <2>1, <3>1 DEF OneLoanPerApplication
    <3>3. pc[l] \in {"approving", "crashed"} => pc'[l] = pc[l]
      BY <1>4 DEF CreateApplication, Goto, TypeOK
    <3>4. QED
      BY <1>1, <1>3, <2>1, <3>1, <3>2, <3>3
  <2>4. QED
    BY <2>2, <2>3 DEF StatusInv
<1>5. ASSUME NEW r \in Request, Approve(r) \/ Reject(r) PROVE StatusInv'
  <2>1. PICK a \in Request, op \in {"approve", "reject"} :
              /\ Decider(r, a, op)'
              /\ applications'[a].status = IF op = "approve" THEN "APPROVED" ELSE "REJECTED"
              /\ \A b \in Request : b # a => applications'[b] = applications[b]
              /\ op = "approve" => loans[r] # NoLoan /\ loans[r].application = a
              /\ pc[r] = "approving" <=> op = "approve"
              /\ UNCHANGED loans
    BY <1>5, DecisionMade
  <2>2. Granted' = Granted
    BY <2>1 DEF Granted
  <2>3. ASSUME NEW b \in Submitted' PROVE StatusSound(b)'
    <3>1. CASE b = a
      <4>1. CASE op = "approve"
        BY <2>1, <2>2, <3>1, <4>1 DEF StatusSound, Granted
      <4>2. CASE op = "reject"
        BY <2>1, <3>1, <4>2 DEF StatusSound
      <4>3. QED
        BY <4>1, <4>2
    <3>2. CASE b # a
      BY <1>2, <2>1, <3>2 DEF Submitted
    <3>3. QED
      BY <3>1, <3>2
  <2>4. ASSUME NEW l \in Granted' PROVE LoanSound(l)'
    <3>1. l \in Granted /\ l \in Request /\ loans' = loans
      BY <2>1, <2>2, <1>1
    <3>2. CASE loans[l].application = a /\ op = "reject"
      BY <2>1, <3>1, <3>2 DEF LoanSound
    <3>3. CASE loans[l].application = a /\ op = "approve"
      BY <2>1, <3>1, <3>3 DEF LoanSound
    <3>4. CASE loans[l].application # a
      <4>1. l # r \/ op = "reject"
        BY <2>1, <3>4
      <4>2. pc[l] \in {"approving", "crashed"} => pc'[l] = pc[l]
        <5>1. Goto(r, "audit")
          BY <1>5 DEF Approve, Reject, SetStatus
        <5>2. pc[r] # "crashed"
          BY <1>5 DEF Approve, Reject
        <5>3. CASE l = r
          <6>1. op = "reject"
            BY <4>1, <5>3
          <6>2. pc[r] # "approving"
            BY <2>1, <6>1
          <6>3. QED
            BY <5>2, <5>3, <6>2
        <5>4. CASE l # r
          BY <3>1, <5>1, <5>4 DEF Goto, TypeOK
        <5>5. QED
          BY <5>3, <5>4
      <4>3. applications'[loans[l].application] = applications[loans[l].application]
        BY <1>1, <2>1, <3>1, <3>4
      <4>4. QED
        BY <1>3, <3>1, <4>2, <4>3
    <3>5. QED
      BY <3>2, <3>3, <3>4
  <2>5. QED
    BY <2>3, <2>4 DEF StatusInv
<1>6. ASSUME NEW r \in Request, CreateLoan(r) PROVE StatusInv'
  <2>1. applications' = applications /\ pc[r] = "creatingLoan"
    BY <1>6 DEF CreateLoan
  <2>2. \A a \in Submitted' : StatusSound(a)'
    BY <1>2, <2>1 DEF Submitted
  <2>3. ASSUME NEW l \in Granted', l \in Granted PROVE LoanSound(l)'
    <3>1. Goto(r, "approving") \/ Goto(r, "refused")
      BY <1>6 DEF CreateLoan
    <3>2. pc[l] \in {"approving", "crashed"} => pc'[l] = pc[l]
      BY <2>1, <2>3, <3>1 DEF Goto, TypeOK, Granted
    <3>3. QED
      BY <1>3, <2>1, <2>3, <3>2
  <2>4. ASSUME NEW l \in Granted', l \notin Granted PROVE LoanSound(l)'
    <3>1. CreateLoan(l) /\ l \in Request /\ loans'[l] # loans[l]
      BY <2>4, LoansKept DEF Granted
    <3>2. pc'[l] = "approving"
      BY <3>1 DEF CreateLoan, Goto, TypeOK
    <3>3. QED
      BY <3>2 DEF LoanSound
  <2>5. QED
    BY <2>2, <2>3, <2>4 DEF StatusInv
<1>7. ASSUME NEW r \in Request,
             \/ Arrive(r) \/ TurnedAway(r) \/ Begin(r)
             \/ ReadForApproval(r) \/ ReadForRejection(r) \/ ReadRules(r)
             \/ AuditSubmission(r) \/ AuditApproval(r) \/ AuditRejection(r) \/ Crash(r)
      PROVE  StatusInv'
  <2>1. UNCHANGED <<applications, loans>>
    BY <1>7 DEF Arrive, TurnedAway, Begin, ReadForApproval, ReadForRejection, ReadRules,
       AuditSubmission, AuditApproval, AuditRejection, Audit, Crash
  <2>2. \A l \in Request : \/ pc'[l] = pc[l] \/ pc'[l] = "crashed"
                           \/ pc[l] \notin {"approving", "crashed"}
    BY <1>7 DEF Arrive, TurnedAway, Begin, ReadForApproval, ReadForRejection, ReadRules,
       AuditSubmission, AuditApproval, AuditRejection, Audit, Crash, Goto, TypeOK
  <2>3. Submitted' = Submitted /\ Granted' = Granted
    BY <2>1 DEF Submitted, Granted
  <2>4. QED
    BY <1>1, <1>2, <1>3, <2>1, <2>2, <2>3 DEF StatusInv
<1>8. QED
  BY <1>4, <1>5, <1>6, <1>7 DEF LoanNext

LEMMA StatusMeaning ==
    ASSUME TypeOK, OneLoanPerApplication, StatusInv
    PROVE  StatusFollowsLoan
<1> SUFFICES ASSUME NEW g \in Group
    PROVE  /\ \A a \in ListApplicationsByGroup(g, "APPROVED") : LoansOf(a) # {}
           /\ \A l \in Granted : loans[l].group = g =>
                 LET a == loans[l].application IN
                 \/ a \in ListApplicationsByGroup(g, "APPROVED")
                 \/ pc[l] \in {"approving", "crashed"}
                 \/ Deciding(a, "reject", {"audit", "done", "crashed"}) # {}
           /\ \A a \in ListApplicationsByGroup(g, "APPROVED")
                        \cup ListApplicationsByGroup(g, "REJECTED") :
                 LET op == IF applications[a].status = "APPROVED" THEN "approve" ELSE "reject" IN
                 \/ Deciding(a, op, {"done"}) \cap trail # {}
                 \/ Deciding(a, op, {"audit", "crashed"}) # {}
  BY DEF StatusFollowsLoan
<1>1. \A a \in ListApplicationsByGroup(g, "APPROVED") : LoansOf(a) # {}
  BY DEF ListApplicationsByGroup, StatusInv, StatusSound, LoansOf
<1>2. ASSUME NEW l \in Granted, loans[l].group = g,
             applications[loans[l].application].status = "APPROVED"
      PROVE  loans[l].application \in ListApplicationsByGroup(g, "APPROVED")
  BY <1>2 DEF ListApplicationsByGroup, OneLoanPerApplication, Submitted, Granted, TypeOK, LoanRow
<1>3. ASSUME NEW a, NEW op, NEW r \in Request, Decider(r, a, op)
      PROVE  /\ Deciding(a, op, {"audit", "done", "crashed"}) # {}
             /\ \/ Deciding(a, op, {"done"}) \cap trail # {}
                \/ Deciding(a, op, {"audit", "crashed"}) # {}
  BY <1>3 DEF Decider, Deciding
<1>4. ASSUME NEW l \in Granted, loans[l].group = g
      PROVE  \/ loans[l].application \in ListApplicationsByGroup(g, "APPROVED")
             \/ pc[l] \in {"approving", "crashed"}
             \/ Deciding(loans[l].application, "reject", {"audit", "done", "crashed"}) # {}
  BY <1>2, <1>3, <1>4 DEF StatusInv, LoanSound
<1>5. ASSUME NEW a \in ListApplicationsByGroup(g, "APPROVED")
      PROVE  /\ applications[a].status = "APPROVED"
             /\ \E r \in Request : Decider(r, a, "approve")
  BY <1>5 DEF ListApplicationsByGroup, StatusInv, StatusSound
<1>6. ASSUME NEW a \in ListApplicationsByGroup(g, "REJECTED")
      PROVE  /\ applications[a].status = "REJECTED"
             /\ \E r \in Request : Decider(r, a, "reject")
  BY <1>6 DEF ListApplicationsByGroup, StatusInv, StatusSound
<1>7. QED
  BY <1>1, <1>3, <1>4, <1>5, <1>6

-----------------------------------------------------------------------------
\* The inductive invariant.
ApprovalInv ==
    /\ TypeOK /\ ChangeInv /\ RulesSurviveChange
    /\ RequestInv /\ OneLoanPerApplication /\ StatusInv

LEMMA ApprovalInit == Init => ApprovalInv
<1> SUFFICES ASSUME Init PROVE ApprovalInv
  OBVIOUS
<1> USE DEF Init, RulesInit
<1>1. TypeOK
  BY DEF TypeOK, RulesTypeOK, Basis, Granted
<1>2. ChangeInv /\ RulesSurviveChange
  BY DEF ChangeInv, ChangeSound, ChangeStep, RulesSurviveChange, VersionsOf
<1>3. RequestInv /\ OneLoanPerApplication /\ StatusInv
  BY DEF RequestInv, RequestSound, Step, OneLoanPerApplication, StatusInv, Granted, Submitted
<1>4. QED
  BY <1>1, <1>2, <1>3 DEF ApprovalInv

LEMMA ApprovalStep == ApprovalInv /\ [Next]_vars => ApprovalInv'
<1> SUFFICES ASSUME ApprovalInv, [Next]_vars PROVE ApprovalInv'
  OBVIOUS
<1> USE DEF ApprovalInv
<1>1. CASE LoanNext
  <2>1. UNCHANGED ruleVars
    BY <1>1 DEF LoanNext, Arrive, TurnedAway, Begin, CreateApplication, ReadForApproval,
       ReadForRejection, ReadRules, CreateLoan, Approve, Reject, SetStatus, AuditSubmission,
       AuditApproval, AuditRejection, Audit, Crash
  <2>2. ChangeInv' /\ RulesSurviveChange'
    BY <2>1 DEF ruleVars, ChangeInv, ChangeSound, RulesSurviveChange, VersionsOf, Open
  <2>3. QED
    BY <1>1, <2>2, TypeStep, RequestStepInv, OneLoanStep, StatusStep
<1>2. CASE RulesNext /\ UNCHANGED loanVars
  <2>1. RulesTypeOK' /\ ChangeInv' /\ RulesSurviveChange'
    BY <1>2, RulesTypeStep, ChangeStepInv, SurviveStep DEF TypeOK
  <2>2. TypeOK'
    BY <1>2, <2>1 DEF TypeOK, loanVars, Granted
  <2>3. RequestInv' /\ OneLoanPerApplication'
    BY <1>2 DEF loanVars, RequestInv, RequestSound, OneLoanPerApplication, Granted, LoansOf
  <2>4. StatusInv'
    BY <1>2 DEF loanVars, StatusInv, StatusSound, LoanSound, Decider, Submitted, Granted
  <2>5. QED
    BY <2>1, <2>2, <2>3, <2>4
<1>3. CASE UNCHANGED vars
  <2>1. UNCHANGED ruleVars /\ UNCHANGED loanVars
    BY <1>3 DEF vars
  <2>2. TypeOK'
    BY <2>1 DEF ruleVars, loanVars, TypeOK, RulesTypeOK, Granted
  <2>3. ChangeInv'
    BY <2>1 DEF ruleVars, ChangeInv, ChangeSound
  <2>4. RulesSurviveChange'
    BY <2>1 DEF ruleVars, RulesSurviveChange, VersionsOf, Open
  <2>5. RequestInv'
    BY <2>1 DEF loanVars, RequestInv, RequestSound
  <2>6. OneLoanPerApplication'
    BY <2>1 DEF loanVars, OneLoanPerApplication, Granted, LoansOf
  <2>7. StatusInv'
    BY <2>1 DEF loanVars, StatusInv, StatusSound, LoanSound, Decider, Submitted, Granted
  <2>8. QED
    BY <2>2, <2>3, <2>4, <2>5, <2>6, <2>7
<1>4. QED
  BY <1>1, <1>2, <1>3 DEF Next

LEMMA ApprovalCorrect == Spec => []ApprovalInv
BY ApprovalInit, ApprovalStep, PTL DEF Spec

\* Every variable of rules, applications and loans keeps its type.
THEOREM ApprovalTypes == Spec => []TypeOK
<1>1. ApprovalInv => TypeOK
  BY DEF ApprovalInv
<1>2. QED
  BY <1>1, ApprovalCorrect, PTL

\* However rule changes overlap and die, a group that has had rules has an open
\* version, or a call that closed its version has still to open the next one or
\* died before (GroupRulesService.createVersion and update).
THEOREM GroupsKeepRules == Spec => []RulesSurviveChange
<1>1. ApprovalInv => RulesSurviveChange
  BY DEF ApprovalInv
<1>2. QED
  BY <1>1, ApprovalCorrect, PTL

\* However approvals overlap, an application has at most one loan, made of what
\* it asked for (LoanApprovalService.approve under Loan.applicationId @unique).
THEOREM ApplicationsHaveOneLoan == Spec => []OneLoanPerApplication
<1>1. ApprovalInv => OneLoanPerApplication
  BY DEF ApprovalInv
<1>2. QED
  BY <1>1, ApprovalCorrect, PTL

\* Loans, the treasurer's lists and the trail agree up to what overlaps or dies
\* (LoanApprovalService.approve and reject).
THEOREM ListsFollowLoans == Spec => []StatusFollowsLoan
<1>1. ApprovalInv => StatusFollowsLoan
  BY StatusMeaning DEF ApprovalInv
<1>2. QED
  BY <1>1, ApprovalCorrect, PTL
-----------------------------------------------------------------------------
(* Sums over finite sets, which the community modules define by a fold.    *)

LEMMA LeastNat ==
    ASSUME NEW S, S \subseteq Nat, S # {}
    PROVE  \E x \in S : \A y \in S : x <= y
<1> DEFINE R == OpToRel(<, Nat)
<1>1. IsWellFoundedOn(R, Nat)
  BY NatLessThanWellFounded
<1>2. \A x, y \in Nat : x < y => <<x, y>> \in R
  BY DEF OpToRel
<1> HIDE DEF R
<1>3. PICK x \in S : \A y \in S : ~(<<y, x>> \in R)
  BY <1>1, WFMin
<1>4. \A y \in S : x \in Nat /\ y \in Nat /\ ~(y < x)
  BY <1>2, <1>3
<1>5. \A y \in S : x <= y
  BY <1>4
<1>6. QED
  BY <1>3, <1>5

\* What a finite set has if a set has it whenever it does without any one of its elements.
LEMMA SetInduction ==
    ASSUME NEW S, IsFiniteSet(S), NEW G,
           \A s \in SUBSET S : (\A x \in s : s \ {x} \in G) => s \in G
    PROVE  S \in G
<1> DEFINE T == {Cardinality(s) : s \in {t \in SUBSET S : t \notin G}}
<1>1. \A s \in SUBSET S : IsFiniteSet(s) /\ Cardinality(s) \in Nat
  BY FS_Subset, FS_CardinalityType
<1> SUFFICES ASSUME S \notin G PROVE FALSE
  OBVIOUS
<1>2. T \subseteq Nat /\ T # {}
  <2>1. T \subseteq Nat
    BY <1>1
  <2>2. S \in {t \in SUBSET S : t \notin G}
    OBVIOUS
  <2>3. QED
    BY <2>1, <2>2
<1>3. PICK n \in T : \A m \in T : n <= m
  BY <1>2, LeastNat
<1>4. PICK s \in SUBSET S : s \notin G /\ n = Cardinality(s)
  BY <1>3
<1>5. PICK x \in s : s \ {x} \notin G
  BY <1>4
<1>6. s \ {x} \in SUBSET S
  OBVIOUS
<1>7. Cardinality(s \ {x}) = Cardinality(s) - 1 /\ Cardinality(s \ {x}) \in Nat /\ Cardinality(s) \in Nat
  BY <1>1, <1>6, FS_RemoveElement
<1>8. Cardinality(s \ {x}) \in T
  BY <1>5, <1>6
<1> HIDE DEF T
<1>9. n <= Cardinality(s \ {x})
  BY <1>3, <1>8
<1>10. QED
  BY <1>4, <1>7, <1>9

-----------------------------------------------------------------------------
\* The function by which SumFunctionOnSet is defined, and its value for one set.
Chosen(s) == CHOOSE x \in s : TRUE
Value(sum, f, s) == IF s = {} THEN 0 ELSE f[Chosen(s)] + sum[s \ {Chosen(s)}]
Iter(sum, f, S) == sum = [s \in SUBSET S |-> Value(sum, f, s)]

LEMMA SumIsIter ==
    ASSUME NEW f, NEW S
    PROVE  SumFunctionOnSet(f, S) = (CHOOSE sum : Iter(sum, f, S))[S]
BY DEF SumFunctionOnSet, FoldFunctionOnSet, MapThenFoldSet, Iter, Value, Chosen

LEMMA IterExists ==
    ASSUME NEW f, NEW S, IsFiniteSet(S)
    PROVE  \E sum : Iter(sum, f, S)
<1> DEFINE UpTo(sum, n) == /\ sum = [s \in SUBSET S |-> sum[s]]
                           /\ \A s \in SUBSET S : Cardinality(s) <= n => sum[s] = Value(sum, f, s)
           T == {n \in Nat : ~\E sum : UpTo(sum, n)}
<1>1. \A s \in SUBSET S : IsFiniteSet(s) /\ Cardinality(s) \in Nat
  BY FS_Subset, FS_CardinalityType
<1>2. T = {}
  <2> SUFFICES ASSUME T # {} PROVE FALSE
    OBVIOUS
  <2>1. PICK n \in T : \A m \in T : n <= m
    <3>1. T \subseteq Nat
      OBVIOUS
    <3> HIDE DEF T
    <3>2. QED
      BY <3>1, LeastNat
  <2>2. PICK old : /\ old = [s \in SUBSET S |-> old[s]]
                   /\ \A s \in SUBSET S : Cardinality(s) < n => old[s] = Value(old, f, s)
    <3>1. CASE n = 0
      <4>1. \A s \in SUBSET S : ~(Cardinality(s) < n)
        BY <1>1, <3>1
      <4> PICK old : old = [s \in SUBSET S |-> 0]
        OBVIOUS
      <4>2. QED
        BY <4>1
    <3>2. CASE n # 0
      <4>1. n - 1 \in Nat /\ n - 1 \notin T
        <5>1. n \in Nat
          OBVIOUS
        <5> HIDE DEF T
        <5>2. n - 1 \in Nat /\ ~(n <= n - 1)
          BY <3>2, <5>1
        <5>3. QED
          BY <2>1, <5>2
      <4>2. PICK old : UpTo(old, n - 1)
        BY <4>1
      <4>3. \A s \in SUBSET S : Cardinality(s) < n => Cardinality(s) <= n - 1
        BY <1>1, <2>1
      <4>4. QED
        BY <4>2, <4>3
    <3>3. QED
      BY <3>1, <3>2
  <2> DEFINE new == [s \in SUBSET S |-> Value(old, f, s)]
  <2>3. ASSUME NEW s \in SUBSET S, Cardinality(s) <= n
        PROVE  new[s] = Value(new, f, s)
    <3>1. CASE s = {}
      BY <3>1 DEF Value
    <3>2. CASE s # {}
      <4> DEFINE t == s \ {Chosen(s)}
      <4>1. Chosen(s) \in s
        BY <3>2 DEF Chosen
      <4>2. t \in SUBSET S /\ Cardinality(t) < n
        <5>1. t \in SUBSET S
          OBVIOUS
        <5>2. Cardinality(t) = Cardinality(s) - 1
          BY <1>1, <4>1, FS_RemoveElement
        <5>3. QED
          BY <1>1, <2>1, <2>3, <5>1, <5>2
      <4>3. new[t] = Value(old, f, t)
        BY <4>2
      <4>4. old[t] = new[t]
        BY <2>2, <4>2, <4>3
      <4>5. new[s] = f[Chosen(s)] + old[t] /\ Value(new, f, s) = f[Chosen(s)] + new[t]
        BY <3>2 DEF Value
      <4>6. QED
        BY <4>4, <4>5
    <3>3. QED
      BY <3>1, <3>2
  <2>4. new = [s \in SUBSET S |-> new[s]]
    OBVIOUS
  <2> HIDE DEF new
  <2>5. UpTo(new, n)
    BY <2>3, <2>4
  <2>6. QED
    BY <2>1, <2>5
<1>3. PICK sum : UpTo(sum, Cardinality(S))
  BY <1>1, <1>2
<1>4. \A s \in SUBSET S : Cardinality(s) <= Cardinality(S)
  BY FS_Subset
<1>5. QED
  BY <1>3, <1>4 DEF Iter

LEMMA IterUnique ==
    ASSUME NEW f, NEW S, IsFiniteSet(S), NEW U, S \subseteq U, NEW V, S \subseteq V,
           NEW g, Iter(g, f, U), NEW h, Iter(h, f, V)
    PROVE  g[S] = h[S]
<1> DEFINE G == {s \in SUBSET S : g[s] = h[s]}
<1>1. ASSUME NEW s \in SUBSET S, \A x \in s : s \ {x} \in G
      PROVE  s \in G
  <2>1. g[s] = Value(g, f, s) /\ h[s] = Value(h, f, s)
    <3>1. s \in SUBSET U /\ s \in SUBSET V
      OBVIOUS
    <3>2. QED
      BY <3>1 DEF Iter
  <2>2. CASE s = {}
    BY <2>1, <2>2 DEF Value
  <2>3. CASE s # {}
    <3>1. Chosen(s) \in s
      BY <2>3 DEF Chosen
    <3>2. g[s \ {Chosen(s)}] = h[s \ {Chosen(s)}]
      BY <1>1, <3>1
    <3>3. QED
      BY <2>1, <2>3, <3>2 DEF Value
  <2>4. QED
    BY <2>2, <2>3
<1> HIDE DEF G
<1>2. S \in G
  BY <1>1, SetInduction
<1>3. QED
  BY <1>2 DEF G

\* A sum takes the chosen element first.
LEMMA SumChosen ==
    ASSUME NEW f, NEW S, IsFiniteSet(S)
    PROVE  SumFunctionOnSet(f, S) =
              IF S = {} THEN 0
              ELSE f[Chosen(S)] + SumFunctionOnSet(f, S \ {Chosen(S)})
<1> DEFINE T == S \ {Chosen(S)}
           g == CHOOSE sum : Iter(sum, f, S)
           h == CHOOSE sum : Iter(sum, f, T)
<1>1. IsFiniteSet(T) /\ T \subseteq S
  BY FS_Subset
<1>2. Iter(g, f, S) /\ Iter(h, f, T)
  <2>1. Iter(g, f, S)
    BY IterExists
  <2>2. Iter(h, f, T)
    <3>1. \E sum : Iter(sum, f, T)
      BY <1>1, IterExists
    <3>2. QED
      BY <3>1
  <2>3. QED
    BY <2>1, <2>2
<1>3. SumFunctionOnSet(f, S) = g[S] /\ SumFunctionOnSet(f, T) = h[T]
  BY SumIsIter
<1> HIDE DEF g, h
<1>4. g[T] = h[T]
  BY <1>1, <1>2, IterUnique
<1>5. g[S] = Value(g, f, S)
  BY <1>2 DEF Iter
<1>6. QED
  BY <1>3, <1>4, <1>5 DEF Value

LEMMA SumEmpty == ASSUME NEW f PROVE SumFunctionOnSet(f, {}) = 0
BY SumChosen, FS_EmptySet

LEMMA SumType ==
    ASSUME NEW S, IsFiniteSet(S), NEW f, \A x \in S : f[x] \in Int
    PROVE  SumFunctionOnSet(f, S) \in Int
<1> DEFINE G == {s \in SUBSET S : SumFunctionOnSet(f, s) \in Int}
<1>1. ASSUME NEW s \in SUBSET S, \A x \in s : s \ {x} \in G
      PROVE  s \in G
  <2>1. IsFiniteSet(s)
    BY FS_Subset
  <2>2. CASE s = {}
    BY <2>2, SumEmpty
  <2>3. CASE s # {}
    <3>1. Chosen(s) \in s
      BY <2>3 DEF Chosen
    <3>2. SumFunctionOnSet(f, s \ {Chosen(s)}) \in Int /\ f[Chosen(s)] \in Int
      BY <1>1, <3>1
    <3>3. SumFunctionOnSet(f, s) = f[Chosen(s)] + SumFunctionOnSet(f, s \ {Chosen(s)})
      BY <2>1, <2>3, SumChosen
    <3>4. QED
      BY <3>2, <3>3
  <2>4. QED
    BY <2>2, <2>3
<1> HIDE DEF G
<1>2. S \in G
  BY <1>1, SetInduction
<1>3. QED
  BY <1>2 DEF G

\* A sum may take any element first.
LEMMA SumRemove ==
    ASSUME NEW S, IsFiniteSet(S), NEW f, \A y \in S : f[y] \in Int, NEW x \in S
    PROVE  /\ SumFunctionOnSet(f, S) = f[x] + SumFunctionOnSet(f, S \ {x})
           /\ SumFunctionOnSet(f, S) \in Int /\ SumFunctionOnSet(f, S \ {x}) \in Int
<1> DEFINE Sum(s) == SumFunctionOnSet(f, s)
           G == {s \in SUBSET S : \A y \in s : Sum(s) = f[y] + Sum(s \ {y})}
<1>1. \A s \in SUBSET S : IsFiniteSet(s) /\ Sum(s) \in Int
  <2> TAKE s \in SUBSET S
  <2>1. IsFiniteSet(s)
    BY FS_Subset
  <2>2. QED
    BY <2>1, SumType
<1>2. ASSUME NEW s \in SUBSET S, \A y \in s : s \ {y} \in G
      PROVE  s \in G
  <2> SUFFICES ASSUME NEW y \in s PROVE Sum(s) = f[y] + Sum(s \ {y})
    OBVIOUS
  <2>1. PICK c : c = Chosen(s)
    OBVIOUS
  <2>2. c \in s /\ Sum(s) = f[c] + Sum(s \ {c})
    <3>1. c \in s /\ s # {}
      BY <2>1 DEF Chosen
    <3>2. IsFiniteSet(s)
      BY <1>1
    <3>3. SumFunctionOnSet(f, s) = f[c] + SumFunctionOnSet(f, s \ {c})
      BY <2>1, <3>1, <3>2, SumChosen
    <3>4. QED
      BY <3>1, <3>3
  <2>3. CASE c = y
    BY <2>2, <2>3
  <2>4. CASE c # y
    <3>1. s \ {c} \in G /\ s \ {y} \in G /\ y \in s \ {c} /\ c \in s \ {y}
      BY <1>2, <2>2, <2>4
    <3>2. /\ Sum(s \ {c}) = f[y] + Sum((s \ {c}) \ {y})
          /\ Sum(s \ {y}) = f[c] + Sum((s \ {y}) \ {c})
      BY <3>1
    <3>3. (s \ {c}) \ {y} = (s \ {y}) \ {c} /\ (s \ {y}) \ {c} \in SUBSET S
      OBVIOUS
    <3>4. PICK a : a = Sum((s \ {y}) \ {c})
      OBVIOUS
    <3>5. a \in Int /\ f[c] \in Int /\ f[y] \in Int
      BY <1>1, <2>2, <3>3, <3>4
    <3>6. Sum(s \ {c}) = f[y] + a /\ Sum(s \ {y}) = f[c] + a
      BY <3>2, <3>3, <3>4
    <3> HIDE DEF Sum, G
    <3>7. QED
      BY <2>2, <3>5, <3>6
  <2>5. QED
    BY <2>3, <2>4
<1> HIDE DEF G
<1>3. S \in G
  BY <1>2, SetInduction
<1>4. QED
  BY <1>1, <1>3 DEF G

LEMMA SumSame ==
    ASSUME NEW S, IsFiniteSet(S), NEW f, NEW g, \A x \in S : f[x] = g[x]
    PROVE  SumFunctionOnSet(f, S) = SumFunctionOnSet(g, S)
<1> DEFINE G == {s \in SUBSET S : SumFunctionOnSet(f, s) = SumFunctionOnSet(g, s)}
<1>1. ASSUME NEW s \in SUBSET S, \A x \in s : s \ {x} \in G
      PROVE  s \in G
  <2>1. IsFiniteSet(s)
    BY FS_Subset
  <2>2. CASE s = {}
    BY <2>2, SumEmpty
  <2>3. CASE s # {}
    <3>1. Chosen(s) \in s
      BY <2>3 DEF Chosen
    <3>2. /\ SumFunctionOnSet(f, s \ {Chosen(s)}) = SumFunctionOnSet(g, s \ {Chosen(s)})
          /\ f[Chosen(s)] = g[Chosen(s)]
      BY <1>1, <3>1
    <3>3. QED
      BY <2>1, <2>3, <3>2, SumChosen
  <2>4. QED
    BY <2>2, <2>3
<1> HIDE DEF G
<1>2. S \in G
  BY <1>1, SetInduction
<1>3. QED
  BY <1>2 DEF G

-----------------------------------------------------------------------------
(* The instalments of an amount add up to it.                              *)

\* Equal shares, as many as there are.
LEMMA SumOfEqual ==
    ASSUME NEW n \in Nat, NEW q \in Int, NEW f, \A i \in 1..n : f[i] = q
    PROVE  SumFunctionOnSet(f, 1..n) = n * q
<1> DEFINE T == {m \in 0..n : SumFunctionOnSet(f, 1..m) # m * q}
<1> SUFFICES ASSUME T # {} PROVE FALSE
  OBVIOUS
<1>1. PICK m \in T : \A k \in T : m <= k
  <2>1. T \subseteq Nat
    OBVIOUS
  <2> HIDE DEF T
  <2>2. QED
    BY <2>1, LeastNat
<1>2. m \in 0..n /\ SumFunctionOnSet(f, 1..m) # m * q
  OBVIOUS
<1>3. m # 0
  <2> SUFFICES ASSUME m = 0 PROVE FALSE
    OBVIOUS
  <2>1. 1..m = {}
    OBVIOUS
  <2>2. SumFunctionOnSet(f, 1..m) = 0
    BY <2>1, SumEmpty
  <2>3. QED
    BY <1>2, <2>2
<1>4. m - 1 \in 0..n /\ ~(m <= m - 1)
  BY <1>2, <1>3
<1>5. SumFunctionOnSet(f, 1..(m - 1)) = (m - 1) * q
  BY <1>1, <1>4
<1>6. SumFunctionOnSet(f, 1..m) = f[m] + SumFunctionOnSet(f, 1..(m - 1))
  <2>1. m \in Nat \ {0}
    BY <1>2, <1>3
  <2>2. IsFiniteSet(1..m)
    BY <2>1, FS_Interval
  <2>3. m \in 1..m /\ (1..m) \ {m} = 1..(m - 1)
    BY <2>1
  <2>4. \A i \in 1..m : f[i] \in Int
    BY <1>2
  <2> HIDE DEF T
  <2>5. QED
    BY <2>2, <2>3, <2>4, SumRemove
<1>7. f[m] = q
  BY <1>2, <1>3
<1>8. m * q = (m - 1) * q + q
  BY <1>2
<1>9. (m - 1) * q \in Int
  BY <1>2
<1>10. QED
  BY <1>2, <1>5, <1>6, <1>7, <1>8, <1>9

\* All but the last instalment are equal shares; the last takes what is left.
LEMMA InstalmentsOfTotal ==
    ASSUME NEW n \in Nat \ {0}, NEW total \in Int, NEW f, DOMAIN f = 1..n,
           \A i \in 1..n : f[i] = Instalment(total, n, i)
    PROVE  SumFunction(f) = total
<1>1. PICK q, rest \in Int : q = total \div n /\ rest = total % n
  OBVIOUS
<1>2. total = n * q + rest
  BY <1>1
<1>3. /\ \A i \in 1..(n - 1) : f[i] = q
      /\ f[n] = q + rest
      /\ \A i \in 1..n : f[i] \in Int
  BY <1>1 DEF Instalment
<1>4. SumFunctionOnSet(f, 1..(n - 1)) = (n - 1) * q
  <2>1. n - 1 \in Nat
    OBVIOUS
  <2>2. PICK k \in Nat : k = n - 1
    BY <2>1
  <2>3. \A i \in 1..k : f[i] = q
    BY <1>3, <2>2
  <2>4. SumFunctionOnSet(f, 1..k) = k * q
    BY <2>3, SumOfEqual
  <2>5. QED
    BY <2>2, <2>4
<1>5. SumFunctionOnSet(f, 1..n) = f[n] + SumFunctionOnSet(f, 1..(n - 1))
  <2>1. IsFiniteSet(1..n)
    <3>1. n \in Int
      OBVIOUS
    <3>2. QED
      BY <3>1, FS_Interval
  <2>2. n \in 1..n /\ (1..n) \ {n} = 1..(n - 1)
    OBVIOUS
  <2>3. QED
    BY <1>3, <2>1, <2>2, SumRemove
<1>6. n * q = (n - 1) * q + q /\ (n - 1) * q \in Int
  OBVIOUS
<1>7. SumFunctionOnSet(f, 1..n) = total
  BY <1>2, <1>3, <1>4, <1>5, <1>6
<1>8. QED
  BY <1>7 DEF SumFunction

LEMMA InterestOfNone ==
    ASSUME NEW principal \in Int, NEW terms \in Int
    PROVE  TotalInterest(principal, terms, 0) = 0
BY DEF TotalInterest

\* A generated schedule consists of the instalments of principal and interest.
LEMMA ScheduleOfInstalments ==
    ASSUME NEW principal \in Int, NEW terms \in Nat \ {0}, NEW rateBps \in Int,
           NEW interest, interest = TotalInterest(principal, terms, rateBps),
           NEW items, items = GenerateSchedule(principal, terms, rateBps)
    PROVE  /\ DOMAIN items = 1..terms
           /\ \A i \in 1..terms :
                 /\ items[i].due["principal"] = Instalment(principal, terms, i)
                 /\ items[i].due["interest"] = Instalment(interest, terms, i)
<1>1. /\ DOMAIN items = 1..terms
      /\ \A i \in 1..terms : items[i] = NewItem(Instalment(principal, terms, i),
                                                Instalment(interest, terms, i))
  BY DEF GenerateSchedule
<1>2. QED
  BY <1>1 DEF NewItem, Part

-----------------------------------------------------------------------------
(* The terms of a loan.  What an approval took of a version stays true of   *)
(* it, because a version's own terms never change once they are written.    *)

InForce(v, g, date) == v \in VersionsOf(g) /\ versions[v].from <= date

\* What a request relies on for the terms it writes.
AskedSound(r) ==
    /\ applications[r] # NoApplication => applications[r].terms > 0
    /\ pc[r] = "creatingApplication" => command[r].terms > 0
    /\ pc[r] \in {"rules", "creatingLoan"} => at[r] <= clock
    /\ pc[r] = "creatingLoan" =>
          /\ InForce(snapshot[r].version, command[r].group, at[r])
          /\ snapshot[r] = Taken(snapshot[r].version)

LoanTerms(l) ==
    LET loan == loans[l] IN
    /\ InForce(loan.version, loan.group, loan.approvedAt)
    /\ loan.enabled = Taken(loan.version).enabled
    /\ loan.rateBps = Taken(loan.version).rateBps
    /\ loan.terms > 0
    /\ schedules[l] = GenerateSchedule(loan.principal, loan.terms, loan.rateBps)

TermsInv ==
    /\ \A r \in Request : AskedSound(r)
    /\ \A l \in Granted : LoanTerms(l)

\* The terms of a version are written once.
LEMMA TermsKept ==
    ASSUME RulesTypeOK, ChangeInv, RulesNext, NEW v \in RuleChange, versions[v] # NoVersion
    PROVE  /\ versions'[v] # NoVersion /\ versions'[v].group = versions[v].group
           /\ versions'[v].from = versions[v].from /\ Taken(v)' = Taken(v)
<1>1. versions[v] \in RuleVersionRow
  BY DEF RulesTypeOK
<1>2. ASSUME NEW r \in RuleChange, CloseVersion(r)
      PROVE  /\ versions'[v].from = versions[v].from
             /\ versions'[v].enabled = versions[v].enabled
             /\ versions'[v].rateBps = versions[v].rateBps
  <2>1. versions'[v] = versions[v] \/ versions'[v] = [versions[v] EXCEPT !.to = basis[r].now]
    BY <1>1, <1>2 DEF CloseVersion, RulesTypeOK
  <2>2. QED
    BY <1>1, <2>1 DEF RuleVersionRow
<1>3. ASSUME NEW r \in RuleChange, OpenVersion(r) PROVE versions'[v] = versions[v]
  <2>1. v # r
    BY <1>3 DEF OpenVersion, ChangeInv, ChangeSound, Unwritten
  <2>2. QED
    BY <1>1, <1>3, <2>1 DEF OpenVersion, RulesTypeOK
<1>4. /\ versions'[v].from = versions[v].from
      /\ versions'[v].enabled = versions[v].enabled
      /\ versions'[v].rateBps = versions[v].rateBps
  BY <1>2, <1>3 DEF RulesNext, Tick, ArriveChange, TurnChangeAway, StartCreate,
     StartUpdate, ReadCurrentForCreate, ReadCurrentForUpdate, AuditChange, CrashChange
<1>5. QED
  BY <1>4, VersionsKept DEF Taken

\* A change of the rules touches the terms of no loan and of no approval.
LEMMA TermsRulesStep ==
    ASSUME TypeOK, ChangeInv, RulesNext, UNCHANGED loanVars, TermsInv
    PROVE  TermsInv'
<1>1. UNCHANGED <<applications, loans, schedules, pc, command, at, snapshot>>
  BY DEF loanVars
<1>2. ASSUME NEW v, NEW g, NEW date, InForce(v, g, date)
      PROVE  (v \in VersionsOf(g))' /\ versions'[v].from <= date /\ Taken(v)' = Taken(v)
  BY <1>2, TermsKept DEF InForce, VersionsOf, TypeOK
<1>3. clock' \in Nat /\ clock \in Nat /\ clock <= clock'
  <2>1. clock \in Nat
    BY DEF TypeOK, RulesTypeOK
  <2>2. clock' = clock + 1 \/ clock' = clock
    BY DEF RulesNext, Tick, ArriveChange, TurnChangeAway, StartCreate,
       StartUpdate, ReadCurrentForCreate, ReadCurrentForUpdate, CloseVersion, OpenVersion,
       AuditChange, CrashChange
  <2>3. QED
    BY <2>1, <2>2
<1>4. ASSUME NEW r \in Request PROVE AskedSound(r)'
  <2>1. AskedSound(r) /\ at[r] \in Nat
    BY DEF TermsInv, TypeOK
  <2>2. pc[r] \in {"rules", "creatingLoan"} => at[r] <= clock'
    BY <1>3, <2>1 DEF AskedSound
  <2>3. ASSUME pc[r] = "creatingLoan"
        PROVE  /\ InForce(snapshot[r].version, command[r].group, at[r])'
               /\ snapshot[r] = Taken(snapshot[r].version)'
    <3>1. /\ InForce(snapshot[r].version, command[r].group, at[r])
          /\ snapshot[r] = Taken(snapshot[r].version)
      BY <2>1, <2>3 DEF AskedSound
    <3>2. PICK v, g, date : v = snapshot[r].version /\ g = command[r].group /\ date = at[r]
      OBVIOUS
    <3>3. (v \in VersionsOf(g))' /\ versions'[v].from <= date /\ Taken(v)' = Taken(v)
      BY <1>2, <3>1, <3>2
    <3>4. QED
      BY <1>1, <3>1, <3>2, <3>3 DEF InForce, VersionsOf, Taken
  <2>4. QED
    BY <1>1, <2>1, <2>2, <2>3 DEF AskedSound
<1>5. ASSUME NEW l \in Granted PROVE LoanTerms(l)'
  <2>1. LoanTerms(l)
    BY DEF TermsInv
  <2>2. PICK v, g, date : /\ v = loans[l].version /\ g = loans[l].group
                          /\ date = loans[l].approvedAt
    OBVIOUS
  <2>3. (v \in VersionsOf(g))' /\ versions'[v].from <= date /\ Taken(v)' = Taken(v)
    BY <1>2, <2>1, <2>2 DEF LoanTerms
  <2>4. QED
    BY <1>1, <2>1, <2>2, <2>3 DEF LoanTerms, InForce, VersionsOf, Taken
<1>6. QED
  BY <1>1, <1>4, <1>5 DEF TermsInv, Granted

LEMMA TermsLoanStep ==
    ASSUME TypeOK, RequestInv, LoanNext, TermsInv
    PROVE  TermsInv'
<1>1. clock' = clock /\ versions' = versions
  BY DEF ruleVars, LoanNext, Arrive, TurnedAway, Begin, CreateApplication, ReadForApproval,
     ReadForRejection, ReadRules, CreateLoan, Approve, Reject, SetStatus, AuditSubmission,
     AuditApproval, AuditRejection, Audit, Crash
<1>2. \A v, g, date : InForce(v, g, date)' = InForce(v, g, date) /\ Taken(v)' = Taken(v)
  BY <1>1 DEF InForce, VersionsOf, Taken
<1>3. ASSUME NEW r \in Request PROVE AskedSound(r)'
  <2>1. AskedSound(r)
    BY DEF TermsInv
  <2>2. ASSUME applications'[r] # NoApplication PROVE applications'[r].terms > 0
    <3>1. CASE applications[r] # NoApplication
      BY <2>1, <3>1, ApplicationsKept DEF AskedSound
    <3>2. CASE applications[r] = NoApplication
      <4>1. CreateApplication(r)
        BY <2>2, <3>2, ApplicationOfItsRequest
      <4>2. applications'[r].terms = command[r].terms /\ pc[r] = "creatingApplication"
        BY <4>1 DEF CreateApplication, TypeOK
      <4>3. QED
        BY <2>1, <4>2 DEF AskedSound
    <3>3. QED
      BY <3>1, <3>2
  <2>3. CASE /\ pc'[r] = pc[r] /\ command'[r] = command[r] /\ at'[r] = at[r]
             /\ snapshot'[r] = snapshot[r]
    <3>1. PICK v, g, date : v = snapshot[r].version /\ g = command[r].group /\ date = at[r]
      OBVIOUS
    <3>2. pc[r] = "creatingLoan" => InForce(v, g, date) /\ snapshot[r] = Taken(v)
      BY <2>1, <3>1 DEF AskedSound
    <3>3. pc[r] = "creatingLoan" => InForce(v, g, date)' /\ snapshot'[r] = Taken(v)'
      BY <1>2, <2>3, <3>2
    <3>4. QED
      BY <1>1, <2>1, <2>2, <2>3, <3>1, <3>3 DEF AskedSound, InForce, VersionsOf, Taken
  <2>4. CASE pc'[r] \notin {"creatingApplication", "rules", "creatingLoan"}
    BY <2>2, <2>4 DEF AskedSound
  <2>5. CASE Begin(r)
    <3>1. pc'[r] = "creatingApplication" => command'[r].terms > 0
      BY <2>5 DEF Begin, Goto, TypeOK
    <3>2. pc'[r] \notin {"rules", "creatingLoan"}
      BY <2>5 DEF Begin, Goto, TypeOK
    <3>3. QED
      BY <2>2, <3>1, <3>2 DEF AskedSound
  <2>6. CASE ReadForApproval(r)
    <3>1. at'[r] <= clock' /\ pc'[r] \in {"rules", "refused"}
      BY <2>6 DEF ReadForApproval, Goto, TypeOK, RulesTypeOK, ruleVars
    <3>2. QED
      BY <2>2, <3>1 DEF AskedSound
  <2>7. CASE ReadRules(r)
    <3>1. /\ pc[r] = "rules" /\ command' = command /\ at' = at
          /\ \/ pc'[r] = "refused"
             \/ /\ pc'[r] = "creatingLoan"
                /\ \E v \in GetSnapshotForLoan(command[r].group, at[r]) :
                      v # NoVersion /\ snapshot'[r] = Taken(v)
      BY <2>7 DEF ReadRules, Goto, TypeOK
    <3>2. ASSUME NEW v \in GetSnapshotForLoan(command[r].group, at[r]), v # NoVersion
          PROVE  InForce(v, command[r].group, at[r]) /\ Taken(v).version = v
      BY <3>2 DEF GetSnapshotForLoan, Newest, EffectiveAt, InForce, Taken
    <3>3. ASSUME pc'[r] = "creatingLoan"
          PROVE  \E v : /\ InForce(v, command[r].group, at[r]) /\ snapshot'[r] = Taken(v)
                        /\ snapshot'[r].version = v
      BY <3>1, <3>2, <3>3
    <3>4. ASSUME pc'[r] = "creatingLoan"
          PROVE  /\ InForce(snapshot[r].version, command[r].group, at[r])'
                 /\ (snapshot[r] = Taken(snapshot[r].version))'
      <4>1. PICK v : /\ InForce(v, command[r].group, at[r]) /\ snapshot'[r] = Taken(v)
                     /\ snapshot'[r].version = v
        BY <3>3, <3>4
      <4>2. QED
        BY <1>1, <3>1, <4>1 DEF InForce, VersionsOf, Taken
    <3>5. at'[r] <= clock'
      BY <1>1, <2>1, <3>1 DEF AskedSound
    <3>6. pc'[r] # "creatingApplication"
      BY <3>1
    <3>7. QED
      BY <2>2, <3>4, <3>5, <3>6 DEF AskedSound
  <2>8. QED
    <3>1. ASSUME NEW q \in Request, q # r,
                 \/ Arrive(q) \/ TurnedAway(q) \/ Begin(q) \/ CreateApplication(q)
                 \/ ReadForApproval(q) \/ ReadForRejection(q) \/ ReadRules(q) \/ CreateLoan(q)
                 \/ Approve(q) \/ Reject(q)
                 \/ AuditSubmission(q) \/ AuditApproval(q) \/ AuditRejection(q) \/ Crash(q)
          PROVE  /\ pc'[r] = pc[r] /\ command'[r] = command[r] /\ at'[r] = at[r]
                 /\ snapshot'[r] = snapshot[r]
      BY <3>1 DEF TypeOK, Goto, Arrive, TurnedAway, Begin, CreateApplication, ReadForApproval,
         ReadForRejection, ReadRules, CreateLoan, Approve, Reject, SetStatus, AuditSubmission,
         AuditApproval, AuditRejection, Audit, Crash
    <3>2. \/ Arrive(r) \/ TurnedAway(r) \/ CreateApplication(r) \/ ReadForRejection(r)
          \/ CreateLoan(r) \/ Approve(r) \/ Reject(r)
          \/ AuditSubmission(r) \/ AuditApproval(r) \/ AuditRejection(r) \/ Crash(r)
          => pc'[r] \notin {"creatingApplication", "rules", "creatingLoan"}
      BY DEF TypeOK, Goto, Arrive, TurnedAway, CreateApplication, ReadForRejection,
         CreateLoan, Approve, Reject, SetStatus, AuditSubmission, AuditApproval,
         AuditRejection, Audit, Crash
    <3>3. QED
      BY <2>3, <2>4, <2>5, <2>6, <2>7, <3>1, <3>2 DEF LoanNext
<1>4. ASSUME NEW l \in Granted' PROVE LoanTerms(l)'
  <2>1. l \in Request
    BY DEF Granted
  <2>2. CASE l \in Granted
    <3>1. loans'[l] = loans[l]
      BY <2>2, LoansKept DEF Granted
    <3>2. ~CreateLoan(l)
      BY <2>2 DEF Granted, CreateLoan, RequestInv, RequestSound, Ungranted
    <3>3. schedules'[l] = schedules[l]
      <4>1. ASSUME NEW q \in Request, q # l, CreateLoan(q) PROVE schedules'[l] = schedules[l]
        BY <2>1, <4>1 DEF CreateLoan, TypeOK
      <4>2. QED
        BY <3>2, <4>1 DEF LoanNext, Arrive, TurnedAway, Begin, CreateApplication,
           ReadForApproval, ReadForRejection, ReadRules, Approve, Reject, SetStatus,
           AuditSubmission, AuditApproval, AuditRejection, Audit, Crash
    <3>4. LoanTerms(l)
      BY <2>2 DEF TermsInv
    <3>5. QED
      BY <1>1, <3>1, <3>3, <3>4 DEF LoanTerms, InForce, VersionsOf, Taken
  <2>3. CASE l \notin Granted
    <3>1. CreateLoan(l) /\ pc[l] = "creatingLoan"
      BY <2>1, <2>3, LoansKept DEF Granted, CreateLoan
    <3>2. PICK loan \in LoanRow : loan = NewLoan(l)
      BY <2>1, <3>1, NewLoanType
    <3>3. /\ loans'[l] = loan
          /\ schedules'[l] = GenerateSchedule(loan.principal, loan.terms, loan.rateBps)
      BY <2>1, <2>3, <3>1, <3>2 DEF CreateLoan, TypeOK, Granted
    <3>4. /\ loan.version = snapshot[l].version /\ loan.group = command[l].group
          /\ loan.enabled = snapshot[l].enabled /\ loan.rateBps = snapshot[l].rateBps
          /\ loan.approvedAt = clock
          /\ loan.terms = applications[command[l].application].terms
      BY <3>2 DEF NewLoan
    <3>5. AskedSound(l)
      BY <2>1 DEF TermsInv
    <3>6. InForce(loan.version, loan.group, loan.approvedAt)
      <4>1. /\ loan.version \in RuleChange /\ versions[loan.version] \in RuleVersionRow
            /\ at[l] \in Nat /\ clock \in Nat
        BY <2>1, <3>1, <3>4, <3>5
           DEF AskedSound, InForce, VersionsOf, TypeOK, RulesTypeOK
      <4>2. versions[loan.version].from \in Nat
        BY <4>1 DEF RuleVersionRow
      <4>3. QED
        BY <3>1, <3>4, <3>5, <4>1, <4>2 DEF AskedSound, InForce
    <3>7. loan.enabled = Taken(loan.version).enabled /\ loan.rateBps = Taken(loan.version).rateBps
      BY <3>1, <3>4, <3>5 DEF AskedSound
    <3>8. loan.terms > 0
      <4>1. PICK a \in Request : a = command[l].application
        BY <2>1, <3>1, NewLoanType
      <4>2. applications[a] # NoApplication
        BY <2>1, <3>1, <4>1, NewLoanType, LoanApprovalAssumption
      <4>3. AskedSound(a)
        BY DEF TermsInv
      <4>4. QED
        BY <3>4, <4>1, <4>2, <4>3 DEF AskedSound
    <3>9. QED
      BY <1>1, <3>3, <3>6, <3>7, <3>8 DEF LoanTerms, InForce, VersionsOf, Taken
  <2>4. QED
    BY <2>2, <2>3
<1>5. QED
  BY <1>3, <1>4 DEF TermsInv

LEMMA TermsStep == ApprovalInv /\ TermsInv /\ [Next]_vars => TermsInv'
<1> SUFFICES ASSUME ApprovalInv, TermsInv, [Next]_vars PROVE TermsInv'
  OBVIOUS
<1> USE DEF ApprovalInv
<1>1. CASE LoanNext
  BY <1>1, TermsLoanStep
<1>2. CASE RulesNext /\ UNCHANGED loanVars
  BY <1>2, TermsRulesStep
<1>3. CASE UNCHANGED vars
  <2>1. UNCHANGED <<clock, versions, applications, loans, schedules, pc, command, at, snapshot>>
    BY <1>3 DEF vars, ruleVars, loanVars
  <2>2. \A r \in Request : AskedSound(r)' = AskedSound(r)
    BY <2>1 DEF AskedSound, InForce, VersionsOf, Taken
  <2>3. \A l \in Granted : LoanTerms(l)' = LoanTerms(l)
    BY <2>1 DEF LoanTerms, InForce, VersionsOf, Taken
  <2>4. QED
    BY <2>1, <2>2, <2>3 DEF TermsInv, Granted
<1>4. QED
  BY <1>1, <1>2, <1>3 DEF Next

\* The schedule generated from a version's terms repays what the loan says.
LEMMA TermsMeaning ==
    ASSUME TypeOK, TermsInv
    PROVE  TermsFromVersion
<1> SUFFICES ASSUME NEW l \in Granted
    PROVE  LET loan == loans[l]
               v == loan.version
               due(part) ==
                  SumFunction([i \in DOMAIN schedules[l] |-> schedules[l][i].due[part]])
           IN  /\ v \in VersionsOf(loan.group)
               /\ versions[v].from <= loan.approvedAt
               /\ loan.enabled = versions[v].enabled
               /\ due("principal") = loan.principal
               /\ due("interest") = IF versions[v].enabled
                     THEN TotalInterest(loan.principal, loan.terms, versions[v].rateBps)
                     ELSE 0
  BY DEF TermsFromVersion
<1>1. LoanTerms(l) /\ loans[l] \in LoanRow
  BY DEF TermsInv, Granted, TypeOK
<1>2. PICK principal \in Int, terms \in Nat \ {0}, rateBps \in Int, items \in {schedules[l]} :
         /\ principal = loans[l].principal /\ terms = loans[l].terms
         /\ rateBps = loans[l].rateBps /\ items = schedules[l]
  <2>1. loans[l].terms \in Nat \ {0}
    BY <1>1 DEF LoanTerms, LoanRow
  <2>2. QED
    BY <1>1, <2>1 DEF LoanRow
<1>3. items = GenerateSchedule(principal, terms, rateBps)
  BY <1>1, <1>2 DEF LoanTerms
<1>4. PICK p, q : /\ p = [i \in DOMAIN items |-> items[i].due["principal"]]
                  /\ q = [i \in DOMAIN items |-> items[i].due["interest"]]
  OBVIOUS
<1>5. /\ SumFunction(p) = principal
      /\ SumFunction(q) = TotalInterest(principal, terms, rateBps)
  <2>1. PICK interest \in Int : interest = TotalInterest(principal, terms, rateBps)
    BY DEF TotalInterest
  <2>2. /\ DOMAIN items = 1..terms
        /\ \A i \in 1..terms :
              /\ items[i].due["principal"] = Instalment(principal, terms, i)
              /\ items[i].due["interest"] = Instalment(interest, terms, i)
    BY <1>3, <2>1, ScheduleOfInstalments
  <2>3. /\ DOMAIN p = 1..terms /\ \A i \in 1..terms : p[i] = Instalment(principal, terms, i)
        /\ DOMAIN q = 1..terms /\ \A i \in 1..terms : q[i] = Instalment(interest, terms, i)
    BY <1>4, <2>2
  <2>4. SumFunction(p) = principal
    BY <2>3, InstalmentsOfTotal
  <2>5. SumFunction(q) = interest
    BY <2>3, InstalmentsOfTotal
  <2>6. QED
    BY <2>1, <2>4, <2>5
<1>6. /\ loans[l].enabled = versions[loans[l].version].enabled
      /\ rateBps = IF versions[loans[l].version].enabled
                   THEN versions[loans[l].version].rateBps ELSE 0
  BY <1>1, <1>2 DEF LoanTerms, Taken
<1>7. TotalInterest(principal, terms, rateBps) =
         IF versions[loans[l].version].enabled
         THEN TotalInterest(principal, terms, versions[loans[l].version].rateBps) ELSE 0
  BY <1>6, InterestOfNone
<1>8. QED
  BY <1>1, <1>2, <1>4, <1>5, <1>6, <1>7 DEF LoanTerms, InForce

\* Whatever rule change overlaps an approval, a loan's terms are those of the
\* version it names, in effect when the approval asked, and its schedule repays
\* them (LoanApprovalService.approve, getSnapshotForLoan and generateSchedule).
THEOREM TermsAreThoseOfVersion == Spec => []TermsFromVersion
<1>1. Init => TermsInv
  BY DEF Init, TermsInv, AskedSound, Granted
<1>2. TypeOK /\ TermsInv => TermsFromVersion
  BY TermsMeaning
<1>3. ApprovalInv => TypeOK
  BY DEF ApprovalInv
<1>4. QED
  BY <1>1, <1>2, <1>3, TermsStep, ApprovalCorrect, PTL DEF Spec
=============================================================================
