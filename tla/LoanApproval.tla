---------------------------- MODULE LoanApproval ----------------------------
(***************************************************************************)
(* LoanApplicationService and LoanApprovalService (backend/src/loan),      *)
(* composed with GroupRules: applications are submitted, approved with a   *)
(* snapshot of the rules, or rejected, while the rules change.  One action *)
(* per awaited statement.  An application's id is the request that         *)
(* submitted it, a loan's id the request that approved it.  What becomes   *)
(* of a loan afterwards is LoanServicing, whose initial states are the     *)
(* loans made here.                                                        *)
(***************************************************************************)
EXTENDS GroupRules, LoanSchedule

CONSTANTS
    Request,        \* the calls of submit, approve and reject
    Application,    \* what submit may ask for: group, amount, terms
    MaxInFlight,    \* bound: requests being served at the same time
    NoApplication, NoLoan, NoCommand, NoSnapshot

Submit == [op : {"submit"}, group : Group, amount : Int, terms : Int]
Decide == [op : {"approve", "reject"}, group : Group, application : Request]
Command == Submit \cup Decide

ApplicationRow ==
    [group : Group, amount : Int, terms : Int,
     status : {"SUBMITTED", "APPROVED", "REJECTED"}]

\* What approve took from the version in effect.
Snapshot == [version : RuleChange, enabled : BOOLEAN, rateBps : Int]

\* interestEnabledSnapshot and interestRateBpsSnapshot are enabled and rateBps.
LoanRow ==
    [group : Group, application : Request, principal : Int, terms : Int,
     version : RuleChange, enabled : BOOLEAN, rateBps : Int, approvedAt : Nat]

ASSUME LoanApprovalAssumption ==
    /\ Application \subseteq Submit
    /\ MaxInFlight \in Nat
    /\ NoApplication \notin ApplicationRow
    /\ NoLoan \notin LoanRow /\ NoLoan \notin Request
    /\ NoCommand \notin Command
    /\ NoSnapshot \notin Snapshot

VARIABLES
    applications,   \* the table LoanApplication
    loans,          \* the table Loan
    schedules,      \* its LoanScheduleItem rows, as approval creates them
    trail,          \* LOAN_APPLICATION_... audit rows: the requests that wrote one
    pc, command,
    at,             \* at[r]: the instant for which approve r asks for the rules
    snapshot        \* snapshot[r]: what it got

loanVars == <<applications, loans, schedules, trail, pc, command, at, snapshot>>
vars == <<ruleVars, loanVars>>

Step == {"start", "creatingApplication", "application", "rules", "creatingLoan",
         "approving", "rejecting", "audit"}
Finished == {"done", "refused", "crashed"}
InFlight == {r \in Request : pc[r] \in Step}

Submitted == {a \in Request : applications[a] # NoApplication}
Granted == {l \in Request : loans[l] # NoLoan}
LoansOf(a) == {l \in Granted : loans[l].application = a}

TypeOK ==
    /\ RulesTypeOK
    /\ applications \in [Request -> ApplicationRow \cup {NoApplication}]
    /\ loans \in [Request -> LoanRow \cup {NoLoan}]
    /\ DOMAIN schedules = Request
    /\ \A l \in Granted : DOMAIN schedules[l] = 1..loans[l].terms
    /\ trail \in SUBSET Request
    /\ pc \in [Request -> {"idle"} \cup Step \cup Finished]
    /\ command \in [Request -> Command \cup {NoCommand}]
    /\ at \in [Request -> Nat]
    /\ snapshot \in [Request -> Snapshot \cup {NoSnapshot}]

Init ==
    /\ RulesInit
    /\ applications = [r \in Request |-> NoApplication]
    /\ loans = [r \in Request |-> NoLoan]
    /\ schedules = [r \in Request |-> <<>>]
    /\ trail = {}
    /\ pc = [r \in Request |-> "idle"]
    /\ command = [r \in Request |-> NoCommand]
    /\ at = [r \in Request |-> 0]
    /\ snapshot = [r \in Request |-> NoSnapshot]
-----------------------------------------------------------------------------
Goto(r, step) == pc' = [pc EXCEPT ![r] = step]

Arrive(r) ==
    /\ pc[r] = "idle"
    /\ Cardinality(InFlight) < MaxInFlight
    /\ \E c \in Application \cup {d \in Decide : d.application \in Submitted} :
          command' = [command EXCEPT ![r] = c]
    /\ Goto(r, "start")
    /\ UNCHANGED <<ruleVars, applications, loans, schedules, trail, at, snapshot>>

\* The permission, the group or the applicant's membership is refused.
TurnedAway(r) ==
    /\ pc[r] = "start"
    /\ Goto(r, "refused")
    /\ UNCHANGED <<ruleVars, applications, loans, schedules, trail, command, at, snapshot>>

\* Those checks passed; submit validates its amounts before it inserts.
Begin(r) ==
    /\ pc[r] = "start"
    /\ Goto(r, IF command[r].op # "submit" THEN "application"
               ELSE IF command[r].amount > 0 /\ command[r].terms > 0
               THEN "creatingApplication" ELSE "refused")
    /\ UNCHANGED <<ruleVars, applications, loans, schedules, trail, command, at, snapshot>>

CreateApplication(r) ==
    /\ pc[r] = "creatingApplication"
    /\ applications' = [applications EXCEPT ![r] =
          [group |-> command[r].group, amount |-> command[r].amount,
           terms |-> command[r].terms, status |-> "SUBMITTED"]]
    /\ Goto(r, "audit")
    /\ UNCHANGED <<ruleVars, loans, schedules, trail, command, at, snapshot>>

Decidable(r) ==
    /\ applications[command[r].application].group = command[r].group
    /\ applications[command[r].application].status = "SUBMITTED"

\* approve looks the application up and takes the time for which it asks the rules.
ReadForApproval(r) ==
    /\ pc[r] = "application" /\ command[r].op = "approve"
    /\ Goto(r, IF Decidable(r) THEN "rules" ELSE "refused")
    /\ at' = [at EXCEPT ![r] = clock]
    /\ UNCHANGED <<ruleVars, applications, loans, schedules, trail, command, snapshot>>

ReadForRejection(r) ==
    /\ pc[r] = "application" /\ command[r].op = "reject"
    /\ Goto(r, IF Decidable(r) THEN "rejecting" ELSE "refused")
    /\ UNCHANGED <<ruleVars, applications, loans, schedules, trail, command, at, snapshot>>

\* Defect: the configured rate is copied although interest is disabled.
TakenUnconditionally(v) ==
    [version |-> v, enabled |-> versions[v].enabled, rateBps |-> versions[v].rateBps]

\* interestRateBps = interestEnabled ? loanInterestRateBps : 0
Taken(v) ==
    [version |-> v, enabled |-> versions[v].enabled,
     rateBps |-> IF versions[v].enabled THEN versions[v].rateBps ELSE 0]

\* getSnapshotForLoan(group, now)
ReadRules(r) ==
    /\ pc[r] = "rules"
    /\ \E v \in GetSnapshotForLoan(command[r].group, at[r]) :
          IF v = NoVersion THEN Goto(r, "refused") /\ UNCHANGED snapshot
          ELSE /\ snapshot' = [snapshot EXCEPT ![r] = Taken(v)]
               /\ Goto(r, "creatingLoan")
    /\ UNCHANGED <<ruleVars, applications, loans, schedules, trail, command, at>>

\* Defect: no unique index on applicationId.
NeverGranted(a) == TRUE

FreeOfLoan(a) == LoansOf(a) = {}

\* The loan as approve writes it, from the application as it read it.
NewLoan(r) ==
    LET app == applications[command[r].application]
    IN  [group |-> command[r].group, application |-> command[r].application,
         principal |-> app.amount, terms |-> app.terms, version |-> snapshot[r].version,
         enabled |-> snapshot[r].enabled, rateBps |-> snapshot[r].rateBps,
         approvedAt |-> clock]

\* loan.create with its schedule: one statement; applicationId is unique.
CreateLoan(r) ==
    /\ pc[r] = "creatingLoan"
    /\ IF FreeOfLoan(command[r].application)
       THEN /\ loans' = [loans EXCEPT ![r] = NewLoan(r)]
            /\ schedules' = [schedules EXCEPT ![r] =
                  GenerateSchedule(NewLoan(r).principal, NewLoan(r).terms, NewLoan(r).rateBps)]
            /\ Goto(r, "approving")
       ELSE Goto(r, "refused") /\ UNCHANGED <<loans, schedules>>
    /\ UNCHANGED <<ruleVars, applications, trail, command, at, snapshot>>

\* The status that the request writes, whatever it is by now.
SetStatus(r, status) ==
    /\ applications' = [applications EXCEPT ![command[r].application].status = status]
    /\ Goto(r, "audit")
    /\ UNCHANGED <<ruleVars, loans, schedules, trail, command, at, snapshot>>

\* Defect: approve writes the status that it has read.
ApproveForgotten(r) == pc[r] = "approving" /\ SetStatus(r, "SUBMITTED")

Approve(r) == pc[r] = "approving" /\ SetStatus(r, "APPROVED")

Reject(r) == pc[r] = "rejecting" /\ SetStatus(r, "REJECTED")

\* The audit row of the request; its notifications are Notifications.
Audit(r, op) ==
    /\ pc[r] = "audit" /\ command[r].op = op
    /\ trail' = trail \cup {r}
    /\ Goto(r, "done")
    /\ UNCHANGED <<ruleVars, applications, loans, schedules, command, at, snapshot>>

AuditSubmission(r) == Audit(r, "submit")
AuditApproval(r) == Audit(r, "approve")
AuditRejection(r) == Audit(r, "reject")

Crash(r) ==
    /\ pc[r] \in Step
    /\ Goto(r, "crashed")
    /\ UNCHANGED <<ruleVars, applications, loans, schedules, trail, command, at, snapshot>>

LoanNext ==
    \E r \in Request :
        \/ Arrive(r) \/ TurnedAway(r) \/ Begin(r) \/ CreateApplication(r)
        \/ ReadForApproval(r) \/ ReadForRejection(r) \/ ReadRules(r) \/ CreateLoan(r)
        \/ Approve(r) \/ Reject(r)
        \/ AuditSubmission(r) \/ AuditApproval(r) \/ AuditRejection(r) \/ Crash(r)

Next == LoanNext \/ (RulesNext /\ UNCHANGED loanVars)

Spec == Init /\ [][Next]_vars
-----------------------------------------------------------------------------
\* Who decides application a, and how far it got.
Deciding(a, op, steps) ==
    {r \in Request : /\ command[r] # NoCommand /\ command[r].op = op
                     /\ command[r].application = a /\ pc[r] \in steps}

\* At most one loan is made of an application, and of its own group, amount
\* and terms, however many approvals overlap (Loan.applicationId is unique;
\* the status check alone would let two approvals through).
OneLoanPerApplication ==
    \A l \in Granted :
        LET a == loans[l].application
        IN  /\ LoansOf(a) = {l}
            /\ applications[a] # NoApplication
            /\ applications[a].group = loans[l].group
            /\ applications[a].amount = loans[l].principal
            /\ applications[a].terms = loans[l].terms

\* What the treasurer's list of a status holds.
ListApplicationsByGroup(g, status) ==
    {a \in Submitted : applications[a].group = g /\ applications[a].status = status}

\* A loan means an application in the APPROVED list of its group, unless the
\* request that made it has still to write that or died before, or a rejection
\* overlapped it.  Every application of that list has its loan, and whatever has
\* left the SUBMITTED list has an audited decision, or one that has yet to be
\* audited or died before.
StatusFollowsLoan ==
    \A g \in Group :
        /\ \A a \in ListApplicationsByGroup(g, "APPROVED") : LoansOf(a) # {}
        /\ \A l \in Granted : loans[l].group = g =>
              LET a == loans[l].application IN
              \/ a \in ListApplicationsByGroup(g, "APPROVED")
              \/ pc[l] \in {"approving", "crashed"}
              \/ Deciding(a, "reject", {"audit", "done", "crashed"}) # {}
        /\ \A a \in ListApplicationsByGroup(g, "APPROVED")
                     \cup ListApplicationsByGroup(g, "REJECTED") :
              LET op == IF applications[a].status = "APPROVED" THEN "approve" ELSE "reject" IN
              \/ Deciding(a, op, {"done"}) \cap trail # {}
              \/ Deciding(a, op, {"audit", "crashed"}) # {}

\* A loan's terms are those of the version it names, a version of its own
\* group that was in effect when the approval asked; its schedule repays the
\* principal and carries interest only if that version had it enabled.
TermsFromVersion ==
    \A l \in Granted :
        LET loan == loans[l]
            v == loan.version
            due(part) == SumFunction([i \in DOMAIN schedules[l] |-> schedules[l][i].due[part]])
        IN  /\ v \in VersionsOf(loan.group)
            /\ versions[v].from <= loan.approvedAt
            /\ loan.enabled = versions[v].enabled
            /\ due("principal") = loan.principal
            /\ due("interest") = IF versions[v].enabled
                                 THEN TotalInterest(loan.principal, loan.terms, versions[v].rateBps)
                                 ELSE 0

=============================================================================
