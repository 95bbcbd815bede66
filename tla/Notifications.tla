--------------------------- MODULE Notifications ---------------------------
(***************************************************************************)
(* backend/src/notifications: the triggers that queue notifications, their *)
(* sending and manual retry (NotificationService), and the delivery        *)
(* reports of the SMS provider (SmsWebhookService), which may be late,     *)
(* repeated, lost or out of order.  A trigger is started by another        *)
(* service without being awaited and swallows what goes wrong; a retry is  *)
(* an administrator's request.  One action per awaited statement; the      *)
(* statements that only read tables nothing here writes are taken together *)
(* with the next one.  The n-th notification of trigger c is <<c, n>> and  *)
(* the k-th message the provider took for notification i is <<i, k>>.      *)
(* E-mail is left out: no trigger uses that channel.                       *)
(***************************************************************************)
EXTENDS Integers, SequencesExt

CONSTANTS
    Member,
    MemberRow,      \* MemberRow[m]: has a user, has a phone, opted out, is active
    Approver,       \* the members of the chair and treasurer assignments
    ScheduleItem,   \* instalments: loan, borrower, overdue, status, superseded
    SmsNotificationsEnabled, SmsReceiptConfirmationEnabled, \* of the rules
    TriggerRun,     \* the runs of triggers in one behaviour
    Retry,          \* the retry requests
    Trigger,        \* what triggers are started, and about whom
    Callback,       \* the webhook requests of one behaviour
    MaxPlan,        \* bound: notifications of one trigger
    MaxInFlight,    \* bound: calls and callbacks being served at the same time
    NoMember, NoRow, NoMessage, NoCommand, NoReport, NoId

MAX_RETRIES == 3

Call == TriggerRun \cup Retry
Id == TriggerRun \X (1..MaxPlan)
Message == Id \X (Nat \ {0})

TemplateKey == {"receipt_confirmation", "approval_required", "approval_decision",
                "overdue_repayment_reminder", "meeting_reminder"}
Status == {"QUEUED", "SENT", "DELIVERED", "FAILED", "CANCELLED"}

NotificationRow ==
    [member : Member \cup {NoMember}, channel : {"IN_APP", "SMS"}, templateKey : TemplateKey,
     status : Status, providerMessageId : Message \cup {NoMessage}, retryCount : Nat]

Recipient == [member : Member \cup {NoMember}, channel : {"IN_APP", "SMS"}]

\* Receipts and decisions are about a member, the others about the group.
TriggerCommand ==
    [key : {"receipt_confirmation", "approval_decision"}, member : Member]
    \cup [key : TemplateKey \ {"receipt_confirmation", "approval_decision"}, member : {NoMember}]
RetryCommand == [id : Id]

\* What the provider reports of a message: on its way, or its fate.
Fate == {"DELIVERED", "UNDELIVERABLE"}
SmsWebhookPayload == [message : Message, status : {"ACCEPTED"} \cup Fate]

ASSUME NotificationsAssumption ==
    /\ MemberRow \in [Member -> [user : BOOLEAN, phone : BOOLEAN, optOut : BOOLEAN,
                                 active : BOOLEAN]]
    /\ Approver \in Seq(Member \cup {NoMember})
    /\ SmsNotificationsEnabled \in BOOLEAN /\ SmsReceiptConfirmationEnabled \in BOOLEAN
    /\ IsFiniteSet(Member) /\ IsFiniteSet(ScheduleItem)
    /\ \A item \in ScheduleItem : item.borrower \in Member
    /\ Trigger \subseteq TriggerCommand
    /\ MaxPlan \in Nat /\ MaxInFlight \in Nat
    /\ TriggerRun \cap Retry = {} /\ Call \cap Callback = {}
    /\ NoCommand \notin TriggerCommand \cup RetryCommand
    /\ NoMember \notin Member /\ NoRow \notin NotificationRow /\ NoMessage \notin Message

VARIABLES
    notifications,  \* the table Notification
    messages,       \* messages[i]: the fates of the messages taken for i
    trail,          \* NOTIFICATION_RETRY_REQUESTED and webhook audit rows
    pc,             \* what each call or callback does next, or how it ended
    command,        \* what a call was asked to do
    turn,           \* turn[c]: which notification of its plan a trigger is at
    result,         \* what c has read of the notification, and dispatch's answer
    report          \* report[w]: the payload of a callback, the row it found

callVars == <<command, turn, result>>
vars == <<notifications, messages, trail, pc, callVars, report>>

SendStep == {"reading", "template", "failing", "preference", "cancelling",
             "dispatching", "recordingSent", "recordingFailure"}
CallStep == {"queueing", "checking", "resetting", "auditingRetry"} \cup SendStep
CallbackStep == {"finding", "updating", "auditing"}
\* gaveUp: a trigger's exception was logged, a retry's was returned.
Finished == {"done", "gaveUp", "refused", "dropped", "crashed"}
InFlight == {x \in Call \cup Callback : pc[x] \in CallStep \cup CallbackStep}

Stored == {i \in Id : notifications[i] # NoRow}

Nothing == [retryCount |-> 0, message |-> NoMessage]

TypeOK ==
    /\ notifications \in [Id -> NotificationRow \cup {NoRow}]
    /\ messages \in [Id -> Seq(Fate)]
    /\ trail \in SUBSET (Call \cup Callback)
    /\ pc \in [Call \cup Callback -> {"idle"} \cup CallStep \cup CallbackStep \cup Finished]
    /\ command \in [Call -> TriggerCommand \cup RetryCommand \cup {NoCommand}]
    /\ turn \in [Call -> Nat \ {0}]
    /\ result \in [Call -> [retryCount : Nat, message : Message \cup {NoMessage}]]
    /\ report \in [Callback -> [payload : SmsWebhookPayload, found : Id \cup {NoId}]
                               \cup {NoReport}]

Init ==
    /\ notifications = [i \in Id |-> NoRow]
    /\ messages = [i \in Id |-> <<>>]
    /\ trail = {}
    /\ pc = [x \in Call \cup Callback |-> "idle"]
    /\ command = [c \in Call |-> NoCommand]
    /\ turn = [c \in Call |-> 1]
    /\ result = [c \in Call |-> Nothing]
    /\ report = [w \in Callback |-> NoReport]
-----------------------------------------------------------------------------
\* Whom a trigger writes to, and on which channels.  A recipient that is a
\* user gets an in-app notification first; the SMS follows for a member.
ToMember(m) ==
    (IF MemberRow[m].user THEN <<[member |-> m, channel |-> "IN_APP"]>> ELSE <<>>)
        \o <<[member |-> m, channel |-> "SMS"]>>

\* getApproverUserIds: a user whose membership ended has no memberId.
ToApprover(m) ==
    IF m # NoMember /\ MemberRow[m].active THEN ToMember(m)
    ELSE <<[member |-> NoMember, channel |-> "IN_APP"]>>

ApprovalRequired == FlattenSeq([n \in DOMAIN Approver |-> ToApprover(Approver[n])])

\* One reminder for each loan with an instalment overdue; PART_PAID is not DUE.
Overdue == {item \in ScheduleItem : item.overdue /\ item.status = "DUE" /\ ~item.superseded}
Late == {[loan |-> item.loan, borrower |-> item.borrower] : item \in Overdue}
EnqueueOverdueReminders ==
    LET late == SetToSeq(Late)
    IN  FlattenSeq([n \in DOMAIN late |-> ToMember(late[n].borrower)])

EnqueueMeetingReminders ==
    LET members == SetToSeq({m \in Member : MemberRow[m].active})
    IN  FlattenSeq([n \in DOMAIN members |-> ToMember(members[n])])

\* contributionReceipt and approvalDecision write to the member concerned.
Plan(c) ==
    CASE command[c].key = "approval_required" -> ApprovalRequired
      [] command[c].key = "overdue_repayment_reminder" -> EnqueueOverdueReminders
      [] command[c].key = "meeting_reminder" -> EnqueueMeetingReminders
      [] OTHER -> ToMember(command[c].member)

\* Defect: receipts are not gated by the group's own switch.
IsChannelAllowedAllTemplates(row) ==
    \/ row.channel # "SMS"
    \/ /\ SmsNotificationsEnabled
       /\ row.member # NoMember => ~MemberRow[row.member].optOut

\* NotificationPreferenceService.isChannelAllowed
IsChannelAllowed(row) ==
    \/ row.channel # "SMS"
    \/ /\ SmsNotificationsEnabled
       /\ row.templateKey = "receipt_confirmation" => SmsReceiptConfirmationEnabled
       /\ row.member # NoMember => ~MemberRow[row.member].optOut

Goto(x, step) == pc' = [pc EXCEPT ![x] = step]

\* The notification that call c works on.
Target(c) == IF c \in Retry THEN command[c].id ELSE <<c, turn[c]>>

SetStatus(i, status) == notifications' = [notifications EXCEPT ![i].status = status]

\* Whatever call or callback x has read is gone when it ends.
Leave(x, how) ==
    /\ Goto(x, how)
    /\ IF x \in Call
       THEN result' = [result EXCEPT ![x] = Nothing] /\ UNCHANGED report
       ELSE report' = [report EXCEPT ![x] = NoReport] /\ UNCHANGED result

\* send returns: a trigger turns to its next notification, a retry is done.
SendReturns(c) ==
    /\ IF c \in Retry THEN Goto(c, "done") /\ UNCHANGED turn
       ELSE Goto(c, "queueing") /\ turn' = [turn EXCEPT ![c] = @ + 1]
    /\ result' = [result EXCEPT ![c] = Nothing]
    /\ UNCHANGED command
-----------------------------------------------------------------------------
\* A service starts a trigger.
StartTrigger(c) ==
    /\ pc[c] = "idle"
    /\ Cardinality(InFlight) < MaxInFlight
    /\ \E t \in Trigger : command' = [command EXCEPT ![c] = t]
    /\ Goto(c, "queueing")
    /\ UNCHANGED <<notifications, messages, trail, turn, result, report>>

\* An administrator asks for a retry.
RequestRetry(c) ==
    /\ pc[c] = "idle"
    /\ Cardinality(InFlight) < MaxInFlight
    /\ \E i \in Stored : command' = [command EXCEPT ![c] = [id |-> i]]
    /\ Goto(c, "checking")
    /\ UNCHANGED <<notifications, messages, trail, turn, result, report>>

\* The row of the notification that the plan has next.
Enqueue(c) ==
    \E to \in Recipient :
        /\ to = Plan(c)[turn[c]]
        /\ notifications' = [notifications EXCEPT ![Target(c)] =
               [member |-> to.member, channel |-> to.channel, templateKey |-> command[c].key,
                status |-> "QUEUED", providerMessageId |-> NoMessage, retryCount |-> 0]]

\* Defect: a trigger goes on only while its notifications are sent.
QueueWhileSent(c) ==
    /\ pc[c] = "queueing"
    /\ IF turn[c] > 1 => notifications[<<c, turn[c] - 1>>].status = "SENT"
       THEN \/ turn[c] <= MaxPlan /\ turn[c] \in DOMAIN Plan(c) /\ Enqueue(c) /\ Goto(c, "reading")
            \/ turn[c] \notin DOMAIN Plan(c) /\ Goto(c, "done") /\ UNCHANGED notifications
       ELSE Goto(c, "done") /\ UNCHANGED notifications
    /\ UNCHANGED <<messages, trail, callVars, report>>

\* queue: the next notification of the plan, if there is one.
Queue(c) ==
    /\ pc[c] = "queueing"
    /\ \/ turn[c] <= MaxPlan /\ turn[c] \in DOMAIN Plan(c) /\ Enqueue(c) /\ Goto(c, "reading")
       \/ turn[c] \notin DOMAIN Plan(c) /\ Goto(c, "done") /\ UNCHANGED notifications
    /\ UNCHANGED <<messages, trail, callVars, report>>

\* send reads the row, and returns unless it is QUEUED or FAILED.
ReadNotification(c) ==
    /\ pc[c] = "reading"
    /\ IF notifications[Target(c)].status \in {"QUEUED", "FAILED"}
       THEN /\ result' = [result EXCEPT ![c].retryCount = notifications[Target(c)].retryCount]
            /\ Goto(c, "template")
            /\ UNCHANGED <<command, turn>>
       ELSE SendReturns(c)
    /\ UNCHANGED <<notifications, messages, trail, report>>

\* Defect: send returns without a word when there is no template.
ResolveTemplateSilently(c) ==
    /\ pc[c] = "template"
    /\ \/ SendReturns(c)
       \/ Goto(c, "preference") /\ UNCHANGED callVars
    /\ UNCHANGED <<notifications, messages, trail, report>>

\* resolveTemplate and render: templates are set up outside this program.
ResolveTemplate(c) ==
    /\ pc[c] = "template"
    /\ Goto(c, "failing") \/ Goto(c, "preference")
    /\ UNCHANGED <<notifications, messages, trail, callVars, report>>

\* markFailed; retryCount stays.
MarkFailed(c) ==
    /\ pc[c] = "failing"
    /\ SetStatus(Target(c), "FAILED")
    /\ SendReturns(c)
    /\ UNCHANGED <<messages, trail, report>>

\* No trigger sets mandatory, so the preferences are always looked at.
CheckPreference(c) ==
    /\ pc[c] = "preference"
    /\ Goto(c, IF IsChannelAllowed(notifications[Target(c)]) THEN "dispatching" ELSE "cancelling")
    /\ UNCHANGED <<notifications, messages, trail, callVars, report>>

Cancel(c) ==
    /\ pc[c] = "cancelling"
    /\ SetStatus(Target(c), "CANCELLED")
    /\ SendReturns(c)
    /\ UNCHANGED <<messages, trail, report>>

HasPhone(row) == row.member # NoMember /\ MemberRow[row.member].phone

\* The provider takes an SMS for notification i; its fate is decided there.
Accepts(i) == \E fate \in Fate : messages' = [messages EXCEPT ![i] = Append(@, fate)]

\* InAppDispatcher always succeeds and has no message.
DispatchInApp(c) ==
    /\ pc[c] = "dispatching"
    /\ notifications[Target(c)].channel = "IN_APP"
    /\ Goto(c, "recordingSent")
    /\ UNCHANGED <<notifications, messages, trail, callVars, report>>

\* SmsDispatcher and the provider: taken, or refused.
DispatchSms(c) ==
    /\ pc[c] = "dispatching"
    /\ notifications[Target(c)].channel = "SMS"
    /\ \/ /\ HasPhone(notifications[Target(c)])
          /\ Accepts(Target(c))
          /\ result' = [result EXCEPT ![c].message =
                           <<Target(c), Len(messages[Target(c)]) + 1>>]
          /\ Goto(c, "recordingSent")
       \/ /\ Goto(c, "recordingFailure")
          /\ UNCHANGED <<messages, result>>
    /\ UNCHANGED <<notifications, trail, command, turn, report>>

\* The call to the provider throws, whether or not the SMS went out.
DispatchThrows(c) ==
    /\ pc[c] = "dispatching"
    /\ HasPhone(notifications[Target(c)]) /\ notifications[Target(c)].channel = "SMS"
    /\ Accepts(Target(c)) \/ UNCHANGED messages
    /\ Leave(c, "gaveUp")
    /\ UNCHANGED <<notifications, trail, command, turn>>

RecordSent(c) ==
    /\ pc[c] = "recordingSent"
    /\ notifications' = [notifications EXCEPT
           ![Target(c)].status = "SENT",
           ![Target(c)].providerMessageId =
               IF result[c].message = NoMessage THEN @ ELSE result[c].message]
    /\ SendReturns(c)
    /\ UNCHANGED <<messages, trail, report>>

RecordFailure(c) ==
    /\ pc[c] = "recordingFailure"
    /\ LET retryCount == result[c].retryCount + 1
       IN  notifications' = [notifications EXCEPT
               ![Target(c)].retryCount = retryCount,
               ![Target(c)].status = IF retryCount >= MAX_RETRIES THEN "FAILED" ELSE "QUEUED"]
    /\ SendReturns(c)
    /\ UNCHANGED <<messages, trail, report>>

\* retry wants a FAILED notification with retries left.
CheckRetry(c) ==
    /\ pc[c] = "checking"
    /\ LET row == notifications[Target(c)]
       IN  Goto(c, IF row.status = "FAILED" /\ row.retryCount < MAX_RETRIES
                   THEN "resetting" ELSE "refused")
    /\ UNCHANGED <<notifications, messages, trail, callVars, report>>

Reset(c) ==
    /\ pc[c] = "resetting"
    /\ SetStatus(Target(c), "QUEUED")
    /\ Goto(c, "auditingRetry")
    /\ UNCHANGED <<messages, trail, callVars, report>>

AuditRetry(c) ==
    /\ pc[c] = "auditingRetry"
    /\ trail' = trail \cup {c}
    /\ Goto(c, "reading")
    /\ UNCHANGED <<notifications, messages, callVars, report>>
-----------------------------------------------------------------------------
\* The provider reports on a message that it took, in any order and number.
ReportArrives(w) ==
    /\ pc[w] = "idle"
    /\ Cardinality(InFlight) < MaxInFlight
    /\ \E i \in Id : \E k \in DOMAIN messages[i] :
         \E status \in {"ACCEPTED", messages[i][k]} :
            report' = [report EXCEPT ![w] =
                [payload |-> [message |-> <<i, k>>, status |-> status], found |-> NoId]]
    /\ Goto(w, "finding")
    /\ UNCHANGED <<notifications, messages, trail, callVars>>

\* findFirst by providerMessageId; an unknown message is accepted and dropped,
\* and so is one whose signature is invalid.
FindNotification(w) ==
    /\ pc[w] = "finding"
    /\ \/ Leave(w, "dropped")
       \/ \E i \in Stored :
            /\ notifications[i].providerMessageId = report[w].payload.message
            /\ report' = [report EXCEPT ![w].found = i]
            /\ Goto(w, "updating")
            /\ UNCHANGED result
    /\ UNCHANGED <<notifications, messages, trail, command, turn>>

\* Defect: what the provider accepted counts as delivered.
MapAcceptedToDelivered(status) == IF status = "UNDELIVERABLE" THEN "FAILED" ELSE "DELIVERED"

MapToInternalStatus(status) ==
    CASE status = "DELIVERED" -> "DELIVERED"
      [] status = "UNDELIVERABLE" -> "FAILED"
      [] OTHER -> "SENT"

\* The update does not look at the status that is there.
ApplyReport(w) ==
    /\ pc[w] = "updating"
    /\ SetStatus(report[w].found, MapToInternalStatus(report[w].payload.status))
    /\ Goto(w, "auditing")
    /\ UNCHANGED <<messages, trail, callVars, report>>

AuditReport(w) ==
    /\ pc[w] = "auditing"
    /\ trail' = trail \cup {w}
    /\ Leave(w, "done")
    /\ UNCHANGED <<notifications, messages, command, turn>>

Crash(x) ==
    /\ pc[x] \in CallStep \cup CallbackStep
    /\ Leave(x, "crashed")
    /\ UNCHANGED <<notifications, messages, trail, command, turn>>

Send(c) ==
    \/ ReadNotification(c) \/ ResolveTemplate(c) \/ MarkFailed(c) \/ CheckPreference(c)
    \/ Cancel(c) \/ DispatchInApp(c) \/ DispatchSms(c) \/ DispatchThrows(c)
    \/ RecordSent(c) \/ RecordFailure(c)

Advance(c) == Queue(c) \/ Send(c) \/ CheckRetry(c) \/ Reset(c) \/ AuditRetry(c)

Handle(w) == FindNotification(w) \/ ApplyReport(w) \/ AuditReport(w)

Next ==
    \/ \E c \in TriggerRun : StartTrigger(c)
    \/ \E c \in Retry : RequestRetry(c)
    \/ \E c \in Call : Advance(c)
    \/ \E w \in Callback : ReportArrives(w) \/ Handle(w)
    \/ \E x \in Call \cup Callback : Crash(x)

Spec == Init /\ [][Next]_vars

\* What was started goes on: an awaited promise settles and resumes its call.
FairSpec == Spec /\ \A c \in Call : WF_vars(Advance(c))
-----------------------------------------------------------------------------
\* The status of an SMS is earned: SENT means that the provider took it, and
\* DELIVERED that it delivered one of the messages of this notification,
\* whatever reports are repeated, late or overtake a retry.
StatusIsEarned ==
    \A i \in Stored :
        notifications[i].channel = "SMS" =>
            /\ notifications[i].status \in {"SENT", "DELIVERED"} => messages[i] # <<>>
            /\ notifications[i].status = "DELIVERED" => Contains(messages[i], "DELIVERED")

\* No SMS goes out against the group's switches or the member's wish, on the
\* first attempt or on a retry.
NoSmsAgainstWill ==
    \A i \in Stored :
        messages[i] # <<>> =>
            /\ notifications[i].channel = "SMS"
            /\ SmsNotificationsEnabled
            /\ ~MemberRow[notifications[i].member].optOut
            /\ notifications[i].templateKey = "receipt_confirmation" => SmsReceiptConfirmationEnabled

Untried(i) ==
    /\ i \in Stored
    /\ notifications[i].status = "QUEUED"
    /\ notifications[i].retryCount = 0
    /\ messages[i] = <<>>

\* A call that worked on i has stopped there and will not go on.
StoppedAt(i) ==
    \E c \in Call : /\ command[c] # NoCommand /\ Target(c) = i
                    /\ pc[c] \in {"crashed", "gaveUp"}

WorkedOn(i) == \E c \in Call : /\ command[c] # NoCommand /\ Target(c) = i
                              /\ pc[c] \in CallStep

\* A trigger that ran to its end wrote to everyone of its plan, on every
\* channel: one recipient that cannot be reached does not cost the others.
TriggerCompletes ==
    \A c \in TriggerRun :
        pc[c] = "done" =>
            \A n \in DOMAIN Plan(c) :
                /\ <<c, n>> \in Stored
                /\ Untried(<<c, n>>) => WorkedOn(<<c, n>>) \/ StoppedAt(<<c, n>>)

\* Every queued notification is tried, cancelled or marked as failed, unless
\* a call stopped at it.
QueuedIsTried ==
    \A i \in Id : Untried(i) ~> (~Untried(i) \/ StoppedAt(i))

=============================================================================
