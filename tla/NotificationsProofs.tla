------------------------- MODULE NotificationsProofs -------------------------
(***************************************************************************)
(* Theorems about Notifications, for every set of members, triggers,       *)
(* retries and delivery reports.  NotificationInv says what the rows and   *)
(* the messages have to do with each other, TriggerInv who still works on  *)
(* what is queued.  Liveness stays with the model checker.                 *)
(***************************************************************************)
EXTENDS Notifications, FiniteSetTheorems, TLAPS

USE NotificationsAssumption

-----------------------------------------------------------------------------
Report == [payload : SmsWebhookPayload, found : Id \cup {NoId}]

\* The provider took message m, which was sent for notification i.
TakenFor(i, m) == \E k \in DOMAIN messages[i] : m = <<i, k>>

\* What is stored under i, and what the provider took for it.
RowSound(i) ==
    IF i \in Stored
    THEN /\ notifications[i].providerMessageId # NoMessage =>
               TakenFor(i, notifications[i].providerMessageId)
         /\ notifications[i].channel = "SMS" =>
               /\ notifications[i].status \in {"SENT", "DELIVERED"} => messages[i] # <<>>
               /\ notifications[i].status = "DELIVERED" =>
                     \E k \in DOMAIN messages[i] : messages[i][k] = "DELIVERED"
         /\ messages[i] # <<>> =>
               /\ notifications[i].channel = "SMS" /\ IsChannelAllowed(notifications[i])
               /\ notifications[i].member # NoMember
    ELSE messages[i] = <<>>

\* What the statements of a call rely on from the earlier ones.
CallSound(c) ==
    /\ pc[c] \in {"idle"} \cup CallStep \cup Finished
    /\ pc[c] # "idle" => IF c \in Retry THEN command[c] \in RetryCommand /\ command[c].id \in Stored
                         ELSE command[c] \in TriggerCommand
    /\ pc[c] = "queueing" => c \in TriggerRun
    /\ pc[c] \in {"checking", "resetting", "auditingRetry"} => c \in Retry
    /\ pc[c] \in CallStep \ {"queueing"} => Target(c) \in Stored
    /\ c \in TriggerRun =>
          \A i \in Id : i[1] = c /\ (i[2] > turn[c] \/ (i[2] = turn[c] /\ pc[c] \in {"idle", "queueing"}))
                        => i \notin Stored
    /\ pc[c] = "dispatching" => IsChannelAllowed(notifications[Target(c)])
    /\ pc[c] = "recordingSent" =>
          IF result[c].message = NoMessage THEN notifications[Target(c)].channel = "IN_APP"
          ELSE TakenFor(Target(c), result[c].message)
    /\ pc[c] # "recordingSent" => result[c].message = NoMessage

ReportSound(w) ==
    /\ pc[w] \in {"idle"} \cup CallbackStep \cup Finished
    /\ pc[w] \in CallbackStep =>
          /\ report[w] \in Report
          /\ \E i \in Id, k \in Nat \ {0} :
                /\ report[w].payload.message = <<i, k>> /\ k \in DOMAIN messages[i]
                /\ report[w].payload.status \in {"ACCEPTED", messages[i][k]}
                /\ pc[w] = "updating" => report[w].found = i /\ i \in Stored

NotificationInv ==
    /\ TypeOK
    /\ \A i \in Id : RowSound(i)
    /\ \A c \in Call : CallSound(c)
    /\ \A w \in Callback : ReportSound(w)

-----------------------------------------------------------------------------
LEMMA StoredRow ==
    ASSUME TypeOK, NEW i \in Stored
    PROVE  i \in Id /\ notifications[i] \in NotificationRow
BY DEF TypeOK, Stored

\* The notification that a call works on is one of its run, or the retried one.
LEMMA TargetType ==
    ASSUME TypeOK, NEW c \in Call, CallSound(c), pc[c] \in CallStep \ {"queueing"}
    PROVE  Target(c) \in Id /\ Target(c) \in Stored /\ notifications[Target(c)] \in NotificationRow
BY StoredRow DEF CallSound

\* A change of what a row says, but not of whom it is for.
Rewrites(i) ==
    /\ i \in Stored
    /\ notifications' \in [Id -> NotificationRow \cup {NoRow}]
    /\ notifications'[i] \in NotificationRow
    /\ notifications'[i].channel = notifications[i].channel
    /\ notifications'[i].member = notifications[i].member
    /\ notifications'[i].templateKey = notifications[i].templateKey
    /\ \A j \in Id : j # i => notifications'[j] = notifications[j]

LEMMA StatusSet ==
    ASSUME TypeOK, NEW i \in Stored, NEW status \in Status, SetStatus(i, status)
    PROVE  /\ Rewrites(i) /\ notifications'[i].status = status
           /\ notifications'[i].providerMessageId = notifications[i].providerMessageId
<1>1. i \in Id /\ notifications[i] \in NotificationRow
  BY StoredRow
<1>2. PICK row : row = [notifications[i] EXCEPT !.status = status]
  OBVIOUS
<1>3. /\ row \in NotificationRow /\ row.status = status
      /\ row.channel = notifications[i].channel /\ row.member = notifications[i].member
      /\ row.templateKey = notifications[i].templateKey
      /\ row.providerMessageId = notifications[i].providerMessageId
  BY <1>1, <1>2 DEF NotificationRow
<1>4. notifications' = [notifications EXCEPT ![i] = row]
  BY <1>1, <1>2 DEF SetStatus, TypeOK
<1>5. QED
  BY <1>1, <1>3, <1>4 DEF Rewrites, TypeOK

\* Stored rows stay, what they allow stays, messages only grow.
Keeps ==
    /\ Stored \subseteq Stored'
    /\ \A i \in Stored : /\ notifications'[i].channel = notifications[i].channel
                         /\ IsChannelAllowed(notifications'[i]) <=> IsChannelAllowed(notifications[i])
    /\ \A i \in Id : /\ DOMAIN messages[i] \subseteq DOMAIN messages'[i]
                     /\ \A k \in DOMAIN messages[i] : messages'[i][k] = messages[i][k]

\* A call keeps what it relies on while others only keep and store elsewhere.
LEMMA CallKept ==
    ASSUME TypeOK, NEW c \in Call, CallSound(c), Keeps,
           pc'[c] = pc[c], command'[c] = command[c], turn'[c] = turn[c], result'[c] = result[c],
           \A i \in Stored' : i \in Stored \/ i[1] # c
    PROVE  CallSound(c)'
<1>1. Target(c)' = Target(c)
  BY DEF Target
<1>2. pc[c] \in CallStep \ {"queueing"} => Target(c) \in Stored /\ Target(c) \in Id
  BY DEF CallSound, Stored
<1>3. pc[c] = "dispatching" => IsChannelAllowed(notifications'[Target(c)])
  BY <1>2 DEF Keeps, CallSound, CallStep, SendStep
<1>4. pc[c] = "recordingSent" =>
         IF result[c].message = NoMessage THEN notifications'[Target(c)].channel = "IN_APP"
         ELSE \E k \in DOMAIN messages'[Target(c)] : result[c].message = <<Target(c), k>>
  BY <1>2 DEF Keeps, CallSound, TakenFor, CallStep, SendStep
<1>5. \A i : IsChannelAllowed(notifications[i])' <=> IsChannelAllowed(notifications'[i])
  BY DEF IsChannelAllowed
<1>6. c \in TriggerRun =>
          \A i \in Id : i[1] = c /\ (i[2] > turn[c] \/ (i[2] = turn[c] /\ pc[c] \in {"idle", "queueing"}))
                        => i \notin Stored'
  BY DEF CallSound
<1>7. pc[c] # "idle" => IF c \in Retry THEN command[c] \in RetryCommand /\ command[c].id \in Stored'
                        ELSE command[c] \in TriggerCommand
  BY DEF CallSound, Keeps
<1>8. pc[c] \in CallStep \ {"queueing"} => Target(c) \in Stored'
  BY <1>2 DEF Keeps
<1>9. IsChannelAllowed(notifications[Target(c)])' <=> IsChannelAllowed(notifications'[Target(c)])
  BY <1>1 DEF IsChannelAllowed
<1>10. QED
  BY <1>1, <1>3, <1>4, <1>6, <1>7, <1>8, <1>9 DEF CallSound, TakenFor

LEMMA ReportKept ==
    ASSUME TypeOK, NEW w \in Callback, ReportSound(w), Keeps,
           pc'[w] = pc[w], report'[w] = report[w]
    PROVE  ReportSound(w)'
<1>1. CASE pc[w] \in CallbackStep
  <2>1. PICK i \in Id, k \in Nat \ {0} :
           /\ report[w].payload.message = <<i, k>> /\ k \in DOMAIN messages[i]
           /\ report[w].payload.status \in {"ACCEPTED", messages[i][k]}
           /\ pc[w] = "updating" => report[w].found = i /\ i \in Stored
    BY <1>1 DEF ReportSound
  <2>2. k \in DOMAIN messages'[i] /\ messages'[i][k] = messages[i][k]
    BY <2>1 DEF Keeps
  <2>3. pc[w] = "updating" => i \in Stored'
    BY <2>1 DEF Keeps
  <2>4. QED
    BY <2>1, <2>2, <2>3 DEF ReportSound
<1>2. QED
  BY <1>1 DEF ReportSound

LEMMA Unwritten ==
    ASSUME TypeOK, UNCHANGED <<notifications, messages>>
    PROVE  Keeps /\ Stored' = Stored
BY DEF Keeps, Stored, IsChannelAllowed

LEMMA RewritesKeep ==
    ASSUME TypeOK, NEW i \in Id, Rewrites(i), UNCHANGED messages
    PROVE  Keeps /\ Stored' = Stored
<1>1. Stored' = Stored
  BY DEF Rewrites, Stored
<1>2. \A j \in Stored : /\ notifications'[j].channel = notifications[j].channel
                        /\ IsChannelAllowed(notifications'[j]) <=> IsChannelAllowed(notifications[j])
  BY DEF Rewrites, Stored, IsChannelAllowed
<1>3. QED
  BY <1>1, <1>2 DEF Keeps

\* The rows stay sound when one is rewritten as it deserves.
LEMMA RowRewritten ==
    ASSUME TypeOK, \A j \in Id : RowSound(j), NEW i \in Id, Rewrites(i), UNCHANGED messages,
           \/ notifications'[i].providerMessageId = notifications[i].providerMessageId
           \/ TakenFor(i, notifications'[i].providerMessageId),
           notifications[i].channel = "SMS" =>
              /\ notifications'[i].status \in {"SENT", "DELIVERED"} => messages[i] # <<>>
              /\ notifications'[i].status = "DELIVERED" =>
                    \E k \in DOMAIN messages[i] : messages[i][k] = "DELIVERED"
    PROVE  \A j \in Id : RowSound(j)'
<1>1. ASSUME NEW j \in Id, j # i PROVE RowSound(j)'
  <2>1. RowSound(j) /\ notifications'[j] = notifications[j] /\ messages' = messages
    BY <1>1 DEF Rewrites
  <2>2. QED
    BY <2>1 DEF RowSound, Stored, TakenFor, IsChannelAllowed
<1>2. RowSound(i)'
  <2>1. i \in Stored /\ i \in Stored' /\ RowSound(i)
    BY DEF Rewrites, Stored
  <2>2. IsChannelAllowed(notifications[i])' <=> IsChannelAllowed(notifications[i])
    BY DEF Rewrites, IsChannelAllowed
  <2>3. QED
    BY <2>1, <2>2 DEF Rewrites, RowSound, TakenFor
<1>3. QED
  BY <1>1, <1>2

LEMMA RowsUnwritten ==
    ASSUME TypeOK, \A j \in Id : RowSound(j), UNCHANGED <<notifications, messages>>
    PROVE  \A j \in Id : RowSound(j)'
BY DEF RowSound, Stored, TakenFor, IsChannelAllowed

\* The provider takes one message more.
LEMMA Accepted ==
    ASSUME TypeOK, \A j \in Id : RowSound(j), NEW i \in Stored, Accepts(i), UNCHANGED notifications,
           notifications[i].channel = "SMS", IsChannelAllowed(notifications[i]),
           notifications[i].member # NoMember
    PROVE  /\ messages' \in [Id -> Seq(Fate)]
           /\ Len(messages[i]) + 1 \in DOMAIN messages'[i]
           /\ Keeps /\ Stored' = Stored
           /\ \A j \in Id : RowSound(j)'
<1>1. i \in Id /\ messages[i] \in Seq(Fate)
  BY DEF TypeOK, Stored
<1>2. PICK fate \in Fate : messages' = [messages EXCEPT ![i] = Append(messages[i], fate)]
  BY DEF Accepts
<1>3. PICK taken : taken = Append(messages[i], fate)
  OBVIOUS
<1>4. /\ taken \in Seq(Fate) /\ taken # <<>> /\ Len(messages[i]) + 1 \in DOMAIN taken
      /\ DOMAIN messages[i] \subseteq DOMAIN taken
      /\ \A k \in DOMAIN messages[i] : taken[k] = messages[i][k]
  <2>1. PICK s \in Seq(Fate) : s = messages[i]
    BY <1>1
  <2>2. /\ Append(s, fate) \in Seq(Fate) /\ Len(Append(s, fate)) = Len(s) + 1 /\ Len(s) \in Nat
        /\ DOMAIN s = 1..Len(s) /\ DOMAIN Append(s, fate) = 1..(Len(s) + 1)
        /\ \A k \in 1..Len(s) : Append(s, fate)[k] = s[k]
    BY <1>2
  <2>3. Append(s, fate) # <<>>
    BY <2>2, SMTT(30)
  <2>4. QED
    BY <1>3, <2>1, <2>2, <2>3
<1>5. /\ messages' \in [Id -> Seq(Fate)] /\ messages'[i] = taken
      /\ \A j \in Id : j # i => messages'[j] = messages[j]
  BY <1>1, <1>2, <1>3, <1>4 DEF TypeOK
<1>6. Stored' = Stored
  BY DEF Stored
<1>7. Keeps
  BY <1>4, <1>5, <1>6 DEF Keeps, IsChannelAllowed
<1>8. ASSUME NEW j \in Id, j # i PROVE RowSound(j)'
  <2>1. RowSound(j) /\ messages'[j] = messages[j]
    BY <1>5, <1>8
  <2>2. QED
    BY <1>6, <2>1 DEF RowSound, TakenFor, IsChannelAllowed
<1>9. RowSound(i)'
  <2>1. RowSound(i) /\ i \in Stored'
    BY <1>1, <1>6
  <2>2. notifications[i].providerMessageId # NoMessage =>
           \E k \in DOMAIN messages'[i] : notifications[i].providerMessageId = <<i, k>>
    BY <1>4, <1>5, <2>1 DEF RowSound, TakenFor
  <2>3. notifications[i].status = "DELIVERED" =>
           \E k \in DOMAIN messages'[i] : messages'[i][k] = "DELIVERED"
    BY <1>4, <1>5, <2>1 DEF RowSound
  <2>4. IsChannelAllowed(notifications[i])'
    BY DEF IsChannelAllowed
  <2>5. QED
    BY <1>4, <1>5, <2>1, <2>2, <2>3, <2>4 DEF RowSound, TakenFor
<1>10. QED
  BY <1>4, <1>5, <1>6, <1>7, <1>8, <1>9

\* What a step of call c leaves alone.
Mine(c) ==
    /\ \A x \in Call \cup Callback : x # c => pc'[x] = pc[x]
    /\ \A d \in Call : d # c => /\ command'[d] = command[d] /\ turn'[d] = turn[d]
                               /\ result'[d] = result[d]
    /\ report' = report
    /\ \A i \in Stored' : i \in Stored \/ i[1] = c

LEMMA CallDone ==
    ASSUME NotificationInv, NEW c \in Call, Mine(c), Keeps, TypeOK', CallSound(c)',
           \A i \in Id : RowSound(i)'
    PROVE  NotificationInv'
<1>1. ASSUME NEW d \in Call, d # c PROVE CallSound(d)'
  BY <1>1, CallKept DEF NotificationInv, Mine
<1>2. ASSUME NEW w \in Callback PROVE ReportSound(w)'
  <2>1. w # c
    OBVIOUS
  <2>2. QED
    BY <2>1, ReportKept DEF NotificationInv, Mine
<1>3. QED
  BY <1>1, <1>2 DEF NotificationInv

\* send returns, and its call goes on or is done.
LEMMA Returned ==
    ASSUME NotificationInv, NEW c \in Call, pc[c] \in SendStep, SendReturns(c), Stored' = Stored,
           UNCHANGED report
    PROVE  /\ CallSound(c)' /\ Mine(c)
           /\ pc' \in [Call \cup Callback -> {"idle"} \cup CallStep \cup CallbackStep \cup Finished]
           /\ turn' \in [Call -> Nat \ {0}] /\ command' = command
           /\ result' \in [Call -> [retryCount : Nat, message : Message \cup {NoMessage}]]
<1>1. TypeOK /\ CallSound(c)
  BY DEF NotificationInv
<1>2. Nothing \in [retryCount : Nat, message : Message \cup {NoMessage}]
  BY DEF Nothing
<1>3. /\ result' \in [Call -> [retryCount : Nat, message : Message \cup {NoMessage}]]
      /\ command' = command /\ \A d \in Call : d # c => result'[d] = result[d]
      /\ result'[c].message = NoMessage
  BY <1>1, <1>2 DEF SendReturns, TypeOK, Nothing
<1>4. CASE c \in Retry
  <2>1. pc' = [pc EXCEPT ![c] = "done"] /\ turn' = turn
    BY <1>4 DEF SendReturns, Goto
  <2>2. /\ pc'[c] = "done"
        /\ pc' \in [Call \cup Callback -> {"idle"} \cup CallStep \cup CallbackStep \cup Finished]
        /\ \A x \in Call \cup Callback : x # c => pc'[x] = pc[x]
    BY <1>1, <2>1 DEF TypeOK, Finished
  <2>3. CallSound(c)'
    BY <1>1, <1>3, <1>4, <2>1, <2>2
       DEF CallSound, Finished, CallStep, SendStep
  <2>4. QED
    BY <1>1, <1>3, <2>1, <2>2, <2>3 DEF Mine, TypeOK
<1>5. CASE c \notin Retry
  <2>1. pc' = [pc EXCEPT ![c] = "queueing"] /\ turn' = [turn EXCEPT ![c] = turn[c] + 1]
    BY <1>5 DEF SendReturns, Goto
  <2>2. /\ pc'[c] = "queueing" /\ turn'[c] = turn[c] + 1 /\ turn[c] \in Nat \ {0}
        /\ pc' \in [Call \cup Callback -> {"idle"} \cup CallStep \cup CallbackStep \cup Finished]
        /\ \A x \in Call \cup Callback : x # c => pc'[x] = pc[x]
        /\ turn' \in [Call -> Nat \ {0}] /\ \A d \in Call : d # c => turn'[d] = turn[d]
    BY <1>1, <2>1 DEF TypeOK, CallStep
  <2>3. c \in TriggerRun /\ command[c] \in TriggerCommand
    BY <1>1, <1>5 DEF CallSound, Call, SendStep
  <2>4. \A i \in Id : i[1] = c /\ i[2] >= turn[c] + 1 => i \notin Stored
    <3>1. \A i \in Id : i[2] \in Nat
      BY DEF Id
    <3>2. \A i \in Id : i[1] = c /\ i[2] > turn[c] => i \notin Stored
      BY <1>1, <2>3 DEF CallSound
    <3>3. QED
      BY <2>2, <3>1, <3>2
  <2>5. \A i \in Id : i[2] > turn[c] + 1 \/ i[2] = turn[c] + 1 => i[2] >= turn[c] + 1
    BY <2>2 DEF Id
  <2>6. CallSound(c)'
    BY <1>3, <1>5, <2>2, <2>3, <2>4, <2>5 DEF CallSound, CallStep, SendStep
  <2>7. QED
    BY <1>3, <2>2, <2>6 DEF Mine
<1>6. QED
  BY <1>4, <1>5

-----------------------------------------------------------------------------
(* The steps of a call.                                                    *)

\* A call that goes on with rows and messages as they are.
LEMMA Proceeds ==
    ASSUME NotificationInv, NEW c \in Call, pc[c] \in CallStep \ {"queueing"},
           NEW step \in Finished \cup (CallStep \ {"queueing"}), pc' = [pc EXCEPT ![c] = step],
           UNCHANGED <<command, turn, report>>, Stored' = Stored,
           \A d \in Call : d # c => result'[d] = result[d],
           step \in {"checking", "resetting", "auditingRetry"} => c \in Retry,
           step = "dispatching" => IsChannelAllowed(notifications'[Target(c)]),
           step # "recordingSent" => result'[c].message = NoMessage,
           step = "recordingSent" =>
              IF result'[c].message = NoMessage THEN notifications'[Target(c)].channel = "IN_APP"
              ELSE \E k \in DOMAIN messages'[Target(c)] : result'[c].message = <<Target(c), k>>
    PROVE  /\ CallSound(c)' /\ Mine(c)
           /\ pc' \in [Call \cup Callback -> {"idle"} \cup CallStep \cup CallbackStep \cup Finished]
<1>1. TypeOK /\ CallSound(c)
  BY DEF NotificationInv
<1>2. /\ pc'[c] = step
      /\ pc' \in [Call \cup Callback -> {"idle"} \cup CallStep \cup CallbackStep \cup Finished]
      /\ \A x \in Call \cup Callback : x # c => pc'[x] = pc[x]
  BY <1>1 DEF TypeOK
<1>3. Target(c)' = Target(c)
  BY DEF Target
<1>4. IsChannelAllowed(notifications[Target(c)])' <=> IsChannelAllowed(notifications'[Target(c)])
  BY <1>3 DEF IsChannelAllowed
<1>5. CallSound(c)'
  BY <1>1, <1>2, <1>3, <1>4 DEF CallSound, TakenFor, CallStep, SendStep, Finished
<1>6. QED
  BY <1>2, <1>5 DEF Mine

LEMMA StartStep ==
    ASSUME NotificationInv, NEW c \in TriggerRun, StartTrigger(c)
    PROVE  NotificationInv'
<1>1. TypeOK /\ c \in Call /\ CallSound(c) /\ c \notin Retry
  BY DEF NotificationInv, Call
<1>2. Keeps /\ Stored' = Stored /\ \A i \in Id : RowSound(i)'
  BY <1>1, Unwritten, RowsUnwritten DEF StartTrigger, NotificationInv
<1>3. /\ pc[c] = "idle" /\ pc'[c] = "queueing" /\ command'[c] \in TriggerCommand
      /\ \A x \in Call \cup Callback : x # c => pc'[x] = pc[x]
      /\ \A d \in Call : d # c => command'[d] = command[d]
      /\ pc' \in [Call \cup Callback -> {"idle"} \cup CallStep \cup CallbackStep \cup Finished]
      /\ command' \in [Call -> TriggerCommand \cup RetryCommand \cup {NoCommand}]
  BY <1>1 DEF StartTrigger, Goto, TypeOK, CallStep
<1>4. TypeOK'
  BY <1>1, <1>3 DEF StartTrigger, TypeOK
<1>5. CallSound(c)'
  BY <1>1, <1>2, <1>3 DEF StartTrigger, CallSound, CallStep, SendStep, Finished
<1>6. Mine(c)
  BY <1>2, <1>3 DEF StartTrigger, Mine
<1>7. QED
  BY <1>1, <1>2, <1>4, <1>5, <1>6, CallDone

LEMMA RequestStep ==
    ASSUME NotificationInv, NEW c \in Retry, RequestRetry(c)
    PROVE  NotificationInv'
<1>1. TypeOK /\ c \in Call /\ CallSound(c) /\ c \notin TriggerRun
  BY DEF NotificationInv, Call
<1>2. Keeps /\ Stored' = Stored /\ \A i \in Id : RowSound(i)'
  BY <1>1, Unwritten, RowsUnwritten DEF RequestRetry, NotificationInv
<1>3. PICK i \in Stored : command' = [command EXCEPT ![c] = [id |-> i]]
  BY DEF RequestRetry
<1>4. [id |-> i] \in RetryCommand /\ [id |-> i].id = i
  BY <1>3 DEF RetryCommand, Stored
<1>5. /\ pc[c] = "idle" /\ pc'[c] = "checking" /\ command'[c] \in RetryCommand
      /\ command'[c].id \in Stored'
      /\ \A x \in Call \cup Callback : x # c => pc'[x] = pc[x]
      /\ \A d \in Call : d # c => command'[d] = command[d]
      /\ pc' \in [Call \cup Callback -> {"idle"} \cup CallStep \cup CallbackStep \cup Finished]
      /\ command' \in [Call -> TriggerCommand \cup RetryCommand \cup {NoCommand}]
  BY <1>1, <1>2, <1>3, <1>4 DEF RequestRetry, Goto, TypeOK, CallStep
<1>6. TypeOK'
  BY <1>1, <1>5 DEF RequestRetry, TypeOK
<1>7. CallSound(c)'
  BY <1>1, <1>5 DEF RequestRetry, CallSound, Target, CallStep, SendStep, Finished
<1>8. Mine(c)
  BY <1>2, <1>5 DEF RequestRetry, Mine
<1>9. QED
  BY <1>1, <1>2, <1>6, <1>7, <1>8, CallDone

LEMMA QueueStep ==
    ASSUME NotificationInv, NEW c \in Call, Queue(c)
    PROVE  NotificationInv'
<1>1. TypeOK /\ CallSound(c) /\ c \in TriggerRun /\ c \notin Retry /\ pc[c] = "queueing"
  BY DEF NotificationInv, Queue, CallSound
<1>2. UNCHANGED <<messages, trail, command, turn, result, report>>
  BY DEF Queue, callVars
<1>3. CASE pc' = [pc EXCEPT ![c] = "done"] /\ UNCHANGED notifications
  <2>1. Keeps /\ Stored' = Stored /\ \A i \in Id : RowSound(i)'
    BY <1>1, <1>2, <1>3, Unwritten, RowsUnwritten DEF NotificationInv
  <2>2. /\ pc'[c] = "done" /\ \A x \in Call \cup Callback : x # c => pc'[x] = pc[x]
        /\ pc' \in [Call \cup Callback -> {"idle"} \cup CallStep \cup CallbackStep \cup Finished]
    BY <1>1, <1>3 DEF TypeOK, Finished
  <2>3. TypeOK'
    BY <1>1, <1>2, <1>3, <2>2 DEF TypeOK
  <2>4. CallSound(c)' /\ Mine(c)
    BY <1>1, <1>2, <2>1, <2>2 DEF CallSound, Mine, CallStep, SendStep, Finished
  <2>5. QED
    BY <2>1, <2>3, <2>4, CallDone
<1>4. CASE turn[c] <= MaxPlan /\ Enqueue(c) /\ pc' = [pc EXCEPT ![c] = "reading"]
  <2>1. PICK i : i = <<c, turn[c]>>
    OBVIOUS
  <2>2. turn[c] \in 1..MaxPlan /\ turn[c] \in Nat
    BY <1>1, <1>4 DEF TypeOK
  <2>3. i \in Id /\ Target(c) = i /\ i[1] = c /\ i[2] = turn[c]
    BY <1>1, <2>1, <2>2 DEF Id, Target
  <2>4. i \notin Stored /\ notifications[i] = NoRow
    BY <1>1, <2>3 DEF CallSound, Stored
  <2>5. PICK to \in Recipient :
           notifications' = [notifications EXCEPT ![i] =
               [member |-> to.member, channel |-> to.channel, templateKey |-> command[c].key,
                status |-> "QUEUED", providerMessageId |-> NoMessage, retryCount |-> 0]]
    BY <1>4, <2>3 DEF Enqueue
  <2>6. PICK row : row = [member |-> to.member, channel |-> to.channel, templateKey |-> command[c].key,
                          status |-> "QUEUED", providerMessageId |-> NoMessage, retryCount |-> 0]
    OBVIOUS
  <2>7. command[c].key \in TemplateKey
    BY <1>1 DEF CallSound, TriggerCommand, TemplateKey
  <2>8. /\ row \in NotificationRow /\ row.status = "QUEUED" /\ row.providerMessageId = NoMessage
        /\ row # NoRow
    BY <2>5, <2>6, <2>7 DEF NotificationRow, Recipient, Status
  <2>9. /\ notifications' \in [Id -> NotificationRow \cup {NoRow}]
        /\ notifications'[i] = row /\ \A j \in Id : j # i => notifications'[j] = notifications[j]
    BY <1>1, <2>3, <2>5, <2>6, <2>8 DEF TypeOK
  <2>10. Stored' = Stored \cup {i}
    BY <2>3, <2>8, <2>9 DEF Stored
  <2>11. \A j \in Stored : notifications'[j] = notifications[j]
    BY <2>4, <2>9 DEF Stored
  <2>12. Keeps
    BY <1>2, <2>10, <2>11 DEF Keeps, IsChannelAllowed
  <2>13. ASSUME NEW j \in Id PROVE RowSound(j)'
    <3>1. RowSound(j)
      BY DEF NotificationInv
    <3>2. CASE j = i
      <4>1. messages'[i] = <<>> /\ i \in Stored' /\ notifications'[i] = row
        BY <1>2, <2>3, <2>4, <2>9, <2>10, <3>1, <3>2 DEF RowSound
      <4>2. QED
        BY <2>8, <3>2, <4>1 DEF RowSound
    <3>3. CASE j # i
      <4>1. notifications'[j] = notifications[j] /\ (j \in Stored <=> j \in Stored')
        BY <2>9, <2>10, <3>3
      <4>2. QED
        BY <1>2, <3>1, <4>1 DEF RowSound, TakenFor, IsChannelAllowed
    <3>4. QED
      BY <3>2, <3>3
  <2>14. /\ pc'[c] = "reading" /\ \A x \in Call \cup Callback : x # c => pc'[x] = pc[x]
         /\ pc' \in [Call \cup Callback -> {"idle"} \cup CallStep \cup CallbackStep \cup Finished]
    BY <1>1, <1>4 DEF TypeOK, CallStep, SendStep
  <2>15. TypeOK'
    BY <1>1, <1>2, <2>9, <2>14 DEF TypeOK
  <2>16. Target(c)' = i
    BY <1>2, <2>3 DEF Target
  <2>17. \A j \in Id : j[1] = c /\ j[2] > turn[c] => j \notin Stored'
    BY <1>1, <2>2, <2>3, <2>10 DEF CallSound
  <2>18. CallSound(c)'
    BY <1>1, <1>2, <2>10, <2>14, <2>16, <2>17 DEF CallSound, CallStep, SendStep
  <2>19. Mine(c)
    BY <1>2, <2>3, <2>10, <2>14 DEF Mine
  <2>20. QED
    BY <2>12, <2>13, <2>15, <2>18, <2>19, CallDone
<1>5. QED
  BY <1>3, <1>4 DEF Queue, Goto

\* A rewrite of the call's notification after which send returns.
LEMMA RewriteReturns ==
    ASSUME NotificationInv, NEW c \in Call, pc[c] \in SendStep, SendReturns(c),
           UNCHANGED <<messages, trail, report>>, NEW i, i = Target(c), Rewrites(i),
           \/ notifications'[i].providerMessageId = notifications[i].providerMessageId
           \/ TakenFor(i, notifications'[i].providerMessageId),
           notifications[i].channel = "SMS" =>
              /\ notifications'[i].status \in {"SENT", "DELIVERED"} => messages[i] # <<>>
              /\ notifications'[i].status = "DELIVERED" =>
                    \E k \in DOMAIN messages[i] : messages[i][k] = "DELIVERED"
    PROVE  NotificationInv'
<1>1. TypeOK /\ i \in Id
  BY DEF NotificationInv, Rewrites, Stored
<1>2. Keeps /\ Stored' = Stored /\ \A j \in Id : RowSound(j)'
  BY <1>1, RewritesKeep, RowRewritten DEF NotificationInv
<1>3. /\ CallSound(c)' /\ Mine(c)
      /\ pc' \in [Call \cup Callback -> {"idle"} \cup CallStep \cup CallbackStep \cup Finished]
      /\ turn' \in [Call -> Nat \ {0}] /\ command' = command
      /\ result' \in [Call -> [retryCount : Nat, message : Message \cup {NoMessage}]]
  BY <1>2, Returned
<1>4. TypeOK'
  BY <1>1, <1>3 DEF TypeOK, Rewrites
<1>5. QED
  BY <1>2, <1>3, <1>4, CallDone

\* The call's notification, while it is being sent.
LEMMA SendTarget ==
    ASSUME NotificationInv, NEW c \in Call, pc[c] \in SendStep
    PROVE  /\ TypeOK /\ CallSound(c) /\ Target(c) \in Id /\ Target(c) \in Stored
           /\ notifications[Target(c)] \in NotificationRow /\ RowSound(Target(c))
<1>1. TypeOK /\ CallSound(c) /\ pc[c] \in CallStep \ {"queueing"}
  BY DEF NotificationInv, CallStep, SendStep
<1>2. QED
  BY <1>1, TargetType DEF NotificationInv

LEMMA MarkStep ==
    ASSUME NotificationInv, NEW c \in Call, MarkFailed(c) \/ Cancel(c)
    PROVE  NotificationInv'
<1>1. pc[c] \in SendStep /\ SendReturns(c) /\ UNCHANGED <<messages, trail, report>>
  BY DEF MarkFailed, Cancel, SendStep
<1>2. PICK i : i = Target(c)
  OBVIOUS
<1>3. TypeOK /\ i \in Stored
  BY <1>1, <1>2, SendTarget
<1>4. SetStatus(i, "FAILED") \/ SetStatus(i, "CANCELLED")
  BY <1>2 DEF MarkFailed, Cancel
<1>5. /\ Rewrites(i) /\ notifications'[i].status \in {"FAILED", "CANCELLED"}
      /\ notifications'[i].providerMessageId = notifications[i].providerMessageId
  BY <1>3, <1>4, StatusSet DEF Status
<1>6. QED
  BY <1>1, <1>2, <1>5, RewriteReturns

LEMMA RecordSentStep ==
    ASSUME NotificationInv, NEW c \in Call, RecordSent(c)
    PROVE  NotificationInv'
<1>1. /\ pc[c] \in SendStep /\ pc[c] = "recordingSent" /\ SendReturns(c)
      /\ UNCHANGED <<messages, trail, report>>
  BY DEF RecordSent, SendStep
<1>2. PICK i : i = Target(c)
  OBVIOUS
<1>3. TypeOK /\ CallSound(c) /\ i \in Id /\ i \in Stored /\ notifications[i] \in NotificationRow
  BY <1>1, <1>2, SendTarget
<1>4. PICK mid : mid = IF result[c].message = NoMessage THEN notifications[i].providerMessageId
                       ELSE result[c].message
  OBVIOUS
<1>5. /\ mid \in Message \cup {NoMessage}
      /\ IF result[c].message = NoMessage
         THEN notifications[i].channel = "IN_APP" /\ mid = notifications[i].providerMessageId
         ELSE TakenFor(i, mid)
  BY <1>1, <1>2, <1>3, <1>4 DEF CallSound, TypeOK, NotificationRow
<1>6. PICK row : row = [notifications[i] EXCEPT !.status = "SENT", !.providerMessageId = mid]
  OBVIOUS
<1>7. /\ row \in NotificationRow /\ row.status = "SENT" /\ row.providerMessageId = mid
      /\ row.channel = notifications[i].channel /\ row.member = notifications[i].member
      /\ row.templateKey = notifications[i].templateKey
  BY <1>3, <1>5, <1>6 DEF NotificationRow, Status
<1>8. notifications' = [notifications EXCEPT ![i] = row]
  BY <1>2, <1>3, <1>4, <1>6 DEF RecordSent, TypeOK
<1>9. Rewrites(i) /\ notifications'[i] = row
  BY <1>3, <1>7, <1>8 DEF Rewrites, TypeOK
<1>10. notifications[i].channel = "SMS" => messages[i] # <<>>
  <2>1. notifications[i].channel = "SMS" => \E k \in DOMAIN messages[i] : mid = <<i, k>>
    BY <1>5 DEF TakenFor
  <2>2. messages[i] \in Seq(Fate)
    BY <1>3 DEF TypeOK
  <2>3. QED
    BY <2>1, <2>2
<1>11. QED
  BY <1>1, <1>2, <1>5, <1>7, <1>9, <1>10, RewriteReturns

LEMMA RecordFailureStep ==
    ASSUME NotificationInv, NEW c \in Call, RecordFailure(c)
    PROVE  NotificationInv'
<1>1. pc[c] \in SendStep /\ SendReturns(c) /\ UNCHANGED <<messages, trail, report>>
  BY DEF RecordFailure, SendStep
<1>2. PICK i : i = Target(c)
  OBVIOUS
<1>3. TypeOK /\ i \in Id /\ i \in Stored /\ notifications[i] \in NotificationRow
  BY <1>1, <1>2, SendTarget
<1>4. PICK count : count = result[c].retryCount + 1
  OBVIOUS
<1>5. PICK status : status = IF count >= MAX_RETRIES THEN "FAILED" ELSE "QUEUED"
  OBVIOUS
<1>6. count \in Nat /\ status \in {"FAILED", "QUEUED"}
  BY <1>3, <1>4, <1>5 DEF TypeOK
<1>7. PICK row : row = [notifications[i] EXCEPT !.retryCount = count, !.status = status]
  OBVIOUS
<1>8. /\ row \in NotificationRow /\ row.status = status
      /\ row.providerMessageId = notifications[i].providerMessageId
      /\ row.channel = notifications[i].channel /\ row.member = notifications[i].member
      /\ row.templateKey = notifications[i].templateKey
  BY <1>3, <1>6, <1>7 DEF NotificationRow, Status
<1>9. notifications' = [notifications EXCEPT ![i] = row]
  BY <1>2, <1>3, <1>4, <1>5, <1>7 DEF RecordFailure, TypeOK
<1>10. Rewrites(i) /\ notifications'[i] = row
  BY <1>3, <1>8, <1>9 DEF Rewrites, TypeOK
<1>11. QED
  BY <1>1, <1>2, <1>6, <1>8, <1>10, RewriteReturns

\* The steps that read, check and dispatch without writing a row.
LEMMA SendingStep ==
    ASSUME NotificationInv, NEW c \in Call,
           \/ ReadNotification(c) \/ ResolveTemplate(c) \/ CheckPreference(c)
           \/ DispatchInApp(c) \/ DispatchSms(c) \/ DispatchThrows(c)
    PROVE  NotificationInv'
<1> USE DEF Goto, callVars
<1>1. pc[c] \in SendStep /\ pc[c] \in CallStep \ {"queueing"} /\ notifications' = notifications
  BY DEF ReadNotification, ResolveTemplate, CheckPreference, DispatchInApp, DispatchSms,
         DispatchThrows, SendStep, CallStep
<1>2. PICK i : i = Target(c)
  OBVIOUS
<1>3. /\ TypeOK /\ CallSound(c) /\ i \in Id /\ i \in Stored
      /\ notifications[i] \in NotificationRow /\ RowSound(i)
  BY <1>1, <1>2, SendTarget
<1>4. {"template", "failing", "preference", "cancelling", "dispatching", "recordingSent",
       "recordingFailure", "gaveUp"} \subseteq Finished \cup (CallStep \ {"queueing"})
  BY DEF Finished, CallStep, SendStep
<1>5. \A j : IsChannelAllowed(notifications'[j]) <=> IsChannelAllowed(notifications[j])
  BY <1>1 DEF IsChannelAllowed
<1>6. ASSUME UNCHANGED <<messages, trail, report>>, SendReturns(c) PROVE NotificationInv'
  <2>1. Keeps /\ Stored' = Stored /\ \A j \in Id : RowSound(j)'
    BY <1>1, <1>3, <1>6, Unwritten, RowsUnwritten DEF NotificationInv
  <2>2. /\ CallSound(c)' /\ Mine(c)
        /\ pc' \in [Call \cup Callback -> {"idle"} \cup CallStep \cup CallbackStep \cup Finished]
        /\ turn' \in [Call -> Nat \ {0}] /\ command' = command
        /\ result' \in [Call -> [retryCount : Nat, message : Message \cup {NoMessage}]]
    BY <1>1, <1>6, <2>1, Returned
  <2>3. TypeOK'
    BY <1>1, <1>3, <1>6, <2>2 DEF TypeOK
  <2>4. QED
    BY <2>1, <2>2, <2>3, CallDone
<1>7. ASSUME NEW step \in Finished \cup (CallStep \ {"queueing"}), pc' = [pc EXCEPT ![c] = step],
             UNCHANGED <<messages, trail, command, turn, report>>,
             result' \in [Call -> [retryCount : Nat, message : Message \cup {NoMessage}]],
             \A d \in Call : d # c => result'[d] = result[d],
             step \notin {"checking", "resetting", "auditingRetry"},
             step = "dispatching" => IsChannelAllowed(notifications[i]),
             result'[c].message = NoMessage,
             step = "recordingSent" => notifications[i].channel = "IN_APP"
      PROVE  NotificationInv'
  <2>1. Keeps /\ Stored' = Stored /\ \A j \in Id : RowSound(j)'
    BY <1>1, <1>3, <1>7, Unwritten, RowsUnwritten DEF NotificationInv
  <2>2. /\ CallSound(c)' /\ Mine(c)
        /\ pc' \in [Call \cup Callback -> {"idle"} \cup CallStep \cup CallbackStep \cup Finished]
    BY <1>1, <1>2, <1>5, <1>7, <2>1, Proceeds
  <2>3. TypeOK'
    BY <1>1, <1>3, <1>7, <2>2 DEF TypeOK
  <2>4. QED
    BY <2>1, <2>2, <2>3, CallDone
<1>8. CASE ReadNotification(c)
  <2>1. CASE SendReturns(c)
    BY <1>6, <1>8, <2>1 DEF ReadNotification
  <2>2. CASE ~SendReturns(c)
    <3>1. /\ result' = [result EXCEPT ![c].retryCount = notifications[i].retryCount]
          /\ pc' = [pc EXCEPT ![c] = "template"]
          /\ UNCHANGED <<messages, trail, command, turn, report>>
      BY <1>2, <1>8, <2>2 DEF ReadNotification
    <3>2. PICK read : read = [result[c] EXCEPT !.retryCount = notifications[i].retryCount]
      OBVIOUS
    <3>3. read \in [retryCount : Nat, message : Message \cup {NoMessage}]
          /\ read.message = result[c].message
      <4>1. /\ result[c] \in [retryCount : Nat, message : Message \cup {NoMessage}]
            /\ notifications[i].retryCount \in Nat
        BY <1>3 DEF TypeOK, NotificationRow
      <4>2. QED
        BY <3>2, <4>1
    <3>4. result' = [result EXCEPT ![c] = read]
      BY <1>3, <3>1, <3>2 DEF TypeOK
    <3>5. /\ result' \in [Call -> [retryCount : Nat, message : Message \cup {NoMessage}]]
          /\ \A d \in Call : d # c => result'[d] = result[d]
      BY <1>3, <3>3, <3>4 DEF TypeOK
    <3>6. result'[c].message = NoMessage
      BY <1>3, <1>8, <3>3, <3>4 DEF CallSound, TypeOK, ReadNotification
    <3>7. PICK step \in Finished \cup (CallStep \ {"queueing"}) : step = "template"
      BY <1>4
    <3>8. QED
      BY <1>7, <3>1, <3>5, <3>6, <3>7
  <2>3. QED
    BY <2>1, <2>2
<1>9. CASE ResolveTemplate(c) \/ CheckPreference(c) \/ DispatchInApp(c)
  <2>1. UNCHANGED <<messages, trail, command, turn, report, result>>
    BY <1>9 DEF ResolveTemplate, CheckPreference, DispatchInApp
  <2> result[c].message = NoMessage
    BY <1>3, <1>9 DEF ResolveTemplate, CheckPreference, DispatchInApp, CallSound
  <2>2. CASE ResolveTemplate(c)
    <3>1. PICK step \in {"failing", "preference"} : pc' = [pc EXCEPT ![c] = step]
      BY <2>2 DEF ResolveTemplate
    <3>2. QED
      BY <1>3, <1>4, <1>7, <2>1, <3>1 DEF TypeOK
  <2>3. CASE CheckPreference(c)
    <3>1. PICK step \in {"dispatching", "cancelling"} :
             /\ pc' = [pc EXCEPT ![c] = step]
             /\ step = "dispatching" => IsChannelAllowed(notifications[i])
      BY <1>2, <2>3 DEF CheckPreference
    <3>2. QED
      BY <1>3, <1>4, <1>7, <2>1, <3>1 DEF TypeOK
  <2>4. CASE DispatchInApp(c)
    <3>1. pc' = [pc EXCEPT ![c] = "recordingSent"] /\ notifications[i].channel = "IN_APP"
      BY <1>2, <2>4 DEF DispatchInApp
    <3>2. QED
      BY <1>3, <1>4, <1>7, <2>1, <3>1 DEF TypeOK
  <2>5. QED
    BY <1>9, <2>2, <2>3, <2>4
<1>10. CASE DispatchSms(c) \/ DispatchThrows(c)
  <2>1. /\ pc[c] = "dispatching" /\ notifications[i].channel = "SMS"
        /\ IsChannelAllowed(notifications[i]) /\ result[c].message = NoMessage
        /\ UNCHANGED <<trail, command, turn, report>>
    BY <1>2, <1>3, <1>10 DEF DispatchSms, DispatchThrows, Leave, CallSound
  <2>2. ASSUME Accepts(i), HasPhone(notifications[i])
        PROVE  /\ messages' \in [Id -> Seq(Fate)]
               /\ Len(messages[i]) + 1 \in DOMAIN messages'[i]
               /\ Keeps /\ Stored' = Stored
               /\ \A j \in Id : RowSound(j)'
    <3>1. notifications[i].member # NoMember
      BY <2>2 DEF HasPhone
    <3>2. QED
      BY <1>1, <1>3, <2>1, <2>2, <3>1, Accepted DEF NotificationInv
  <2>3. CASE DispatchSms(c) /\ messages' = messages
    <3>1. PICK step \in {"recordingFailure", "recordingSent"} :
             pc' = [pc EXCEPT ![c] = step] /\ (step = "recordingSent" => Accepts(i) /\ HasPhone(notifications[i]))
      BY <1>2, <2>3 DEF DispatchSms
    <3>2. step = "recordingFailure" /\ result' = result
      <4>1. ~(Accepts(i) /\ HasPhone(notifications[i]))
        <5>1. SUFFICES ASSUME Accepts(i) PROVE FALSE
          OBVIOUS
        <5>2. PICK fate \in Fate : messages' = [messages EXCEPT ![i] = Append(messages[i], fate)]
          BY <5>1 DEF Accepts
        <5>3. PICK s \in Seq(Fate) : s = messages[i]
          BY <1>3 DEF TypeOK
        <5>4. Append(s, fate) # s
          BY <5>3
        <5>5. messages'[i] = Append(s, fate)
          BY <1>3, <5>2, <5>3 DEF TypeOK
        <5>6. QED
          BY <2>3, <5>3, <5>4, <5>5
      <4>2. QED
        BY <1>2, <2>3, <3>1, <4>1 DEF DispatchSms
    <3>3. QED
      BY <1>3, <1>4, <1>7, <2>1, <2>3, <3>1, <3>2 DEF TypeOK
  <2>4. CASE DispatchSms(c) /\ messages' # messages
    <3>1. /\ HasPhone(notifications[i]) /\ Accepts(i)
          /\ result' = [result EXCEPT ![c].message = <<i, Len(messages[i]) + 1>>]
          /\ pc' = [pc EXCEPT ![c] = "recordingSent"]
      BY <1>2, <2>4 DEF DispatchSms
    <3>2. PICK s \in Seq(Fate) : s = messages[i]
      BY <1>3 DEF TypeOK
    <3>3. Len(s) + 1 \in Nat \ {0}
      BY <3>2
    <3>4. PICK m : m = <<i, Len(messages[i]) + 1>>
      OBVIOUS
    <3>5. m \in Message /\ m # NoMessage
      BY <1>3, <3>2, <3>3, <3>4 DEF Message
    <3>6. PICK answer : answer = [result[c] EXCEPT !.message = m]
      OBVIOUS
    <3>7. /\ answer \in [retryCount : Nat, message : Message \cup {NoMessage}]
          /\ answer.message = m
      <4>1. result[c] \in [retryCount : Nat, message : Message \cup {NoMessage}]
        BY <1>3 DEF TypeOK
      <4>2. QED
        BY <3>5, <3>6, <4>1
    <3>8. result' = [result EXCEPT ![c] = answer]
      BY <1>3, <3>1, <3>4, <3>6 DEF TypeOK
    <3>9. /\ result' \in [Call -> [retryCount : Nat, message : Message \cup {NoMessage}]]
          /\ result'[c].message = m /\ \A d \in Call : d # c => result'[d] = result[d]
      BY <1>3, <3>7, <3>8 DEF TypeOK
    <3>10. \E k \in DOMAIN messages'[i] : m = <<i, k>>
      BY <2>2, <3>1, <3>4
    <3>11. PICK step \in Finished \cup (CallStep \ {"queueing"}) : step = "recordingSent"
      BY <1>4
    <3>12. /\ CallSound(c)' /\ Mine(c)
           /\ pc' \in [Call \cup Callback -> {"idle"} \cup CallStep \cup CallbackStep \cup Finished]
      BY <1>1, <1>2, <2>1, <2>2, <3>1, <3>5, <3>9, <3>10, <3>11, Proceeds
    <3>13. TypeOK'
      BY <1>1, <1>3, <2>1, <2>2, <3>1, <3>9, <3>12 DEF TypeOK
    <3>14. QED
      BY <2>2, <3>1, <3>12, <3>13, CallDone
  <2>5. CASE DispatchThrows(c)
    <3>1. /\ pc' = [pc EXCEPT ![c] = "gaveUp"] /\ result' = [result EXCEPT ![c] = Nothing]
          /\ UNCHANGED messages \/ (Accepts(i) /\ HasPhone(notifications[i]))
      BY <1>2, <2>5 DEF DispatchThrows, Leave
    <3>2. /\ result' \in [Call -> [retryCount : Nat, message : Message \cup {NoMessage}]]
          /\ result'[c].message = NoMessage /\ \A d \in Call : d # c => result'[d] = result[d]
      BY <1>3, <3>1 DEF TypeOK, Nothing
    <3>3. PICK step \in Finished \cup (CallStep \ {"queueing"}) : step = "gaveUp"
      BY <1>4
    <3>4. CASE UNCHANGED messages
      BY <1>7, <2>1, <3>1, <3>2, <3>3, <3>4
    <3>5. CASE Accepts(i) /\ HasPhone(notifications[i])
      <4>1. /\ CallSound(c)' /\ Mine(c)
            /\ pc' \in [Call \cup Callback -> {"idle"} \cup CallStep \cup CallbackStep \cup Finished]
        BY <1>1, <2>1, <2>2, <3>1, <3>2, <3>3, <3>5, Proceeds
      <4>2. TypeOK'
        BY <1>1, <1>3, <2>1, <2>2, <3>2, <3>5, <4>1 DEF TypeOK
      <4>3. QED
        BY <2>2, <3>5, <4>1, <4>2, CallDone
    <3>6. QED
      BY <3>1, <3>4, <3>5
  <2>6. QED
    BY <1>10, <2>3, <2>4, <2>5
<1>11. QED
  BY <1>8, <1>9, <1>10

LEMMA RetryStep ==
    ASSUME NotificationInv, NEW c \in Call, CheckRetry(c) \/ Reset(c) \/ AuditRetry(c)
    PROVE  NotificationInv'
<1> USE DEF Goto, callVars
<1>1. /\ pc[c] \in {"checking", "resetting", "auditingRetry"}
      /\ UNCHANGED <<messages, command, turn, result, report>>
  BY DEF CheckRetry, Reset, AuditRetry
<1>2. PICK i : i = Target(c)
  OBVIOUS
<1>3. /\ TypeOK /\ CallSound(c) /\ c \in Retry /\ result[c].message = NoMessage
      /\ i \in Stored /\ pc[c] \in CallStep \ {"queueing"}
  BY <1>1, <1>2 DEF NotificationInv, CallSound, CallStep
<1>4. PICK step \in Finished \cup (CallStep \ {"queueing"}) :
         /\ pc' = [pc EXCEPT ![c] = step] /\ step \notin {"dispatching", "recordingSent"}
         /\ step = "resetting" => CheckRetry(c)
         /\ step = "auditingRetry" => Reset(c)
  <2> DEFINE S == Finished \cup (CallStep \ {"queueing"})
  <2>1. {"resetting", "refused", "auditingRetry", "reading"} \subseteq S
    BY DEF Finished, CallStep, SendStep
  <2>2. CASE CheckRetry(c)
    <3>1. CASE pc' = [pc EXCEPT ![c] = "resetting"]
      BY <2>1, <2>2, <3>1
    <3>2. CASE pc' = [pc EXCEPT ![c] = "refused"]
      BY <2>1, <2>2, <3>2
    <3>3. QED
      BY <2>2, <3>1, <3>2 DEF CheckRetry
  <2>3. CASE Reset(c)
    <3>1. pc' = [pc EXCEPT ![c] = "auditingRetry"]
      BY <2>3 DEF Reset
    <3>2. QED
      BY <2>1, <2>3, <3>1
  <2>4. CASE AuditRetry(c)
    <3>1. pc' = [pc EXCEPT ![c] = "reading"]
      BY <2>4 DEF AuditRetry
    <3>2. QED
      BY <2>1, <3>1
  <2>5. QED
    BY <2>2, <2>3, <2>4
<1>5. /\ Keeps /\ Stored' = Stored /\ \A j \in Id : RowSound(j)'
      /\ notifications' \in [Id -> NotificationRow \cup {NoRow}]
  <2>1. CASE Reset(c)
    <3>1. SetStatus(i, "QUEUED")
      BY <1>2, <2>1 DEF Reset
    <3>2. /\ Rewrites(i) /\ notifications'[i].status = "QUEUED"
          /\ notifications'[i].providerMessageId = notifications[i].providerMessageId
      BY <1>3, <3>1, StatusSet DEF Status
    <3>3. i \in Id /\ messages' = messages
      BY <1>1, <1>3 DEF Stored
    <3>4. QED
      BY <1>3, <3>2, <3>3, RewritesKeep, RowRewritten DEF NotificationInv, Rewrites
  <2>2. CASE notifications' = notifications
    BY <1>1, <1>3, <2>2, Unwritten, RowsUnwritten DEF NotificationInv, TypeOK
  <2>3. QED
    BY <2>1, <2>2 DEF CheckRetry, AuditRetry
<1>6. /\ CallSound(c)' /\ Mine(c)
      /\ pc' \in [Call \cup Callback -> {"idle"} \cup CallStep \cup CallbackStep \cup Finished]
  BY <1>1, <1>3, <1>4, <1>5, Proceeds
<1>7. trail' \in SUBSET (Call \cup Callback)
  BY <1>3 DEF CheckRetry, Reset, AuditRetry, TypeOK
<1>8. TypeOK'
  BY <1>1, <1>3, <1>5, <1>6, <1>7 DEF TypeOK
<1>9. QED
  BY <1>5, <1>6, <1>8, CallDone

LEMMA CallCrashStep ==
    ASSUME NotificationInv, NEW c \in Call, Crash(c)
    PROVE  NotificationInv'
<1>1. TypeOK /\ CallSound(c) /\ pc[c] \in CallStep
  BY DEF NotificationInv, Crash, CallSound, CallStep, CallbackStep, SendStep, Finished
<1>2. /\ pc' = [pc EXCEPT ![c] = "crashed"] /\ result' = [result EXCEPT ![c] = Nothing]
      /\ UNCHANGED <<notifications, messages, trail, command, turn, report>>
  BY DEF Crash, Leave, Goto
<1>3. Keeps /\ Stored' = Stored /\ \A j \in Id : RowSound(j)'
  BY <1>1, <1>2, Unwritten, RowsUnwritten DEF NotificationInv
<1>4. /\ pc'[c] = "crashed" /\ \A x \in Call \cup Callback : x # c => pc'[x] = pc[x]
      /\ pc' \in [Call \cup Callback -> {"idle"} \cup CallStep \cup CallbackStep \cup Finished]
      /\ result'[c].message = NoMessage /\ \A d \in Call : d # c => result'[d] = result[d]
      /\ result' \in [Call -> [retryCount : Nat, message : Message \cup {NoMessage}]]
  BY <1>1, <1>2 DEF TypeOK, Finished, Nothing
<1>5. TypeOK'
  BY <1>1, <1>2, <1>4 DEF TypeOK
<1>6. CallSound(c)'
  BY <1>1, <1>2, <1>3, <1>4 DEF CallSound, CallStep, SendStep, Finished
<1>7. Mine(c)
  BY <1>2, <1>3, <1>4 DEF Mine
<1>8. QED
  BY <1>3, <1>5, <1>6, <1>7, CallDone

-----------------------------------------------------------------------------
(* The steps of a callback.                                                *)

LEMMA CallbackDone ==
    ASSUME NotificationInv, NEW w \in Callback, Keeps, Stored' = Stored, TypeOK', ReportSound(w)',
           \A i \in Id : RowSound(i)',
           UNCHANGED <<command, turn, result>>,
           \A x \in Call \cup Callback : x # w => pc'[x] = pc[x],
           \A v \in Callback : v # w => report'[v] = report[v]
    PROVE  NotificationInv'
<1>1. ASSUME NEW c \in Call PROVE CallSound(c)'
  <2>1. c # w
    OBVIOUS
  <2>2. QED
    BY <2>1, CallKept DEF NotificationInv
<1>2. ASSUME NEW v \in Callback, v # w PROVE ReportSound(v)'
  BY <1>2, ReportKept DEF NotificationInv
<1>3. QED
  BY <1>1, <1>2 DEF NotificationInv

LEMMA ArrivalStep ==
    ASSUME NotificationInv, NEW w \in Callback, ReportArrives(w)
    PROVE  NotificationInv'
<1>1. TypeOK
  BY DEF NotificationInv
<1>2. Keeps /\ Stored' = Stored /\ \A j \in Id : RowSound(j)'
  BY <1>1, Unwritten, RowsUnwritten DEF NotificationInv, ReportArrives
<1>a. PICK i \in Id : \E k \in DOMAIN messages[i] :
         \E status \in {"ACCEPTED", messages[i][k]} :
            report' = [report EXCEPT ![w] =
                [payload |-> [message |-> <<i, k>>, status |-> status], found |-> NoId]]
  BY DEF ReportArrives
<1>b. PICK k \in DOMAIN messages[i] :
         \E status \in {"ACCEPTED", messages[i][k]} :
            report' = [report EXCEPT ![w] =
                [payload |-> [message |-> <<i, k>>, status |-> status], found |-> NoId]]
  BY <1>a
<1>3. PICK status \in {"ACCEPTED", messages[i][k]} :
         report' = [report EXCEPT ![w] =
             [payload |-> [message |-> <<i, k>>, status |-> status], found |-> NoId]]
  BY <1>b
<1>4. k \in Nat \ {0} /\ messages[i][k] \in Fate
  <2>1. PICK s \in Seq(Fate) : s = messages[i]
    BY <1>1 DEF TypeOK
  <2>2. k \in DOMAIN s
    BY <1>3, <2>1
  <2>3. QED
    BY <2>1, <2>2
<1>5. PICK p : p = [message |-> <<i, k>>, status |-> status]
  OBVIOUS
<1>6. p \in SmsWebhookPayload /\ p.message = <<i, k>> /\ p.status \in {"ACCEPTED", messages[i][k]}
  BY <1>3, <1>4, <1>5 DEF SmsWebhookPayload, Message
<1>7. PICK new : new = [payload |-> p, found |-> NoId]
  OBVIOUS
<1>8. new \in Report /\ new.payload = p
  BY <1>6, <1>7 DEF Report
<1>9. /\ report'[w] = new /\ \A v \in Callback : v # w => report'[v] = report[v]
      /\ report' \in [Callback -> Report \cup {NoReport}]
  BY <1>1, <1>3, <1>5, <1>7, <1>8 DEF TypeOK, Report
<1>10. /\ pc'[w] = "finding" /\ \A x \in Call \cup Callback : x # w => pc'[x] = pc[x]
       /\ pc' \in [Call \cup Callback -> {"idle"} \cup CallStep \cup CallbackStep \cup Finished]
       /\ UNCHANGED <<notifications, messages, trail, command, turn, result>>
  BY <1>1 DEF ReportArrives, Goto, callVars, TypeOK, CallbackStep
<1>11. TypeOK'
  BY <1>1, <1>9, <1>10 DEF TypeOK, Report
<1>12. ReportSound(w)'
  BY <1>3, <1>4, <1>6, <1>8, <1>9, <1>10 DEF ReportSound, CallbackStep
<1>13. QED
  BY <1>2, <1>9, <1>10, <1>11, <1>12, CallbackDone

\* A callback that ends forgets its report.
LEMMA EndStep ==
    ASSUME NotificationInv, NEW w \in Callback, NEW how \in Finished, Leave(w, how),
           UNCHANGED <<notifications, messages, command, turn>>, trail' \in SUBSET (Call \cup Callback)
    PROVE  NotificationInv'
<1>1. TypeOK /\ w \notin Call
  BY DEF NotificationInv
<1>2. Keeps /\ Stored' = Stored /\ \A j \in Id : RowSound(j)'
  BY <1>1, Unwritten, RowsUnwritten DEF NotificationInv
<1>3. /\ pc'[w] = how /\ \A x \in Call \cup Callback : x # w => pc'[x] = pc[x]
      /\ pc' \in [Call \cup Callback -> {"idle"} \cup CallStep \cup CallbackStep \cup Finished]
      /\ report' \in [Callback -> [payload : SmsWebhookPayload, found : Id \cup {NoId}] \cup {NoReport}]
      /\ \A v \in Callback : v # w => report'[v] = report[v]
      /\ result' = result
  BY <1>1 DEF Leave, Goto, TypeOK
<1>4. TypeOK'
  BY <1>1, <1>3 DEF TypeOK
<1>5. ReportSound(w)'
  BY <1>3 DEF ReportSound, Finished, CallbackStep
<1>6. QED
  BY <1>2, <1>3, <1>4, <1>5, CallbackDone

LEMMA FindStep ==
    ASSUME NotificationInv, NEW w \in Callback, FindNotification(w)
    PROVE  NotificationInv'
<1>1. TypeOK /\ ReportSound(w) /\ pc[w] = "finding"
  BY DEF NotificationInv, FindNotification
<1>2. UNCHANGED <<notifications, messages, trail, command, turn>>
  BY DEF FindNotification
<1>3. CASE Leave(w, "dropped")
  <2>1. PICK how \in Finished : how = "dropped"
    BY DEF Finished
  <2>2. trail' \in SUBSET (Call \cup Callback)
    BY <1>1, <1>2 DEF TypeOK
  <2>3. QED
    BY <1>2, <1>3, <2>1, <2>2, EndStep
<1>4. CASE ~Leave(w, "dropped")
  <2>1. PICK i \in Stored : /\ notifications[i].providerMessageId = report[w].payload.message
                            /\ report' = [report EXCEPT ![w].found = i]
    BY <1>4 DEF FindNotification
  <2>2. pc' = [pc EXCEPT ![w] = "updating"] /\ result' = result
    BY <1>4 DEF FindNotification, Goto
  <2>3. PICK j \in Id, k \in Nat \ {0} :
           /\ report[w].payload.message = <<j, k>> /\ k \in DOMAIN messages[j]
           /\ report[w].payload.status \in {"ACCEPTED", messages[j][k]}
    BY <1>1 DEF ReportSound, CallbackStep
  <2>4. report[w] \in Report
    BY <1>1 DEF ReportSound, CallbackStep
  <2>5. i = j
    <3>1. <<j, k>> \in Message
      BY <2>3 DEF Message
    <3>2. <<j, k>> # NoMessage
      BY <3>1
    <3>3. RowSound(i) /\ i \in Id
      BY <2>1 DEF NotificationInv, Stored
    <3>4. TakenFor(i, <<j, k>>)
      BY <2>1, <2>3, <3>2, <3>3 DEF RowSound
    <3>5. QED
      BY <3>4 DEF TakenFor
  <2>6. PICK new : new = [report[w] EXCEPT !.found = i]
    OBVIOUS
  <2>7. new \in Report /\ new.payload = report[w].payload /\ new.found = i
    BY <2>1, <2>4, <2>6 DEF Report, Stored
  <2>8. /\ report'[w] = new /\ \A v \in Callback : v # w => report'[v] = report[v]
        /\ report' \in [Callback -> Report \cup {NoReport}]
    BY <1>1, <2>1, <2>6, <2>7 DEF TypeOK, Report
  <2>9. Keeps /\ Stored' = Stored /\ \A l \in Id : RowSound(l)'
    BY <1>1, <1>2, Unwritten, RowsUnwritten DEF NotificationInv
  <2>10. /\ pc'[w] = "updating" /\ \A x \in Call \cup Callback : x # w => pc'[x] = pc[x]
         /\ pc' \in [Call \cup Callback -> {"idle"} \cup CallStep \cup CallbackStep \cup Finished]
    BY <1>1, <2>2 DEF TypeOK, CallbackStep
  <2>11. TypeOK'
    BY <1>1, <1>2, <2>2, <2>8, <2>10 DEF TypeOK, Report
  <2>12. ReportSound(w)'
    BY <1>2, <2>1, <2>3, <2>5, <2>7, <2>8, <2>9, <2>10 DEF ReportSound, CallbackStep
  <2>13. QED
    BY <1>2, <2>2, <2>8, <2>9, <2>10, <2>11, <2>12, CallbackDone
<1>5. QED
  BY <1>3, <1>4

LEMMA ApplyStep ==
    ASSUME NotificationInv, NEW w \in Callback, ApplyReport(w)
    PROVE  NotificationInv'
<1>1. TypeOK /\ ReportSound(w) /\ pc[w] = "updating"
  BY DEF NotificationInv, ApplyReport
<1>2. UNCHANGED <<messages, trail, command, turn, result, report>> /\ pc' = [pc EXCEPT ![w] = "auditing"]
  BY DEF ApplyReport, callVars, Goto
<1>3. PICK i \in Id, k \in Nat \ {0} :
         /\ report[w].payload.message = <<i, k>> /\ k \in DOMAIN messages[i]
         /\ report[w].payload.status \in {"ACCEPTED", messages[i][k]}
         /\ report[w].found = i /\ i \in Stored
  BY <1>1 DEF ReportSound, CallbackStep
<1>4. PICK status : status = MapToInternalStatus(report[w].payload.status)
  OBVIOUS
<1>5. messages[i] # <<>> /\ messages[i][k] \in Fate
  <2>1. PICK s \in Seq(Fate) : s = messages[i]
    BY <1>1 DEF TypeOK
  <2>2. k \in DOMAIN s
    BY <1>3, <2>1
  <2>3. QED
    BY <2>1, <2>2
<1>6. /\ status \in Status
      /\ status = "DELIVERED" => messages[i][k] = "DELIVERED"
  BY <1>3, <1>4, <1>5 DEF MapToInternalStatus, Status, Fate
<1>7. SetStatus(i, status)
  BY <1>3, <1>4 DEF ApplyReport
<1>8. /\ Rewrites(i) /\ notifications'[i].status = status
      /\ notifications'[i].providerMessageId = notifications[i].providerMessageId
  BY <1>1, <1>3, <1>6, <1>7, StatusSet
<1>9. Keeps /\ Stored' = Stored /\ \A j \in Id : RowSound(j)'
  BY <1>1, <1>2, <1>3, <1>5, <1>6, <1>8, RewritesKeep, RowRewritten DEF NotificationInv
<1>10. /\ pc'[w] = "auditing" /\ \A x \in Call \cup Callback : x # w => pc'[x] = pc[x]
       /\ pc' \in [Call \cup Callback -> {"idle"} \cup CallStep \cup CallbackStep \cup Finished]
  BY <1>1, <1>2 DEF TypeOK, CallbackStep
<1>11. TypeOK'
  BY <1>1, <1>2, <1>8, <1>10 DEF TypeOK, Rewrites
<1>12. ReportSound(w)'
  BY <1>1, <1>2, <1>3, <1>9, <1>10 DEF ReportSound, CallbackStep
<1>13. QED
  BY <1>2, <1>9, <1>10, <1>11, <1>12, CallbackDone

-----------------------------------------------------------------------------
LEMMA NotificationInit == Init => NotificationInv
<1> SUFFICES ASSUME Init PROVE NotificationInv
  OBVIOUS
<1>1. Stored = {}
  BY DEF Init, Stored
<1>2. TypeOK
  <2>1. <<>> \in Seq(Fate) /\ 1 \in Nat \ {0}
    OBVIOUS
  <2>2. Nothing \in [retryCount : Nat, message : Message \cup {NoMessage}]
    BY DEF Nothing
  <2>3. QED
    BY <2>1, <2>2 DEF Init, TypeOK
<1>3. \A i \in Id : RowSound(i)
  BY <1>1 DEF Init, RowSound
<1>4. \A c \in Call : CallSound(c)
  BY <1>1 DEF Init, CallSound, CallStep, SendStep, Nothing
<1>5. \A w \in Callback : ReportSound(w)
  BY DEF Init, ReportSound, CallbackStep
<1>6. QED
  BY <1>2, <1>3, <1>4, <1>5 DEF NotificationInv

LEMMA NotificationStep == NotificationInv /\ [Next]_vars => NotificationInv'
<1> SUFFICES ASSUME NotificationInv, [Next]_vars PROVE NotificationInv'
  OBVIOUS
<1>1. ASSUME NEW c \in Call, Advance(c) PROVE NotificationInv'
  BY <1>1, QueueStep, MarkStep, RecordSentStep, RecordFailureStep, SendingStep, RetryStep
     DEF Advance, Send
<1>2. ASSUME NEW w \in Callback, Handle(w) PROVE NotificationInv'
  <2>1. CASE AuditReport(w)
    <3>1. /\ Leave(w, "done") /\ trail' = trail \cup {w}
          /\ UNCHANGED <<notifications, messages, command, turn>>
      BY <2>1 DEF AuditReport
    <3>2. PICK how \in Finished : how = "done"
      BY DEF Finished
    <3>3. trail' \in SUBSET (Call \cup Callback)
      BY <3>1 DEF NotificationInv, TypeOK
    <3>4. QED
      BY <3>1, <3>2, <3>3, EndStep
  <2>2. QED
    BY <1>2, <2>1, FindStep, ApplyStep DEF Handle
<1>3. ASSUME NEW w \in Callback, Crash(w) PROVE NotificationInv'
  <2>1. Leave(w, "crashed") /\ UNCHANGED <<notifications, messages, trail, command, turn>>
    BY <1>3 DEF Crash
  <2>2. PICK how \in Finished : how = "crashed"
    BY DEF Finished
  <2>3. trail' \in SUBSET (Call \cup Callback)
    BY <2>1 DEF NotificationInv, TypeOK
  <2>4. QED
    BY <2>1, <2>2, <2>3, EndStep
<1>4. CASE UNCHANGED vars
  <2> USE <1>4 DEF vars, callVars
  <2>1. TypeOK /\ TypeOK'
    BY DEF NotificationInv, TypeOK
  <2>2. Keeps /\ Stored' = Stored /\ \A j \in Id : RowSound(j)'
    BY <2>1, Unwritten, RowsUnwritten DEF NotificationInv
  <2>3. ASSUME NEW c \in Call PROVE CallSound(c)'
    BY <2>1, <2>2, CallKept DEF NotificationInv
  <2>4. ASSUME NEW w \in Callback PROVE ReportSound(w)'
    BY <2>1, <2>2, ReportKept DEF NotificationInv
  <2>5. QED
    BY <2>1, <2>2, <2>3, <2>4 DEF NotificationInv
<1>5. QED
  BY <1>1, <1>2, <1>3, <1>4, StartStep, RequestStep, ArrivalStep, CallCrashStep DEF Next

THEOREM Invariance == Spec => []NotificationInv
BY NotificationInit, NotificationStep, PTL DEF Spec

\* Every variable of notifications, messages, calls and callbacks keeps its type.
THEOREM NotificationTypes == Spec => []TypeOK
<1>1. NotificationInv => TypeOK
  BY DEF NotificationInv
<1>2. QED
  BY <1>1, Invariance, PTL

\* An SMS is SENT only if the provider took it and DELIVERED only if it delivered
\* a message of this notification, however retries and reports overlap, repeat,
\* come late or in another order (notification.service.ts, sms-webhook.service.ts).
THEOREM StatusesAreEarned == Spec => []StatusIsEarned
<1>1. NotificationInv => StatusIsEarned
  <2> SUFFICES ASSUME NotificationInv, NEW i \in Stored, notifications[i].channel = "SMS"
               PROVE  /\ notifications[i].status \in {"SENT", "DELIVERED"} => messages[i] # <<>>
                      /\ notifications[i].status = "DELIVERED" => Contains(messages[i], "DELIVERED")
    BY DEF StatusIsEarned
  <2>1. RowSound(i) /\ messages[i] \in Seq(Fate)
    BY DEF NotificationInv, TypeOK, Stored
  <2>2. QED
    BY <2>1 DEF RowSound, Contains
<1>2. QED
  BY <1>1, Invariance, PTL

\* The provider takes no SMS against the switches of the group or the wish of the
\* member, on the first attempt or a retry (notification-preference.service.ts).
THEOREM WillIsRespected == Spec => []NoSmsAgainstWill
<1>1. NotificationInv => NoSmsAgainstWill
  <2> SUFFICES ASSUME NotificationInv, NEW i \in Stored, messages[i] # <<>>
               PROVE  /\ notifications[i].channel = "SMS" /\ SmsNotificationsEnabled
                      /\ ~MemberRow[notifications[i].member].optOut
                      /\ notifications[i].templateKey = "receipt_confirmation" =>
                            SmsReceiptConfirmationEnabled
    BY DEF NoSmsAgainstWill
  <2>1. RowSound(i)
    BY DEF NotificationInv, Stored
  <2>2. QED
    BY <2>1 DEF RowSound, IsChannelAllowed
<1>2. QED
  BY <1>1, Invariance, PTL
-----------------------------------------------------------------------------
(* Plans are sequences.                                                    *)

LEMMA LeastNat ==
    ASSUME NEW S, S \subseteq Nat, S # {}
    PROVE  \E x \in S : \A y \in S : x <= y
<1> DEFINE R == OpToRel(<, Nat)
<1>1. IsWellFoundedOn(R, Nat)
  BY NatLessThanWellFounded
<1>2. \A x, y \in Nat : x < y => <<x, y>> \in R
  BY DEF OpToRel
<1> HIDE DEF R
<1>3. PICK x \in S : \A y \in S : ~(<<y, x>> \in R)
  BY <1>1, WFMin
<1>4. \A y \in S : x \in Nat /\ y \in Nat /\ ~(y < x)
  BY <1>2, <1>3
<1>5. \A y \in S : x <= y
  BY <1>4
<1>6. QED
  BY <1>3, <1>5

\* The function that FlattenSeq defines by recursion.
Flat(f, n, seqs) == f = [i \in 1..n |-> IF i = 1 THEN seqs[i] ELSE f[i - 1] \o seqs[i]]

LEMMA FlatExists ==
    ASSUME NEW seqs, NEW n \in Nat
    PROVE  \E f : Flat(f, n, seqs)
<1> DEFINE T == {k \in Nat : ~\E f : Flat(f, k, seqs)}
           Longer(old, i) == old \o seqs[i]
<1> SUFFICES ASSUME T # {} PROVE FALSE
  OBVIOUS
<1>1. PICK k \in T : \A j \in T : k <= j
  BY LeastNat
<1>2. CASE k = 0
  <2>1. Flat([i \in 1..0 |-> seqs], 0, seqs)
    BY DEF Flat
  <2>2. QED
    BY <1>1, <1>2, <2>1
<1>3. CASE k # 0
  <2>1. k - 1 \in Nat /\ k - 1 \notin T
    BY <1>1, <1>3
  <2>2. PICK old : Flat(old, k - 1, seqs)
    BY <2>1
  <2> DEFINE new == [i \in 1..k |-> IF i = k THEN (IF k = 1 THEN seqs[1] ELSE Longer(old[k - 1], k))
                                    ELSE old[i]]
  <2> HIDE DEF Longer
  <2>3. \A i \in 1..(k - 1) : old[i] = IF i = 1 THEN seqs[i] ELSE Longer(old[i - 1], i)
    BY <2>2 DEF Flat, Longer
  <2>4. ASSUME NEW i \in 1..k
        PROVE  new[i] = IF i = 1 THEN seqs[i] ELSE Longer(new[i - 1], i)
    <3>1. CASE i = k
      <4>1. k # 1 => k - 1 \in 1..k /\ k - 1 # k
        BY <2>1
      <4>2. k # 1 => new[k - 1] = old[k - 1]
        BY <4>1
      <4>3. new[k] = IF k = 1 THEN seqs[1] ELSE Longer(old[k - 1], k)
        BY <1>3
      <4>4. QED
        BY <3>1, <4>2, <4>3
    <3>2. CASE i # k
      <4>1. i \in 1..(k - 1) /\ new[i] = old[i]
        BY <3>2, <1>1
      <4>2. i # 1 => i - 1 \in 1..k /\ i - 1 # k /\ new[i - 1] = old[i - 1]
        BY <1>1, <3>2
      <4>3. QED
        BY <2>3, <4>1, <4>2
    <3>3. QED
      BY <3>1, <3>2
  <2>5. new = [i \in 1..k |-> IF i = 1 THEN seqs[i] ELSE Longer(new[i - 1], i)]
    <3>1. new = [i \in 1..k |-> new[i]]
      OBVIOUS
    <3> HIDE DEF new
    <3>2. QED
      BY <2>4, <3>1
  <2> HIDE DEF new
  <2>6. Flat(new, k, seqs)
    BY <2>5 DEF Flat, Longer
  <2>7. QED
    BY <1>1, <2>6
<1>4. QED
  BY <1>2, <1>3

LEMMA FlattenType ==
    ASSUME NEW T, NEW seqs \in Seq(Seq(T))
    PROVE  FlattenSeq(seqs) \in Seq(T)
<1>1. Len(seqs) \in Nat /\ \A i \in 1..Len(seqs) : seqs[i] \in Seq(T)
  OBVIOUS
<1>2. CASE Len(seqs) = 0
  <2>1. seqs = <<>>
    BY <1>2
  <2>2. FlattenSeq(seqs) = seqs
    BY <1>2 DEF FlattenSeq
  <2>3. seqs \in Seq(T)
    BY <2>1
  <2>4. QED
    BY <2>2, <2>3
<1>3. CASE Len(seqs) # 0
  <2> DEFINE m == Len(seqs)
             Is(f) == Flat(f, m, seqs)
             flat == CHOOSE f : Is(f)
  <2>1. \E f : Is(f)
    BY <1>1, FlatExists
  <2>2. Is(flat)
    BY <2>1
  <2>3. FlattenSeq(seqs) = flat[m]
    BY <1>3 DEF FlattenSeq, Flat
  <2> HIDE DEF flat
  <2>4. PICK f : f = flat
    OBVIOUS
  <2>5. \A i \in 1..m : f[i] = IF i = 1 THEN seqs[i] ELSE f[i - 1] \o seqs[i]
    BY <2>2, <2>4 DEF Flat
  <2> DEFINE Bad == {i \in 1..m : f[i] \notin Seq(T)}
  <2>6. Bad = {}
    <3> SUFFICES ASSUME Bad # {} PROVE FALSE
      OBVIOUS
    <3>1. Bad \subseteq Nat
      BY <1>1
    <3>2. PICK k \in Bad : \A j \in Bad : k <= j
      BY <3>1, LeastNat
    <3>3. k \in 1..m /\ f[k] \notin Seq(T) /\ seqs[k] \in Seq(T) /\ m \in Nat
      BY <1>1, <3>2
    <3>4. CASE k = 1
      BY <2>5, <3>3, <3>4
    <3>5. CASE k # 1
      <4>1. k - 1 \in 1..m /\ ~(k <= k - 1)
        BY <3>3, <3>5
      <4>2. f[k - 1] \in Seq(T)
        BY <3>2, <4>1
      <4>3. f[k - 1] \o seqs[k] \in Seq(T)
        BY <3>3, <4>2
      <4>4. QED
        BY <2>5, <3>3, <3>5, <4>3
    <3>6. QED
      BY <3>4, <3>5
  <2>7. m \in 1..m
    BY <1>1, <1>3
  <2>8. f[m] \in Seq(T)
    BY <2>6, <2>7
  <2>9. QED
    BY <2>3, <2>4, <2>8
<1>4. QED
  BY <1>2, <1>3

LEMMA SetToSeqType ==
    ASSUME NEW S, IsFiniteSet(S)
    PROVE  SetToSeq(S) \in Seq(S)
<1>1. Cardinality(S) \in Nat /\ ExistsBijection(1..Cardinality(S), S)
  BY FS_CardinalityType
<1>2. PICK f \in Bijection(1..Cardinality(S), S) : TRUE
  BY <1>1 DEF ExistsBijection
<1>3. f \in [1..Cardinality(S) -> S] /\ IsInjective(f)
  BY <1>2 DEF Bijection, Injection, IsInjective
<1>4. SetToSeq(S) \in [1..Cardinality(S) -> S]
  BY <1>3 DEF SetToSeq
<1>5. QED
  BY <1>1, <1>4

LEMMA ToMemberType ==
    ASSUME NEW m \in Member
    PROVE  ToMember(m) \in Seq(Recipient)
<1>1. /\ [member |-> m, channel |-> "IN_APP"] \in Recipient
      /\ [member |-> m, channel |-> "SMS"] \in Recipient
  BY DEF Recipient
<1>2. QED
  BY <1>1 DEF ToMember

\* A plan has a first, a second, ... and a last recipient.
LEMMA PlanType ==
    ASSUME NEW c, command[c] \in TriggerCommand
    PROVE  Plan(c) \in Seq(Recipient)
<1>1. ApprovalRequired \in Seq(Recipient)
  <2>1. ASSUME NEW m \in Member \cup {NoMember}
        PROVE  ToApprover(m) \in Seq(Recipient)
    <3>1. [member |-> NoMember, channel |-> "IN_APP"] \in Recipient
      BY DEF Recipient
    <3>2. QED
      BY <3>1, ToMemberType DEF ToApprover
  <2>2. DOMAIN Approver = 1..Len(Approver) /\ Len(Approver) \in Nat
    OBVIOUS
  <2>3. \A n \in DOMAIN Approver : ToApprover(Approver[n]) \in Seq(Recipient)
    BY <2>1
  <2>4. [n \in DOMAIN Approver |-> ToApprover(Approver[n])] \in Seq(Seq(Recipient))
    BY <2>2, <2>3
  <2>5. QED
    BY <2>4, FlattenType DEF ApprovalRequired
<1>2. EnqueueOverdueReminders \in Seq(Recipient)
  <2> DEFINE late == SetToSeq(Late)
             Of(item) == [loan |-> item.loan, borrower |-> item.borrower]
  <2>1. IsFiniteSet(Overdue)
    BY FS_Subset DEF Overdue
  <2>2. Late = {Of(item) : item \in Overdue}
    BY DEF Late
  <2>3. IsFiniteSet(Late)
    <3> DEFINE f == [item \in Overdue |-> Of(item)]
    <3>1. f \in Surjection(Overdue, Late)
      BY <2>2 DEF Surjection
    <3>2. QED
      BY <2>1, <3>1, FS_Surjection
  <2>4. late \in Seq(Late)
    BY <2>3, SetToSeqType
  <2>5. \A x \in Late : x.borrower \in Member
    BY DEF Late, Overdue
  <2> HIDE DEF late
  <2>6. DOMAIN late = 1..Len(late) /\ Len(late) \in Nat /\ \A n \in DOMAIN late : late[n] \in Late
    BY <2>4
  <2>7. \A n \in DOMAIN late : ToMember(late[n].borrower) \in Seq(Recipient)
    BY <2>5, <2>6, ToMemberType
  <2>8. [n \in DOMAIN late |-> ToMember(late[n].borrower)] \in Seq(Seq(Recipient))
    BY <2>6, <2>7
  <2>9. QED
    BY <2>8, FlattenType DEF EnqueueOverdueReminders, late
<1>3. EnqueueMeetingReminders \in Seq(Recipient)
  <2> DEFINE S == {m \in Member : MemberRow[m].active}
             members == SetToSeq(S)
  <2>1. IsFiniteSet(S)
    BY FS_Subset
  <2>2. members \in Seq(S)
    BY <2>1, SetToSeqType
  <2> HIDE DEF members
  <2>3. /\ DOMAIN members = 1..Len(members) /\ Len(members) \in Nat
        /\ \A n \in DOMAIN members : members[n] \in Member
    BY <2>2
  <2>4. \A n \in DOMAIN members : ToMember(members[n]) \in Seq(Recipient)
    BY <2>3, ToMemberType
  <2>5. [n \in DOMAIN members |-> ToMember(members[n])] \in Seq(Seq(Recipient))
    BY <2>3, <2>4
  <2>6. QED
    BY <2>5, FlattenType DEF EnqueueMeetingReminders, members
<1>4. command[c].key \notin {"approval_required", "overdue_repayment_reminder", "meeting_reminder"}
      => command[c].member \in Member
  BY DEF TriggerCommand, TemplateKey
<1>5. QED
  BY <1>1, <1>2, <1>3, <1>4, ToMemberType DEF Plan
-----------------------------------------------------------------------------
(* Why a trigger completes.                                                *)

Hand == SendStep \cup {"resetting", "auditingRetry", "crashed", "gaveUp"}

\* Call c works on notification i, or stopped at it.
Held(c, i) == command[c] # NoCommand /\ Target(c) = i /\ pc[c] \in Hand

\* A trigger has stored all that its turn has passed, and ends after its plan.
TriggerSound(c) ==
    /\ \A n \in Nat \ {0} : n < turn[c] => <<c, n>> \in Stored
    /\ pc[c] = "done" => turn[c] \notin DOMAIN Plan(c)

\* No notification is left untried by all calls.
TriggerInv ==
    /\ \A i \in Id : Untried(i) => \E c \in Call : Held(c, i)
    /\ \A c \in TriggerRun : TriggerSound(c)

\* A step of call c takes over what it makes untried, and drops nothing untried.
LEMMA HandsKept ==
    ASSUME TriggerInv, NEW c, Stored \subseteq Stored',
           \A d \in Call : d # c => pc'[d] = pc[d] /\ command'[d] = command[d] /\ turn'[d] = turn[d],
           \A i \in Id : Untried(i)' => Untried(i) \/ (c \in Call /\ Held(c, i)'),
           \A i \in Id : c \in Call /\ Held(c, i) /\ Untried(i)' => Held(c, i)',
           c \in TriggerRun => TriggerSound(c)'
    PROVE  TriggerInv'
<1>1. ASSUME NEW i \in Id, Untried(i)' PROVE \E d \in Call : Held(d, i)'
  <2>1. CASE Untried(i)
    <3>1. PICK d \in Call : Held(d, i)
      BY <2>1 DEF TriggerInv
    <3>2. d # c => Held(d, i)'
      BY <3>1 DEF Held, Target
    <3>3. QED
      BY <1>1, <3>1, <3>2
  <2>2. QED
    BY <1>1, <2>1
<1>2. ASSUME NEW d \in TriggerRun, d # c PROVE TriggerSound(d)'
  <2>1. d \in Call
    BY DEF Call
  <2>2. pc'[d] = pc[d] /\ command'[d] = command[d] /\ turn'[d] = turn[d]
    BY <1>2, <2>1
  <2>3. Plan(d)' = Plan(d)
    BY <2>2 DEF Plan
  <2>4. QED
    BY <2>2, <2>3 DEF TriggerInv, TriggerSound
<1>3. QED
  BY <1>1, <1>2 DEF TriggerInv

\* The call goes on with what it holds.
LEMMA HandGoesOn ==
    ASSUME TypeOK, TriggerInv, NEW c \in Call, NEW step, pc' = [pc EXCEPT ![c] = step],
           pc[c] \in Hand => step \in Hand, step # "done",
           UNCHANGED <<notifications, command, turn>>,
           \A i \in Id : messages[i] # <<>> => messages'[i] # <<>>
    PROVE  TriggerInv'
<1>1. pc'[c] = step /\ \A d \in Call : d # c => pc'[d] = pc[d]
  BY DEF TypeOK
<1>2. Stored' = Stored /\ Plan(c)' = Plan(c)
  BY DEF Stored, Plan
<1>3. \A i \in Id : Untried(i)' => Untried(i)
  BY <1>2 DEF Untried
<1>4. \A i \in Id : Held(c, i) => Held(c, i)'
  BY <1>1 DEF Held, Target
<1>5. c \in TriggerRun => TriggerSound(c)'
  BY <1>1, <1>2 DEF TriggerInv, TriggerSound
<1>6. QED
  BY <1>1, <1>2, <1>3, <1>4, <1>5, HandsKept

\* send returns only from a notification that is not untried any more.
LEMMA HandReturns ==
    ASSUME NotificationInv, TriggerInv, NEW c \in Call, pc[c] \in SendStep, SendReturns(c),
           UNCHANGED messages, Stored' = Stored, NEW i, i = Target(c), ~Untried(i)',
           \A j \in Id : j # i => notifications'[j] = notifications[j]
    PROVE  TriggerInv'
<1>1. /\ TypeOK /\ CallSound(c) /\ Target(c) \in Id /\ Target(c) \in Stored
      /\ UNCHANGED command
  BY SendTarget DEF SendReturns
<1>2. \A d \in Call : d # c => pc'[d] = pc[d] /\ command'[d] = command[d] /\ turn'[d] = turn[d]
  BY <1>1 DEF SendReturns, Goto, TypeOK
<1>3. \A j \in Id : Untried(j)' => Untried(j) /\ j # i
  BY DEF Untried
<1>4. c \in TriggerRun => TriggerSound(c)'
  <2> SUFFICES ASSUME c \in TriggerRun PROVE TriggerSound(c)'
    OBVIOUS
  <2>1. /\ pc'[c] = "queueing" /\ turn'[c] = turn[c] + 1 /\ turn[c] \in Nat
        /\ Target(c) = <<c, turn[c]>>
    BY <1>1 DEF SendReturns, Goto, TypeOK, Target
  <2>2. \A n \in Nat \ {0} : n < turn[c] + 1 => n < turn[c] \/ n = turn[c]
    BY <2>1
  <2>3. TriggerSound(c)
    BY DEF TriggerInv
  <2>4. \A n \in Nat \ {0} : n < turn'[c] => <<c, n>> \in Stored'
    BY <1>1, <2>1, <2>2, <2>3 DEF TriggerSound
  <2>5. QED
    BY <2>1, <2>4 DEF TriggerSound
<1>5. QED
  BY <1>1, <1>2, <1>3, <1>4, HandsKept DEF Held

LEMMA StartHand ==
    ASSUME NotificationInv, TriggerInv, NEW c \in Call, pc[c] = "idle",
           UNCHANGED <<notifications, messages, turn>>,
           NEW t, command' = [command EXCEPT ![c] = t],
           NEW step, pc' = [pc EXCEPT ![c] = step], step # "done"
    PROVE  TriggerInv'
<1>1. TypeOK
  BY DEF NotificationInv
<1>2. /\ pc'[c] = step
      /\ \A d \in Call : d # c => pc'[d] = pc[d] /\ command'[d] = command[d] /\ turn'[d] = turn[d]
  BY <1>1 DEF TypeOK
<1>3. Stored' = Stored
  BY DEF Stored
<1>4. \A i \in Id : Untried(i)' => Untried(i)
  BY <1>3 DEF Untried
<1>5. \A i \in Id : ~Held(c, i)
  BY DEF Held, Hand, SendStep
<1>6. c \in TriggerRun => TriggerSound(c)'
  BY <1>2, <1>3 DEF TriggerInv, TriggerSound
<1>7. QED
  BY <1>2, <1>3, <1>4, <1>5, <1>6, HandsKept

LEMMA QueueHand ==
    ASSUME NotificationInv, NotificationInv', TriggerInv, NEW c \in Call, Queue(c)
    PROVE  TriggerInv'
<1>1. TypeOK /\ CallSound(c) /\ c \in TriggerRun /\ c \notin Retry /\ pc[c] = "queueing"
  BY DEF NotificationInv, Queue, CallSound
<1>2. UNCHANGED <<messages, command, turn>>
  BY DEF Queue, callVars
<1>3. Plan(c)' = Plan(c)
  BY <1>2 DEF Plan
<1>4. \A i \in Id : ~Held(c, i)
  BY <1>1 DEF Held, Hand, SendStep
<1>5. CASE turn[c] \notin DOMAIN Plan(c) /\ pc' = [pc EXCEPT ![c] = "done"] /\ UNCHANGED notifications
  <2>1. Stored' = Stored
    BY <1>5 DEF Stored
  <2>2. \A i \in Id : Untried(i)' => Untried(i)
    BY <1>2, <1>5, <2>1 DEF Untried
  <2>3. TriggerSound(c)'
    BY <1>1, <1>2, <1>3, <1>5, <2>1 DEF TriggerInv, TriggerSound
  <2>4. \A d \in Call : d # c => pc'[d] = pc[d] /\ command'[d] = command[d] /\ turn'[d] = turn[d]
    BY <1>1, <1>2, <1>5 DEF TypeOK
  <2>5. QED
    BY <1>4, <2>1, <2>2, <2>3, <2>4, HandsKept
<1>6. CASE Enqueue(c) /\ pc' = [pc EXCEPT ![c] = "reading"]
  <2>1. PICK i, row : i = Target(c) /\ notifications' = [notifications EXCEPT ![i] = row]
    BY <1>6 DEF Enqueue
  <2>2. \A j \in Id : j # i => notifications'[j] = notifications[j]
    BY <1>1, <2>1 DEF TypeOK
  <2>3. /\ pc'[c] = "reading" /\ Target(c)' = i
        /\ \A d \in Call : d # c => pc'[d] = pc[d] /\ command'[d] = command[d] /\ turn'[d] = turn[d]
    BY <1>1, <1>2, <1>6, <2>1 DEF TypeOK, Target
  <2>4. i \in Stored' /\ i \in Id
    <3>1. CallSound(c)'
      BY DEF NotificationInv
    <3>2. i \in Stored'
      BY <2>3, <3>1 DEF CallSound, CallStep, SendStep
    <3>3. QED
      BY <3>2 DEF Stored
  <2>5. Stored \subseteq Stored'
    BY <2>2, <2>4 DEF Stored
  <2>6. \A j \in Id : Untried(j)' /\ j # i => Untried(j)
    BY <1>2, <2>2 DEF Untried, Stored
  <2>7. command'[c] # NoCommand
    BY <1>1, <1>2 DEF CallSound
  <2>8. Held(c, i)'
    BY <2>3, <2>7 DEF Held, Hand, SendStep
  <2>9. TriggerSound(c)'
    BY <1>1, <1>2, <2>3, <2>5 DEF TriggerInv, TriggerSound
  <2>10. QED
    BY <1>4, <2>3, <2>5, <2>6, <2>8, <2>9, HandsKept
<1>7. QED
  BY <1>5, <1>6 DEF Queue, Goto

LEMMA ResetHand ==
    ASSUME NotificationInv, TriggerInv, NEW c \in Call, Reset(c)
    PROVE  TriggerInv'
<1>1. /\ TypeOK /\ CallSound(c) /\ pc[c] = "resetting" /\ c \in Retry /\ c \notin TriggerRun
      /\ UNCHANGED <<messages, command, turn>>
  BY DEF NotificationInv, Reset, CallSound, callVars
<1>2. PICK i : i = Target(c)
  OBVIOUS
<1>3. i \in Stored
  BY <1>1, <1>2 DEF CallSound, CallStep
<1>4. PICK status \in Status : status = "QUEUED"
  BY DEF Status
<1>5. Rewrites(i)
  BY <1>1, <1>2, <1>3, <1>4, StatusSet DEF Reset
<1>6. i \in Id /\ Stored' = Stored
  BY <1>3, <1>5 DEF Rewrites, Stored
<1>7. /\ pc'[c] = "auditingRetry" /\ Target(c)' = i /\ command'[c] # NoCommand
      /\ \A d \in Call : d # c => pc'[d] = pc[d] /\ command'[d] = command[d] /\ turn'[d] = turn[d]
  BY <1>1, <1>2 DEF Reset, Goto, TypeOK, Target, CallSound
<1>8. \A j \in Id : Untried(j)' /\ j # i => Untried(j)
  BY <1>1, <1>5, <1>6 DEF Untried, Rewrites
<1>9. Held(c, i)'
  BY <1>7 DEF Held, Hand
<1>10. \A j \in Id : Held(c, j) => j = i
  BY <1>2 DEF Held
<1>11. QED
  BY <1>1, <1>6, <1>7, <1>8, <1>9, <1>10, HandsKept

\* send reads a notification, or leaves one that is neither queued nor failed.
LEMMA ReadHand ==
    ASSUME NotificationInv, TriggerInv, NEW c \in Call, ReadNotification(c)
    PROVE  TriggerInv'
<1>1. pc[c] \in SendStep /\ pc[c] \in CallStep \ {"queueing"} /\ UNCHANGED <<notifications, messages>>
  BY DEF ReadNotification, SendStep, CallStep
<1>2. TypeOK /\ Stored' = Stored
  BY <1>1 DEF NotificationInv, Stored
<1>3. CASE notifications[Target(c)].status \in {"QUEUED", "FAILED"}
  <2>1. pc' = [pc EXCEPT ![c] = "template"] /\ UNCHANGED <<command, turn>>
    BY <1>3 DEF ReadNotification, Goto
  <2>2. PICK step : step = "template"
    OBVIOUS
  <2>3. step \in Hand /\ step # "done"
    BY <2>2 DEF Hand, SendStep
  <2>4. QED
    BY <1>1, <1>2, <2>1, <2>2, <2>3, HandGoesOn
<1>4. CASE notifications[Target(c)].status \notin {"QUEUED", "FAILED"}
  <2>1. PICK i : i = Target(c)
    OBVIOUS
  <2>2. ~Untried(i)'
    BY <1>1, <1>4, <2>1 DEF Untried
  <2>3. SendReturns(c)
    BY <1>4 DEF ReadNotification
  <2>4. QED
    BY <1>1, <1>2, <2>1, <2>2, <2>3, HandReturns
<1>5. QED
  BY <1>3, <1>4

LEMMA MarkHand ==
    ASSUME NotificationInv, TriggerInv, NEW c \in Call, MarkFailed(c) \/ Cancel(c)
    PROVE  TriggerInv'
<1>1. pc[c] \in SendStep /\ SendReturns(c) /\ UNCHANGED messages
  BY DEF MarkFailed, Cancel, SendStep
<1>2. PICK i : i = Target(c)
  OBVIOUS
<1>3. TypeOK /\ i \in Stored
  BY <1>1, <1>2, SendTarget
<1>4. PICK status \in Status \ {"QUEUED"} : SetStatus(i, status)
  BY <1>2 DEF MarkFailed, Cancel, Status
<1>5. Rewrites(i) /\ notifications'[i].status = status
  BY <1>3, <1>4, StatusSet
<1>6. ~Untried(i)' /\ Stored' = Stored
  BY <1>4, <1>5 DEF Untried, Rewrites, Stored
<1>7. QED
  BY <1>1, <1>2, <1>5, <1>6, HandReturns DEF Rewrites

LEMMA RecordHand ==
    ASSUME NotificationInv, TriggerInv, NEW c \in Call, RecordSent(c) \/ RecordFailure(c)
    PROVE  TriggerInv'
<1>1. pc[c] \in SendStep /\ SendReturns(c) /\ UNCHANGED messages
  BY DEF RecordSent, RecordFailure, SendStep
<1>2. PICK i : i = Target(c)
  OBVIOUS
<1>3. TypeOK /\ i \in Id /\ i \in Stored /\ notifications[i] \in NotificationRow
  BY <1>1, <1>2, SendTarget
<1>4. PICK row : /\ notifications' = [notifications EXCEPT ![i] = row]
                 /\ row \in NotificationRow
                 /\ row.status # "QUEUED" \/ row.retryCount # 0
  <2>1. CASE RecordSent(c)
    <3>1. PICK row : row = [notifications[i] EXCEPT
                                !.status = "SENT",
                                !.providerMessageId =
                                    IF result[c].message = NoMessage THEN @ ELSE result[c].message]
      OBVIOUS
    <3>2. result[c].message \in Message \cup {NoMessage}
      BY <1>3 DEF TypeOK
    <3>3. row \in NotificationRow /\ row.status = "SENT"
      BY <1>3, <3>1, <3>2 DEF NotificationRow, Status
    <3>4. notifications' = [notifications EXCEPT ![i] = row]
      BY <1>2, <1>3, <2>1, <3>1 DEF RecordSent, TypeOK
    <3>5. QED
      BY <3>3, <3>4
  <2>2. CASE RecordFailure(c)
    <3>1. PICK n : n = result[c].retryCount + 1
      OBVIOUS
    <3>2. n \in Nat /\ n # 0
      BY <1>3, <3>1 DEF TypeOK
    <3>3. PICK row : row = [notifications[i] EXCEPT
                                !.retryCount = n,
                                !.status = IF n >= MAX_RETRIES THEN "FAILED" ELSE "QUEUED"]
      OBVIOUS
    <3>4. row \in NotificationRow /\ row.retryCount = n
      BY <1>3, <3>2, <3>3 DEF NotificationRow, Status
    <3>5. notifications' = [notifications EXCEPT ![i] = row]
      BY <1>2, <1>3, <2>2, <3>1, <3>3 DEF RecordFailure, TypeOK
    <3>6. QED
      BY <3>2, <3>4, <3>5
  <2>3. QED
    BY <2>1, <2>2
<1>5. notifications'[i] = row /\ \A j \in Id : j # i => notifications'[j] = notifications[j]
  BY <1>3, <1>4 DEF TypeOK
<1>6. ~Untried(i)' /\ Stored' = Stored
  BY <1>3, <1>4, <1>5 DEF Untried, Stored
<1>7. QED
  BY <1>1, <1>2, <1>5, <1>6, HandReturns

\* The other steps of a call go on, or stop at what they hold.
LEMMA OtherHand ==
    ASSUME NotificationInv, TriggerInv, NEW c \in Call,
           \/ ResolveTemplate(c) \/ CheckPreference(c) \/ DispatchInApp(c) \/ DispatchSms(c)
           \/ DispatchThrows(c) \/ CheckRetry(c) \/ AuditRetry(c) \/ Crash(c)
    PROVE  TriggerInv'
<1>1. TypeOK /\ CallSound(c)
  BY DEF NotificationInv
<1>2. UNCHANGED <<notifications, command, turn>>
  BY DEF ResolveTemplate, CheckPreference, DispatchInApp, DispatchSms, DispatchThrows, CheckRetry,
         AuditRetry, Crash, callVars
<1>3. PICK step \in {"failing", "preference", "dispatching", "cancelling", "recordingSent",
                     "recordingFailure", "gaveUp", "resetting", "refused", "reading", "crashed"} :
         /\ pc' = [pc EXCEPT ![c] = step]
         /\ step = "refused" => pc[c] = "checking"
  BY DEF ResolveTemplate, CheckPreference, DispatchInApp, DispatchSms, DispatchThrows, CheckRetry,
         AuditRetry, Crash, Goto, Leave
<1>4. (pc[c] \in Hand => step \in Hand) /\ step # "done"
  BY <1>3 DEF Hand, SendStep
<1>5. \A i \in Id : messages[i] # <<>> => messages'[i] # <<>>
  <2>1. CASE messages' = messages
    BY <2>1
  <2>2. CASE Accepts(Target(c)) /\ pc[c] \in SendStep
    <3> PICK i : i = Target(c)
      OBVIOUS
    <3>1. PICK fate \in Fate :
             i = Target(c) /\ messages' = [messages EXCEPT ![i] = Append(messages[i], fate)]
      BY <2>2 DEF Accepts
    <3>2. i \in Id
      BY <2>2, <3>1, SendTarget
    <3>3. messages[i] \in Seq(Fate)
      BY <1>1, <3>2 DEF TypeOK
    <3>4. Append(messages[i], fate) # <<>>
      BY <3>3
    <3>5. QED
      BY <1>1, <3>1, <3>2, <3>4 DEF TypeOK
  <2>3. QED
    BY <2>1, <2>2 DEF ResolveTemplate, CheckPreference, DispatchInApp, DispatchSms, DispatchThrows,
         CheckRetry, AuditRetry, Crash, SendStep
<1>6. QED
  BY <1>1, <1>2, <1>3, <1>4, <1>5, HandGoesOn

\* A report leaves the calls alone, and never queues a notification again.
LEMMA ReportHand ==
    ASSUME NotificationInv, TriggerInv, NEW w \in Callback,
           ReportArrives(w) \/ Handle(w) \/ Crash(w)
    PROVE  TriggerInv'
<1>1. TypeOK /\ ReportSound(w) /\ w \notin Call
  BY DEF NotificationInv
<1>2. UNCHANGED <<messages, command, turn>>
  BY DEF ReportArrives, Handle, FindNotification, ApplyReport, AuditReport, Crash, callVars
<1>3. \A d \in Call : pc'[d] = pc[d]
  <2>1. PICK step : pc' = [pc EXCEPT ![w] = step]
    BY DEF ReportArrives, Handle, FindNotification, ApplyReport, AuditReport, Crash, Goto, Leave
  <2>2. QED
    BY <1>1, <2>1 DEF TypeOK
<1>4. Stored' = Stored /\ \A i \in Id : Untried(i)' => Untried(i)
  <2>1. CASE UNCHANGED notifications
    BY <1>2, <2>1 DEF Stored, Untried
  <2>2. CASE ApplyReport(w)
    <3>1. PICK i \in Id : report[w].found = i /\ i \in Stored
      BY <1>1, <2>2 DEF ApplyReport, ReportSound, CallbackStep
    <3>2. PICK status \in Status \ {"QUEUED"} : SetStatus(i, status)
      BY <2>2, <3>1 DEF ApplyReport, MapToInternalStatus, Status
    <3>3. Rewrites(i) /\ notifications'[i].status = status
      BY <1>1, <3>1, <3>2, StatusSet
    <3>4. Stored' = Stored
      BY <3>3 DEF Rewrites, Stored
    <3>5. QED
      BY <1>2, <3>2, <3>3, <3>4 DEF Untried, Rewrites
  <2>3. QED
    BY <2>1, <2>2 DEF ReportArrives, Handle, FindNotification, AuditReport, Crash
<1>5. w \notin TriggerRun
  BY <1>1 DEF Call
<1>6. QED
  BY <1>1, <1>2, <1>3, <1>4, <1>5, HandsKept

LEMMA TriggerInit == Init => TriggerInv
<1> SUFFICES ASSUME Init PROVE TriggerInv
  OBVIOUS
<1>1. \A i \in Id : ~Untried(i)
  BY DEF Init, Untried, Stored
<1>2. ASSUME NEW c \in TriggerRun PROVE TriggerSound(c)
  <2>1. turn[c] = 1 /\ pc[c] = "idle"
    BY DEF Init, Call
  <2>2. QED
    BY <2>1 DEF TriggerSound
<1>3. QED
  BY <1>1, <1>2 DEF TriggerInv

LEMMA TriggerStep == NotificationInv /\ NotificationInv' /\ TriggerInv /\ [Next]_vars => TriggerInv'
<1> SUFFICES ASSUME NotificationInv, NotificationInv', TriggerInv, [Next]_vars PROVE TriggerInv'
  OBVIOUS
<1>1. ASSUME NEW c \in TriggerRun, StartTrigger(c) PROVE TriggerInv'
  <2>1. PICK t : command' = [command EXCEPT ![c] = t]
    BY <1>1 DEF StartTrigger
  <2>2. PICK step : step = "queueing"
    OBVIOUS
  <2>3. c \in Call
    BY DEF Call
  <2>4. /\ pc[c] = "idle" /\ UNCHANGED <<notifications, messages, turn>>
        /\ pc' = [pc EXCEPT ![c] = step] /\ step # "done"
    BY <1>1, <2>2 DEF StartTrigger, Goto
  <2>5. QED
    BY <2>1, <2>3, <2>4, StartHand
<1>2. ASSUME NEW c \in Retry, RequestRetry(c) PROVE TriggerInv'
  <2>1. PICK t : command' = [command EXCEPT ![c] = t]
    BY <1>2 DEF RequestRetry
  <2>2. PICK step : step = "checking"
    OBVIOUS
  <2>3. c \in Call
    BY DEF Call
  <2>4. /\ pc[c] = "idle" /\ UNCHANGED <<notifications, messages, turn>>
        /\ pc' = [pc EXCEPT ![c] = step] /\ step # "done"
    BY <1>2, <2>2 DEF RequestRetry, Goto
  <2>5. QED
    BY <2>1, <2>3, <2>4, StartHand
<1>3. ASSUME NEW c \in Call, Advance(c) PROVE TriggerInv'
  BY <1>3, QueueHand, ReadHand, MarkHand, RecordHand, OtherHand, ResetHand DEF Advance, Send
<1>4. CASE UNCHANGED vars
  <2>1. UNCHANGED <<notifications, messages, pc, command, turn>>
    BY <1>4 DEF vars, callVars
  <2>2. Stored' = Stored /\ \A i \in Id : Untried(i)' <=> Untried(i)
    BY <2>1 DEF Stored, Untried
  <2>3. \A c : Target(c)' = Target(c) /\ Plan(c)' = Plan(c)
    BY <2>1 DEF Target, Plan
  <2>4. QED
    BY <2>1, <2>2, <2>3 DEF TriggerInv, TriggerSound, Held
<1>5. QED
  BY <1>1, <1>2, <1>3, <1>4, OtherHand, ReportHand DEF Next

\* Whatever is queued and untried is in the hands of a call that works on it or
\* stopped at it, and a trigger that ended has stored its whole plan.
THEOREM TriggerInvariant == Spec => [](NotificationInv /\ TriggerInv)
<1>1. Init => NotificationInv /\ TriggerInv
  BY NotificationInit, TriggerInit
<1>2. NotificationInv /\ TriggerInv /\ [Next]_vars => (NotificationInv /\ TriggerInv)'
  BY NotificationStep, TriggerStep
<1>3. QED
  BY <1>1, <1>2, PTL DEF Spec

\* A trigger that ran to its end wrote to everyone of its plan: whatever went wrong
\* with one notification, the next was queued and tried, unless a crash or an
\* exception stopped the call at it (notification-triggers.service.ts).
THEOREM TriggersComplete == Spec => []TriggerCompletes
<1>1. NotificationInv /\ TriggerInv => TriggerCompletes
  <2> SUFFICES ASSUME NotificationInv, TriggerInv, NEW c \in TriggerRun, pc[c] = "done",
                      NEW n \in DOMAIN Plan(c)
               PROVE  /\ <<c, n>> \in Stored
                      /\ Untried(<<c, n>>) => WorkedOn(<<c, n>>) \/ StoppedAt(<<c, n>>)
    BY DEF TriggerCompletes
  <2>1. TypeOK /\ CallSound(c) /\ c \in Call /\ c \notin Retry
    BY DEF NotificationInv, Call
  <2>2. command[c] \in TriggerCommand
    BY <2>1 DEF CallSound
  <2>3. Plan(c) \in Seq(Recipient)
    BY <2>2, PlanType
  <2>4. DOMAIN Plan(c) = 1..Len(Plan(c)) /\ Len(Plan(c)) \in Nat
    BY <2>3
  <2>5. turn[c] \in Nat \ {0} /\ turn[c] \notin DOMAIN Plan(c)
    BY <2>1 DEF TypeOK, TriggerInv, TriggerSound
  <2>6. n \in Nat \ {0} /\ n < turn[c]
    BY <2>4, <2>5
  <2>7. <<c, n>> \in Stored
    BY <2>6 DEF TriggerInv, TriggerSound
  <2>8. ASSUME Untried(<<c, n>>)
        PROVE  WorkedOn(<<c, n>>) \/ StoppedAt(<<c, n>>)
    <3>1. PICK i \in Id : i = <<c, n>>
      BY <2>7 DEF Stored
    <3>2. PICK d \in Call : Held(d, i)
      BY <2>8, <3>1 DEF TriggerInv
    <3>3. WorkedOn(i) \/ StoppedAt(i)
      BY <3>2 DEF Held, Hand, WorkedOn, StoppedAt, CallStep
    <3>4. QED
      BY <3>1, <3>3
  <2>9. QED
    BY <2>7, <2>8
<1>2. QED
  BY <1>1, TriggerInvariant, PTL
=============================================================================
