------------------------------- MODULE Forms --------------------------------
(***************************************************************************)
(* The pages that record something (frontend/app/treasurer and the loan    *)
(* request of frontend/app/member), their handlers and mutation hooks, in  *)
(* one tab over a network that delays, loses and loses answers.  The       *)
(* server is what the other modules show it to promise: one repayment and  *)
(* one contribution per idempotency key, one decision, one reversal, and   *)
(* no key at all on waivers, reschedules and applications.  A tab works in *)
(* one area, the pages of the others sharing neither forms nor query keys. *)
(***************************************************************************)
EXTENDS QueryCache, FiniteSets, SequencesExt

CONSTANTS
    Roll,           \* the members of the group, in the order of the meeting page
    MaxAmount,      \* largest amount typed
    Debt,           \* what the loan of the tab is repaid with
    MaxRequests,    \* bound on the mutations sent
    MaxVisits,      \* MaxVisits[a]: bound on the forms opened in area a
    MaxElsewhere    \* MaxElsewhere[a]: bound on what other clients record meanwhile

\* The query keys: of the row that the area is about, and of the list it is in.
Detail == <<"detail">>
List == <<"list">>

\* Those of the support pages ("admin") are in SupportPages.
Area == {"repay", "entry", "reverse", "decide", "loan", "request", "admin"}

ASSUME FormsAssumption ==
    /\ {Detail, List} \subseteq Key
    /\ MaxAmount \in Nat /\ Debt \in Nat \ {0}
    /\ Roll \in Seq(ToSet(Roll)) /\ Len(Roll) > 0
    /\ NoData \notin Nat
    /\ MaxRequests \in Nat
    /\ MaxVisits \in [Area -> Nat] /\ MaxElsewhere \in [Area -> Nat]

VARIABLES
    area,           \* the pages that the tab is on
    tab,            \* the page that is open and the state of its component
    sent,           \* the mutations sent, request r being sent[r]
    fate,           \* fate[r]: what the server did with it
    pending,        \* the requests whose answer is awaited
    stored,         \* the rows of the server, in the order they were recorded
    elsewhere,      \* how many of them other clients recorded
    acknowledged,   \* history: the requests whose success the tab has seen
    gaveUp,         \* history: those that ended without an answer
    overtaken       \* history: keys whose fetch began before a write and outlived its page

serverVars == <<fate, stored, elsewhere>>
historyVars == <<acknowledged, gaveUp, overtaken>>
formVars == <<area, tab, sent, pending, serverVars, historyVars>>
formsVars == <<cacheVars, formVars>>

Member == ToSet(Roll)
Borrower == Head(Roll)

\* The mutations that each area's dialogs confirm.
Dialog ==
    [a \in Area |-> CASE a = "reverse" -> {"reversal"}
                      [] a = "decide" -> {"approve", "reject"}
                      [] a = "loan" -> {"waiver", "reschedule"}
                      [] OTHER -> {}]

Operation ==
    {"repayment", "bulk", "application"} \cup UNION {Dialog[a] : a \in Area}

NoFile == 0
NoKey == 0

BlankForm ==
    [screen |-> "list", visit |-> 0, intent |-> 0, step |-> "edit", op |-> "none",
     draft |-> [m \in Member |-> 0], key |-> 0, file |-> NoFile, files |-> 0,
     uploading |-> FALSE, loaded |-> FALSE, told |-> {}, answered |-> 0,
     refetch |-> "none", allocation |-> 0]

FormsTypeOK ==
    /\ area \in Area
    /\ tab.screen \in {"list", "form", "broken"}
    /\ tab.step \in {"edit", "confirm", "done"}
    /\ tab.refetch \in {"none", "awaited", "cut off"}
    /\ tab.op \in Operation \cup {"none"} /\ tab.draft \in [Member -> 0..MaxAmount]
    /\ tab.told \subseteq {"already", "success"}
    /\ pending \subseteq DOMAIN sent /\ Len(sent) <= MaxRequests
    /\ fate \in [1..MaxRequests -> {"unsent", "inFlight", "recorded", "refused", "linked"}]
    /\ \A i \in DOMAIN stored : stored[i].by \in 0..Len(sent)
    /\ fresh \subseteq Key /\ failed \subseteq Key
    /\ acknowledged \cap gaveUp = {}
-----------------------------------------------------------------------------
(* What the pages read from the rows up to the one cached.                 *)

NewRow(op, key, member, amount, file, by) ==
    [op |-> op, key |-> key, member |-> member, amount |-> amount, file |-> file, by |-> by]

Seen(k) == IF data[k] = NoData THEN <<>> ELSE SubSeq(stored, 1, data[k])

Repaid(rows) == FoldSeq(LAMBDA row, sum : row.amount + sum, 0,
                        SelectSeq(rows, LAMBDA row : row.op = "repayment"))

Has(rows, op) == \E i \in DOMAIN rows : rows[i].op = op

LoanActive(rows) == Repaid(rows) < Debt /\ ~Has(rows, "reschedule")

Decided(rows) == Has(rows, "approve") \/ Has(rows, "reject")

\* The query that a screen of the area shows; the members list of the meeting
\* page and the rule hints of the request page change with nothing here.
ShownBy(screen) ==
    CASE screen = "list" -> IF area = "repay" THEN {Detail} ELSE {List}
      [] screen = "form" /\ area \notin {"entry", "request"} -> {Detail}
      [] OTHER -> {}

Active == ShownBy(tab.screen)

\* A page whose query has an answer and no error renders its content.
Rendered == \A k \in Active : data[k] # NoData /\ k \notin failed

FormShown == tab.screen = "form" /\ Rendered

\* The repayment page calls useBeforeUnload below two early returns, so React
\* throws when the query gets or loses its data while the page is mounted.
AfterRender(t, hasData) ==
    IF area = "repay" /\ t.screen = "form" /\ t.loaded # hasData
    THEN [t EXCEPT !.screen = "broken"]
    ELSE t
NothingRecorded ==
    /\ sent = <<>> /\ fate = [r \in 1..MaxRequests |-> "unsent"] /\ pending = {}
    /\ stored = <<>> /\ elsewhere = 0
    /\ acknowledged = {} /\ gaveUp = {} /\ overtaken = {}

\* The tab is opened at the list or summary that its form is reached from.
FormsInit ==
    /\ area \in Area \ {"admin"}
    /\ tab = BlankForm
    /\ data = [k \in Key |-> NoData] /\ fresh = {} /\ failed = {}
    /\ fetch = [k \in Key |-> IF k \in ShownBy("list") THEN Sent(NoData) ELSE Idle]
    /\ NothingRecorded
-----------------------------------------------------------------------------
(* Pages.                                                                  *)

Reload(screen) ==
    /\ data' = [k \in Key |-> NoData] /\ fresh' = {} /\ failed' = {}
    /\ fetch' = [k \in Key |-> IF k \in ShownBy(screen) THEN Sent(NoData) ELSE Idle]
    /\ pending' = {} /\ gaveUp' = gaveUp \cup pending
    /\ overtaken' = {}
    /\ UNCHANGED <<area, sent, serverVars, acknowledged>>

\* A component is mounted: its state is new, its query is fetched unless fresh.
NewForm ==
    [BlankForm EXCEPT !.screen = "form", !.visit = tab.visit + 1, !.intent = Len(sent) + 1,
                       !.files = tab.files]

\* A link back.  A mutation under way goes on without its page.
ShowList ==
    /\ tab.screen = "form"
    /\ tab' = [tab EXCEPT !.screen = "list", !.step = "edit", !.op = "none",
                       !.uploading = FALSE, !.refetch = "none", !.told = {}]
    /\ fetch' = FetchIfStale(ShownBy("list"), NoData)
    /\ overtaken' = overtaken \ {k \in Key : fetch'[k] # fetch[k]}
    /\ UNCHANGED <<data, fresh, failed, area, sent, pending, serverVars, acknowledged, gaveUp>>

\* The link to the form.  The loan page has one for a loan with something left to
\* pay, the list of active loans one for every loan.
OpenForm ==
    /\ tab.screen = "list" /\ tab.visit < MaxVisits[area]
    /\ fetch' = FetchIfStale(ShownBy("form"), NoData)
    /\ tab' = [NewForm EXCEPT !.loaded = \A k \in ShownBy("form") : data[k] # NoData /\ k \notin failed]
    /\ overtaken' = overtaken \ {k \in Key : fetch'[k] # fetch[k]}
    /\ UNCHANGED <<data, fresh, failed, area, sent, pending, serverVars, acknowledged, gaveUp>>

\* An address is typed, or the page reloaded: the tab begins anew.
OpenByAddress ==
    /\ tab.visit < MaxVisits[area]
    /\ \/ tab' = NewForm /\ Reload("form")
       \/ /\ tab.screen = "broken" \/ fetch = [k \in Key |-> Idle]
          /\ tab' = [BlankForm EXCEPT !.visit = tab.visit, !.files = tab.files]
          /\ Reload("list")

\* The window gets the focus: stale queries of the page are fetched.
Refocus ==
    /\ Active \ fresh # {} /\ tab.screen # "broken"
    /\ fetch' = FetchIfStale(Active, NoData)
    /\ fetch' # fetch
    /\ overtaken' = overtaken \ {k \in Key : fetch'[k] # fetch[k]}
    /\ UNCHANGED <<data, fresh, failed, area, tab, sent, pending, serverVars, acknowledged, gaveUp>>

IsPending == \E r \in pending : sent[r].visit = tab.visit

TypeAmount(m) ==
    /\ tab.screen = "form" /\ tab.step = "edit"
    /\ \E v \in (0..MaxAmount) \ {tab.draft[m]} : tab' = [tab EXCEPT !.draft[m] = v]
    /\ UNCHANGED <<cacheVars, area, sent, pending, serverVars, historyVars>>

TypeRepayment == area = "repay" /\ FormShown /\ TypeAmount(Borrower)

\* updateRow; a member marked absent has nothing.
TypeRow == area = "entry" /\ \E m \in Member : TypeAmount(m)

TypeApplication == area = "request" /\ TypeAmount(Borrower)

\* The evidence field uploads a file as it is selected, the first or another in its
\* place; when that fails, the form keeps what it had.
SelectFile ==
    /\ area = "repay" /\ FormShown /\ tab.step = "edit"
    /\ ~tab.uploading /\ tab.files < MaxVisits[area]
    /\ tab' = [tab EXCEPT !.uploading = TRUE]
    /\ UNCHANGED <<cacheVars, area, sent, pending, serverVars, historyVars>>

FinishUpload ==
    /\ tab.screen = "form" /\ tab.uploading
    /\ \/ tab' = [tab EXCEPT !.uploading = FALSE, !.file = tab.files + 1, !.files = tab.files + 1]
       \/ tab' = [tab EXCEPT !.uploading = FALSE]
    /\ UNCHANGED <<cacheVars, area, sent, pending, serverVars, historyVars>>

RemoveFile ==
    /\ area = "repay" /\ FormShown /\ tab.step = "edit"
    /\ tab.file # NoFile /\ ~tab.uploading
    /\ tab' = [tab EXCEPT !.file = NoFile]
    /\ UNCHANGED <<cacheVars, area, sent, pending, serverVars, historyVars>>

\* To the summary of the meeting, or to the confirmation of the request.
Review ==
    /\ tab.screen = "form" /\ tab.step = "edit"
    /\ \E m \in Member : tab.draft[m] > 0
    /\ tab' = [tab EXCEPT !.step = "confirm"]
    /\ UNCHANGED <<cacheVars, area, sent, pending, serverVars, historyVars>>

ReviewBatch == area = "entry" /\ Review
ReviewApplication == area = "request" /\ Review

\* A dialog opens over a page whose row, as cached, still allows it.
OpenDialog(op) ==
    /\ FormShown /\ tab.step = "edit"
    /\ tab' = [tab EXCEPT !.step = "confirm", !.op = op, !.intent = Len(sent) + 1]
    /\ UNCHANGED <<cacheVars, area, sent, pending, serverVars, historyVars>>

OpenReversal == area = "reverse" /\ ~Has(Seen(Detail), "reversal") /\ OpenDialog("reversal")

OpenDecision ==
    area = "decide" /\ ~Decided(Seen(Detail)) /\ \E op \in Dialog["decide"] : OpenDialog(op)

OpenServicing ==
    area = "loan" /\ LoanActive(Seen(Detail)) /\ \E op \in Dialog["loan"] : OpenDialog(op)

\* Back, or Cancel of a dialog.
Back ==
    /\ tab.screen = "form" /\ tab.step = "confirm" /\ ~IsPending
    /\ tab' = [tab EXCEPT !.step = "edit", !.op = "none"]
    /\ UNCHANGED <<cacheVars, area, sent, pending, serverVars, historyVars>>
-----------------------------------------------------------------------------
(* Submitting.                                                             *)

\* The key that a request sends for a member: made at the first submission of a
\* mounted repayment page and kept, made of meeting and member for a batch.
KeyFor(r, m) ==
    CASE sent[r].op = "repayment" -> sent[r].key
      [] sent[r].op = "bulk" -> m
      [] OTHER -> NoKey

\* mutateAsync.
Submit(op, key) ==
    /\ Len(sent) < MaxRequests
    /\ LET r == Len(sent) + 1 IN
       /\ sent' = Append(sent, [op |-> op, key |-> key, items |-> tab.draft, file |-> tab.file,
                                visit |-> tab.visit, intent |-> tab.intent])
       /\ fate' = [fate EXCEPT ![r] = "inFlight"]
       /\ pending' = pending \cup {r}
    /\ tab' = [tab EXCEPT !.key = key, !.told = tab.told \ {"success"}]
    /\ UNCHANGED <<cacheVars, area, stored, elsewhere, historyVars>>

\* Defect: every submission makes a key.
NewKey == Len(sent) + 1

\* idempotencyKeyRef: the request that first used the key stands for it.
RepaymentKey == IF tab.key = 0 THEN Len(sent) + 1 ELSE tab.key

\* The button is not disabled while a file is uploaded, so it may go without.
SubmitRepayment ==
    /\ area = "repay" /\ FormShown /\ tab.step = "edit"
    /\ LoanActive(Seen(Detail))
    /\ ~IsPending /\ tab.draft[Borrower] > 0
    /\ Submit("repayment", RepaymentKey)

SubmitBatch ==
    /\ area = "entry" /\ tab.screen = "form" /\ tab.step = "confirm"
    /\ ~IsPending
    /\ Submit("bulk", 0)

\* Confirm in a dialog, whose reason has been filled in where it needs one.
ConfirmDialog(op) ==
    /\ FormShown /\ tab.step = "confirm" /\ tab.op = op
    /\ ~IsPending
    /\ Submit(op, 0)

ConfirmReversal == ConfirmDialog("reversal")
ConfirmApproval == ConfirmDialog("approve")
ConfirmRejection == ConfirmDialog("reject")
ConfirmWaiver == ConfirmDialog("waiver")
ConfirmReschedule == ConfirmDialog("reschedule")

SubmitApplication ==
    /\ area = "request" /\ tab.screen = "form" /\ tab.step = "confirm"
    /\ ~IsPending
    /\ Submit("application", 0)
-----------------------------------------------------------------------------
(* The server.                                                             *)

Stored(op, key) == \E i \in DOMAIN stored : stored[i].op = op /\ stored[i].key = key

Linked(file) == file # NoFile /\ \E i \in DOMAIN stored : stored[i].file = file

Settle(r, outcome, rows) ==
    /\ fate[r] = "inFlight"
    /\ fate' = [fate EXCEPT ![r] = outcome]
    /\ stored' = stored \o rows
    /\ UNCHANGED <<cacheVars, area, tab, sent, pending, elsewhere, historyVars>>

\* recordRepayment: the state of the loan, then the evidence, then the key.
ServeRepayment(r) ==
    LET q == sent[r]
        amount == q.items[Borrower]
        paidOff == Repaid(stored) >= Debt
    IN
    /\ q.op = "repayment"
    /\ CASE paidOff -> Settle(r, "refused", <<>>)
         [] ~paidOff /\ Linked(q.file) -> Settle(r, "linked", <<>>)
         [] ~paidOff /\ ~Linked(q.file) /\ Stored("repayment", q.key) ->
                Settle(r, "recorded", <<>>)
         [] OTHER ->
                IF Repaid(stored) + amount > Debt THEN Settle(r, "refused", <<>>)
                ELSE Settle(r, "recorded",
                            <<NewRow("repayment", q.key, Borrower, amount, q.file, r)>>)

\* recordBulk: item after item, each under its key; a refused one ends the batch.
\* (Its rows are stored in one step, so their order is nobody's to see.)
ServeBulk(r) ==
    /\ sent[r].op = "bulk"
    /\ \E n \in 0..Len(Roll) :
          LET items == {m \in Member : sent[r].items[m] > 0}
              served == items \cap {Roll[i] : i \in 1..n}
              new == SetToSeq({m \in served : ~Stored("bulk", KeyFor(r, m))})
          IN
          Settle(r, IF served = items THEN "recorded" ELSE "refused",
                 [i \in DOMAIN new |-> NewRow("bulk", KeyFor(r, new[i]), new[i],
                                              sent[r].items[new[i]], NoFile, r)])

\* A reversal, a decision, a waiver or a reschedule is refused when the row is
\* past it.  (A write-off always is: its dialog is left out.)
Allowed(op) ==
    CASE op = "reversal" -> ~Has(stored, "reversal")
      [] op \in {"approve", "reject"} -> ~Decided(stored)
      [] op \in {"waiver", "reschedule"} -> LoanActive(stored)
      [] op = "application" -> TRUE
      [] OTHER -> FALSE

ServeOther(r) ==
    /\ sent[r].op \notin {"repayment", "bulk"}
    /\ IF Allowed(sent[r].op)
       THEN Settle(r, "recorded", <<NewRow(sent[r].op, NoKey, Borrower, 0, NoFile, r)>>)
       ELSE Settle(r, "refused", <<>>)

\* What another client records: its repayments under keys of its own, its batch
\* under those of the meeting.
RecordElsewhere ==
    /\ elsewhere < MaxElsewhere[area]
    /\ \E op \in Operation \ {"application"} :
          /\ CASE area = "repay" -> op = "repayment" /\ Repaid(stored) < Debt
               [] area = "entry" -> op = "bulk" /\ ~Stored("bulk", Borrower)
               [] OTHER -> op \in Dialog[area] /\ Allowed(op)
          /\ stored' = Append(stored,
                NewRow(op, IF op = "bulk" THEN Borrower ELSE NoKey, Borrower, 1, NoFile, 0))
    /\ elsewhere' = elsewhere + 1
    /\ UNCHANGED <<cacheVars, area, tab, sent, fate, pending, historyVars>>

-----------------------------------------------------------------------------
(* Answers.                                                                *)

\* onSuccess of the mutation hooks.  A batch does not invalidate the history of
\* the group, a request nothing at all.
RepaymentInvalidates == {Detail, List}

\* Defect: the list keeps what it had.
ReversalInvalidatesDetail == {Detail}

ReversalInvalidates == {Detail, List}
DecisionInvalidates == {Detail, List}
ServicingInvalidates == {Detail, List}
BatchInvalidates == {List}

InvalidatedBy(op) ==
    CASE op = "repayment" -> RepaymentInvalidates
      [] op = "bulk" -> BatchInvalidates
      [] op = "reversal" -> ReversalInvalidates
      [] op \in {"approve", "reject"} -> DecisionInvalidates
      [] op \in {"waiver", "reschedule"} -> ServicingInvalidates
      [] op = "application" -> {}

\* The handlers then fetch the detail again, even if the page has been left.
RefetchedAfter(op) == IF op \in {"bulk", "application"} THEN {} ELSE {Detail}

Here(r) == tab.screen = "form" /\ sent[r].visit = tab.visit

\* An index into the rows: that of the last repayment, or none.
LastRepayment(rows) ==
    LET own == {i \in DOMAIN rows : rows[i].op = "repayment"}
    IN IF own = {} THEN 0 ELSE Max(own)

\* Another fetch ends the refetch that a handler of the repayment page awaits,
\* and the handler takes what is cached.
CutOff(t) ==
    IF t.refetch = "awaited"
    THEN [t EXCEPT !.refetch = "cut off", !.step = "done", !.told = @ \cup {"success"},
                   !.allocation = LastRepayment(Seen(Detail))]
    ELSE t

\* Defect: the page takes the allocation from what it has cached.
AfterRepaymentAtOnce(r) ==
    IF Here(r) THEN [CutOff([tab EXCEPT !.refetch = "awaited"])
                     EXCEPT !.refetch = "none", !.answered = r]
    ELSE tab

\* What the handlers do on success: the repayment page waits for the detail ...
AfterRepayment(r) ==
    IF Here(r) THEN [CutOff(tab) EXCEPT !.refetch = "awaited", !.answered = r] ELSE CutOff(tab)

Closed(r) == [tab EXCEPT !.step = "edit", !.op = "none", !.told = {"success"}, !.answered = r]

\* ... the entry and the request go to their list wherever the tab is by then ...
AfterBatch(r) == [Closed(r) EXCEPT !.screen = "list"]
AfterApplication(r) == [Closed(r) EXCEPT !.screen = "list"]

\* ... and the dialogs are closed.
AfterReversal(r) == IF Here(r) THEN Closed(r) ELSE tab
AfterDecision(r) == IF Here(r) THEN Closed(r) ELSE tab
AfterServicing(r) == IF Here(r) THEN Closed(r) ELSE tab

AfterSuccess(r) ==
    LET op == sent[r].op IN
    CASE op = "repayment" -> AfterRepayment(r)
      [] op = "bulk" -> AfterBatch(r)
      [] op = "application" -> AfterApplication(r)
      [] op = "reversal" -> AfterReversal(r)
      [] op \in {"approve", "reject"} -> AfterDecision(r)
      [] op \in {"waiver", "reschedule"} -> AfterServicing(r)

Success(r) ==
    /\ r \in pending /\ fate[r] = "recorded"
    /\ LET op == sent[r].op
           after == AfterSuccess(r)
           left == IF after.screen = "list" THEN ShownBy("list") ELSE Active
           anew == (left \cap InvalidatedBy(op)) \cup RefetchedAfter(op)
           fetched == FetchAnew(anew, NoData)
       IN
       /\ tab' = after
       /\ fresh' = fresh \ InvalidatedBy(op)
       /\ fetch' = [k \in Key |-> IF k \in left \ fresh' /\ fetched[k] = Idle
                                  THEN Sent(NoData) ELSE fetched[k]]
       /\ overtaken' = overtaken \cup
              {k \in InvalidatedBy(op) : fetch[k] # Idle /\ fetch'[k] = fetch[k] /\ fetch[k] # Sent(NoData)}
    /\ pending' = pending \ {r}
    /\ acknowledged' = acknowledged \cup {r}
    /\ UNCHANGED <<data, failed, area, sent, serverVars, gaveUp>>

Told(r, news) == IF Here(r) THEN [tab EXCEPT !.told = @ \cup news] ELSE tab

\* Defect: whatever the server refuses has been recorded.
NewsOfRefusal(r) == {"already"}

\* The page looks for "already" in the message: the evidence is linked.
NewsOf(r) == IF fate[r] = "linked" THEN {"already"} ELSE {}

Refusal(r) ==
    /\ r \in pending /\ fate[r] \in {"refused", "linked"}
    /\ tab' = Told(r, NewsOf(r))
    /\ pending' = pending \ {r}
    /\ UNCHANGED <<cacheVars, area, sent, serverVars, acknowledged, gaveUp, overtaken>>

\* No answer: the request may still be under way, or have been served.
GiveUp(r) ==
    /\ r \in pending
    /\ pending' = pending \ {r}
    /\ gaveUp' = gaveUp \cup {r}
    /\ UNCHANGED <<cacheVars, area, tab, sent, serverVars, acknowledged, overtaken>>
-----------------------------------------------------------------------------
(* Queries.                                                                *)

\* The server answers with the rows there are, or the answer arrives and is
\* rendered; the repayment page's handler goes on with it.
Arrived(t) ==
    IF t.refetch = "awaited"
    THEN [t EXCEPT !.refetch = "none", !.step = "done", !.told = @ \cup {"success"},
                   !.allocation = LastRepayment(SubSeq(stored, 1, fetch[Detail].answer))]
    ELSE t

Answer(k) ==
    \/ Read(k, Len(stored)) /\ UNCHANGED formVars
    \/ /\ Store(k)
       /\ tab' = AfterRender(IF k = Detail THEN Arrived(tab) ELSE tab,
                             k = Detail \/ tab.loaded)
       /\ UNCHANGED <<area, sent, pending, serverVars, historyVars>>

\* A query that fails twice shows its error until it is tried again.
Lose(k) ==
    \/ /\ TryAgain(k, NoData)
       /\ overtaken' = overtaken \ {k}
       /\ UNCHANGED <<area, tab, sent, pending, serverVars, acknowledged, gaveUp>>
    \/ /\ Fail(k)
       /\ tab' = AfterRender(tab, tab.loaded /\ k # Detail)
       /\ UNCHANGED <<area, sent, pending, serverVars, historyVars>>

\* The button of an error state.
RetryQuery(k) ==
    /\ k \in Active \cap failed /\ fetch[k] = Idle /\ tab.screen # "broken"
    /\ fetch' = FetchAnew({k}, NoData)
    /\ overtaken' = overtaken \ {k}
    /\ UNCHANGED <<data, fresh, failed, area, tab, sent, pending, serverVars, acknowledged, gaveUp>>

Minute == Age /\ UNCHANGED formVars

FormsNext ==
    \/ ShowList \/ OpenForm \/ OpenByAddress \/ Refocus \/ Minute
    \/ TypeRepayment \/ TypeRow \/ TypeApplication \/ SelectFile \/ FinishUpload \/ RemoveFile
    \/ ReviewBatch \/ ReviewApplication \/ OpenReversal \/ OpenDecision \/ OpenServicing \/ Back
    \/ SubmitRepayment \/ SubmitBatch \/ SubmitApplication
    \/ ConfirmReversal \/ ConfirmApproval \/ ConfirmRejection \/ ConfirmWaiver \/ ConfirmReschedule
    \/ \E r \in DOMAIN sent :
          ServeRepayment(r) \/ ServeBulk(r) \/ ServeOther(r) \/ Success(r) \/ Refusal(r) \/ GiveUp(r)
    \/ RecordElsewhere
    \/ \E k \in {Detail, List} : Answer(k) \/ Lose(k) \/ RetryQuery(k)

FormsSpec == FormsInit /\ [][FormsNext]_formsVars

-----------------------------------------------------------------------------
\* However often a button is pressed, whatever is lost and wherever the tab goes,
\* one intention is recorded once: a repayment page that is not left records one
\* repayment, the meeting one contribution per member, and any other dialog or
\* request at most one row, unless an attempt that got no answer was made again:
\* waivers, reschedules and applications have no key
\* (frontend/app/treasurer/loans/loan/[loanId]/repay/page.tsx:47).
RecordedOnce ==
    \A i, j \in DOMAIN stored :
        LET a == stored[i]
            b == stored[j]
        IN
        i < j /\ a.by # 0 /\ b.by # 0 /\ a.op = b.op =>
            CASE a.op = "repayment" -> sent[a.by].visit # sent[b.by].visit
              [] a.op = "bulk" -> a.member # b.member
              [] OTHER -> sent[a.by].intent = sent[b.by].intent =>
                              {a.by, b.by} \cap gaveUp # {}

\* "This repayment was already recorded" (frontend/lib/copy/messages.ts:219) is
\* told of a repayment that this page has recorded.
AlreadyRecordedIsTrue ==
    "already" \in tab.told => Stored("repayment", tab.key)

\* The page says that it was recorded when it was, and a repayment page shows the
\* allocation of that repayment or of a later one, never of an earlier one, unless
\* another answer cut the awaited fetch off (repay/page.tsx:58).
SuccessIsRecorded ==
    "success" \in tab.told =>
        LET q == sent[tab.answered] IN
        CASE q.op = "repayment" ->
                /\ Stored("repayment", tab.key)
                /\ tab.refetch = "none" =>
                       \E i \in 1..tab.allocation : stored[i].key = tab.key
          [] q.op = "bulk" ->
                \A m \in Member : q.items[m] > 0 => Stored("bulk", KeyFor(tab.answered, m))
          [] OTHER -> \E i \in DOMAIN stored : stored[i].by = tab.answered

\* What the tab has seen acknowledged, the pages that have it show for as long as
\* they take their answer for fresh: the row and its list, of a batch only the
\* meeting, of an application neither.  But the answer of a fetch that was sent
\* before and whose page was left is stored as if it were new
\* (frontend/lib/api/hooks/treasurer.ts:358).
OwnWriteShown ==
    \A r \in acknowledged :
        LET showing == CASE sent[r].op = "application" -> {}
                         [] sent[r].op = "bulk" -> {List}
                         [] OTHER -> {Detail, List}
        IN
        \A k \in showing \cap fresh :
            k \in overtaken \/ \A i \in DOMAIN stored : stored[i].by = r => i <= data[k]

=============================================================================
