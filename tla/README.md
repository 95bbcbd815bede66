# A verification of Village Circle

Village Circle is an accounting application for savings-and-loan groups: a NestJS backend over
PostgreSQL (through Prisma) and a Next.js front end. This directory holds TLA+ models of the
backend's services and of the pages that record money, the TLC configurations that check them on
small instances, and TLAPS proofs of the properties that matter most. `PROJECT.json` maps every
definition to the lines it models, and lists the hazards that the properties are for.

Source paths are relative to `backend/src/` unless they begin with `frontend/` or `docs/`.

## 1. How the program executes, and how the models reflect it

**Backend.** Every service method is an `async` function that awaits Prisma calls one after the
other. **No method opens a database transaction**: each Prisma call is an atomic statement of its own
(a nested `create` is one statement). Hence

* two requests interleave between any two statements ("check, then act" is never atomic);
* a request may die between any two statements (restart, lost connection), and what it wrote stays;
* a client that saw no answer may send the same request again;
* only the database's unique indexes are enforced atomically.

The backend modules share one style. A *request* is a process with a step `pc[r]`; an action executes
one statement together with the synchronous code up to the next `await`; `Crash` ends a request at
any step. The same instruction may be carried by several requests, which is how retries and
duplicated calls occur. A row's id is the request that created it, so ids are fresh by construction,
as UUIDs are. A value that a method keeps in a local variable across an `await` is kept in a variable
of the request (`frame`, `cur`, `basis`, `seen`, `found`, `drawn`, ...), so that it can be stale when
it is used. Validation that depends on tables outside a module is a nondeterministic refusal
(`TurnedAway`).

**Front end.** A tab is one process: handlers and renders are atomic. What is concurrent is the
network. A mutation is sent, served, and answered in three steps, and its answer may be lost before
or after it was served; a query is sent, served and stored likewise, goes on when its page is left,
and is tried once more when it fails (`frontend/app/providers.tsx`). `data[k]` is the last answer the
cache holds for key `k`, `fresh` the keys that TanStack Query would not fetch again.

## 2. Inventory

| Part | State | What makes it hard | What makes it correct |
| --- | --- | --- | --- |
| Ledger posting (`ledger/ledger-posting.service.ts`) | append-only events with signed lines, unique key | same-key posts overlap, two reversals overlap, death before the audit row | one event per key, the caller gets its own event, books balance, reversals exact |
| Contributions (`contribution/contribution.service.ts`) | contribution rows, unique key | ledger posted but row missing, stale evidence check, bulk half done, reversal half done | one contribution per key, linked to its event; what is posted or reversed reaches the row |
| Contribution reads (`contribution/contribution-read.service.ts`, `ledger/ledger-balance.service.ts`, `support/entity-trace.service.ts`) | none | filters, sums and look-ups through audit rows | reports and traces agree with the ledger |
| Loan application, approval (`loan/loan-application`, `loan-approval`) | applications, loans with a snapshot of the rules and a schedule | approve races reject or itself; death between `loan.create` and `application.update` | one loan per application, on terms that were in effect |
| Loan servicing (`loan/loan-disbursement`, `-repayment`, `-waiver`, `-reschedule`, `-schedule`) | loan state, instalments, repayments, exceptions | allocation from a stale schedule, absolute columns written from stale rows, unconditional state writes, death half-way | one repayment per key and posting, no instalment overpaid, states move forward, schedule and ledger agree |
| Loan reads (`loan/loan.service.ts`) | none | totals of three tables, subtracted again by the pages | what a page shows is what is owed |
| Group rules (`group-rules/`) | versions with an effective interval | closing and opening are two statements | a group keeps rules |
| Role assignment, permissions (`role-assignment/`, `rbac/`) | assignments, partial unique index on active ones | membership and roles are read by several statements and change meanwhile; change is a revoke and an assign | one active row, nobody acts who was not entitled while served |
| Audit log (`audit/`) | rows numbered per tenant | number drawn and row stored separately | every number accounted for |
| Support reads, evidence files (`support/`, `evidence/`) | an access row per read; registered files | pages of lists that change while they are walked | an access is logged first; a walk loses nothing |
| Notifications, triggers, SMS webhook (`notifications/`) | notifications with status and retry count | dispatch without confirmation, failures swallowed, reports late, repeated, early | a status is earned, a wish respected, what is queued is tried |
| Groups, tenants, members (`group/`, `tenant-group/`, `member/`) | one row each, two audit tables | two services write one table | every change in a trail |
| Social fund (`social-fund/`) | buckets, entries, unique (bucket, key) | duplicate keys, rounding, balances added up in JavaScript numbers, audit row before the entry | one entry per key, balance is net, reversals exact |
| Query cache and HTTP client (`frontend/app/providers.tsx`, `frontend/lib/api/`) | cached answers | answers that arrive after a write they preceded | an acknowledged write is shown |
| Pages that record (`frontend/app/treasurer`, `frontend/app/member`) | form state, idempotency keys | double submission, lost answers, awaited refetches | one intention, one row; what the page says is so |
| Support pages (`frontend/app/admin`, `frontend/lib/support`) | the gate's case and tenant, filters | keys without the case | what is shown was logged, under this entry or an earlier one |
| Not modelled | | see section 7 | |

**Interaction.** Contributions, disbursements and repayments `await` `LedgerPostingService.post` (and
contributions `reversal`) inside the same request; nearly every service awaits an audit append as
its last statement (the social fund as its first). Approval reads the group's rules and copies them
into the loan; a loan that it made is the initial state of loan servicing. Triggers are started
without `await` and swallow what goes wrong. Guarded requests read members and assignments before
they run. Pages talk to all of it through one query cache.

## 3. Modules

| Module | Models | Built on |
| --- | --- | --- |
| `LedgerTable` | the ledger's tables and pure operators: rows, sums, negation, look-ups, balances | |
| `LedgerBook` | *abstract*: a book to which balanced events are added one at a time, never changed, keys unique, reversals exact | `LedgerTable` |
| `LedgerPosting` | `post` and `reversal` | `LedgerTable`, refines `LedgerBook` |
| `Contributions` | `record`, `recordBulk`, `reversal` | `INSTANCE LedgerPosting` |
| `ContributionHistory` | whether two requests were ever in flight together | `Contributions` |
| `ContributionReads` | lists, reports and the trace of contributions | `Contributions` |
| `LoanSchedule` | `generateSchedule`, `allocateRepayment`, what a repayment or waiver writes to an instalment | |
| `LoanServicing` | disbursement, repayment, waiver, reschedule | `LoanSchedule`, `INSTANCE LedgerPosting` |
| `LoanReads` | a loan as `getLoan` answers it, what the pages work out from it, the trace | `LoanServicing` |
| `GroupRules` | `createVersion`, `update`, `getEffectiveAt` | |
| `LoanApproval` | `submit`, `approve`, `reject` | `GroupRules`, `LoanSchedule` |
| `Notifications` | five triggers, `queue`, `send`, `retry`, delivery reports | |
| `Permissions` | the role tables, and which permission or check each route of the controllers asks for | |
| `RoleAssignments` | `assign`, `revoke`, `change`, and any guarded operation | `Permissions` |
| `Groups` | groups and members, by three services | |
| `SocialFund` | buckets, posts, reversals | `Groups` |
| `AuditLog` | the counter and the append | |
| `SupportAccess` | the support endpoints, page by page, and evidence files | `AuditLog` |
| `QueryCache` | the cache of one tab | |
| `Forms` | six forms and dialogs, their hooks, the server as the backend modules show it | `QueryCache` |
| `SupportPages` | the gate and four support pages | `QueryCache` |
| `Clients` | a tab that works in one area | `Forms`, `SupportPages` |
| `...Proofs` (8) | theorems | their module, `TLAPS` |
| `MC...` | small instances | their module |

**LedgerPosting.** `events[r]` is the row that request `r` inserted. `StartPost` is the call with
`validateCommand`, `Lookup` the `findUnique` by key with the tenant comparison, `Insert` the `create`
that the unique index may refuse, `Audit` the audit append; `StartReversal` to `AuditReversal` are
the statements of `reversal`. Rows never change, so the copy of the original that `reversal` keeps
stays equal to the row and is no variable.

**Contributions.** A request walks the items of its argument; `cur[r]` is the item it is at, `record`
is a bulk of one. Between `Lookup` and `Insert` it awaits the ledger (`LedgerStep`: one statement of
`LedgerPosting` for the call `<<r, cur[r]>>`). `TotalDeclared` says whether `totalAmountMinor` is
taken to be declared (section 6). `ContributionReads` adds no state: each query is an operator on the
tables, with its filters and its page. `ContributionHistory` adds the variable `overlapped`, so that
what holds without overlaps can be said of the same behaviours.

**LoanSchedule, LoanServicing.** The allocation of a repayment walks the instalments by a recursive
function (`taken[n]`), as the loop of `allocateRepayment` does. `frame[r]` holds what request `r` has read and worked out: instalments, an
allocation not yet written, instalments the update loop has still to visit. Writes are as the code
has them: `Activate`, `Complete` and `MarkRescheduled` set the state whatever it has become,
`UpdateItem` and `WaiveItem` write absolute columns worked out from rows read earlier, `CreateItems`
numbers instalments from the number read earlier and fails on the unique index when it is outdated.

**GroupRules, LoanApproval.** Rule changes are processes too (`changePc`); `basis` is the version and
the time a change has read. Dates are a clock that `Tick` advances. An approval reads the application,
then the rules of the day, then writes a loan with its schedule, then the application: four
statements, between which the others run.

**Notifications.** A trigger has a *plan*, the recipients and channels in the order of its loops, and
works through it; the n-th row of trigger `c` is `<<c, n>>`. `messages[i]` is the provider's side: what
it took for row `i`, and what became of each. A report may claim anything that the provider knows of a
message, as often and as late as it likes, or be lost.

**RoleAssignments.** `stage` is the check or the operation a request is in. `found` is what its check
has read so far; `moments` is a history variable that collects, at every step since the check began,
whether the actor is a member and whether it has the right. `UpdateMember` and `LeaveGroup` are the
`MemberService` meanwhile; every other guarded endpoint is `Act`, of a route of `Permissions`. Three
kinds of routes differ by what follows the guard: the service asks again for the same permission, asks
for the user alone and not for the member the guard saw, or passes no actor on at all.

**Groups, SocialFund.** `trail` holds the rows of `AuditEvent` and `AuditLog` in the order of their
creation. Amounts are in tenths of the last stored place, so that the rounding of `Decimal(14, 2)` is
modelled. `listBuckets` turns each amount into a JavaScript number and adds the numbers up, in an order
that it does not ask for: `Balances(b)` is what it may show. A number is an integer of units
`2^-Scale`; `ToNumber` and `Plus` round to `Precision` binary digits, ties to even. Everything else
that becomes a number (the comparison under a key, the negation of a reversal) keeps its decimal, since
14 digits fit.

**AuditLog, SupportAccess.** `log` is in the order in which rows were stored. A walk through a list is
a chain of requests by one client: `next[r]` is the cursor it was given, `due[r]` what the list
selected when the walk began, `walked[r]` what it has been shown. A page is a set: the rows that have
fewer than `limit` rows above them; one row more than that is fetched.

**QueryCache, Forms, SupportPages.** A *visit* is one mounting of a page, an *intention* what one
filling of a form or one dialog is for; both are history variables. The server of `Forms` is
what the backend's runs promise: one row per key, and none of these promises for operations without
a key. `data[k]` is the number of rows that were stored when the answer was made. A tab works in one
area, since pages of different areas share neither forms nor keys. `carried` is a history variable:
what was cached or on its way when the entry in the support gate last changed.

Definitions whose comment begins with *Defect:* are no part of the model. Each is the form a plausible
bug would give to the definition after it, and is there to show that a property would notice
(`PROJECT.json`, "mutants").

## 4. Runs

| Run | Instance | What it shows |
| --- | --- | --- |
| `ledger` | 3 calls in flight, 2 tenants, 1 key, valid and invalid lines; 94 thousand states | keys unique (`OneEventPerKey`), an event lacks its audit row only where its call died (`AuditTrail`), and the table refines `LedgerBook` (`ImplementsBook`) |
| `contributions` | 3 requests in flight, bulks of 2, two groups that share a key, one evidence file, one meeting, pages of one row, under `HistorySpec`; 666 thousand states | one contribution per key, linked to its event; what is posted is recorded and what is reversed is marked unless a request died; evidence linked once as long as requests do not overlap; reports and trace agree with the ledger |
| `loans` | 4 requests, 2 in flight, on one loan of two instalments: a disbursement, a part and a full repayment, a waiver, a reschedule; 369 thousand states | one repayment per key, backed by the ledger with the full amount; a posted repayment is recorded; no instalment overpaid |
| `loans_serial` | 4 requests one after the other, with crashes, two loans of two groups that share a repayment key; 371 thousand states | states move forward, completed loans are paid, schedules, pages and traces agree with the ledger |
| `loans_overpaid` | 3 requests, 2 in flight | **violation**: two overlapping repayments of the whole debt are both taken |
| `loans_repay_page` | 2 requests one after the other | **violation**: the page offers no form to repay a debt that is there |
| `approval` | 3 requests (2 in flight) and 2 rule changes that overlap, over two days; 1.7 million states | a group keeps rules, an application has one loan, the lists follow the loans, and the terms are those of a version in effect |
| `notifications` | one trigger of each kind in turn, a retry, two reports; 294 thousand states | statuses are earned, no SMS against a wish, a trigger reaches everyone of its plan, what is queued is tried |
| `roles` | 3 requests, 2 in flight, three members and users, two groups, one route of each kind; 613 thousand states | one active row per role, nobody acts who was not entitled while served, changes revoke first |
| `social_fund` | 3 requests, 2 in flight, on one group with an admin and a bucket, room for one more of each, updates of a group that may not be there yet; posts of 0.1, 0.2, -0.3 and 0.105; 203 thousand states | one entry per key, the entries add up to the net and the balance shown does to the nearest hundredth, and the trails account for every change |
| `clients` | a tab in each of seven areas: amounts up to 1, 2 mutations, 2 fetches per support page, one or two visits, at most one write by another client; 1.6 million states. Or the support endpoints: 3 requests, 2 in flight, two tenants, pages of one row; 225 thousand states | one intention is recorded once, what a page says is so, acknowledged writes are shown, shown answers were logged; numbers accounted for, accesses logged first, walks complete |
| `support_case` | the same instance | **violation**: a file is shown that was logged under an earlier case only |

**Bounds.** `MaxInFlight` and the number of requests bound concurrency and history. Every race in the
backend is between two requests that read before either writes; a third in flight (`ledger`,
`contributions`) adds the retry that overlaps both, and where two are in flight a third (or fourth)
request repeats what one of them did before it died. Two keys and two groups that share one make a
key found under another tenant; one shared file makes the evidence race. A principal of 3 in 2 terms
with interest 2 leaves a remainder and an instalment with two parts, so that a repayment of 2 splits
over interest and principal, and 5 is the whole debt. `MaxClock = 1` gives rule versions of two days,
`MaxChanging = 2` lets both changes read one version. `MaxPlan = 3` is the longest plan of the
instance, two reports are what it takes to undo `DELIVERED`. A page of one row makes every list longer
than its page. `MCClients` runs the two sides of the network one or the other (`side`), since they share
no variable; of the server's three requests, which arrive in one order, the third goes on with a list
that another has begun, or appends a row. In `clients`, two mutations are a submission and its repetition; the areas `repay`
and `request` get two visits because the key (or its absence) of the first decides about the second;
another client writes on the pages of a loan's repayments, of a batch and of a reversal. `Precision` is
13 where JavaScript has 53: the binary expansion of a hundredth repeats every 20 digits, so that it is
rounded the same way and sums of hundredths are off by the same number of units; `SumsDrift` in
`MCSocialFund`, which TLC evaluates, shows 2^-14 for 0.1 + 0.2 - 0.3 where JavaScript shows 2^-54. Amounts of any size, any
number of requests and any rate are covered by the proofs of section 5. `CHECK_DEADLOCK FALSE` is set
because a behaviour of finitely many requests ends.

**Symmetry** permutes requests, which the specifications treat alike, except in `notifications`, which
has a liveness property, and in `clients` and `support_case`: a tab numbers its requests, and the
server's arrive in one order.

**Fairness.** Only `QueuedIsTried` needs any: weak fairness of `Advance(c)`, that is, a statement that
a trigger or a retry awaits settles. Node runs a continuation once its promise is settled, and a
database call or a dispatch either returns or throws. Arrivals, reports and crashes are not fair.
Since a call may die, the property promises an attempt only where no call stopped at the row; and it
promises the *first* attempt only, because nothing tries a second time (section 6).

## 5. Proofs

Everything below is proved by TLAPS for every value of the constants that meets the modules'
assumptions: any sets of requests, tenants, members, keys, loans; any number of items, terms, amounts
and rates.

* **The ledger** (`LedgerPostingProofs`). The inductive invariant is `TypeOK /\ CallInv`: arguments of
  a call past validation are valid (`CallShape`), the id of a call is free until its insert and then
  holds its row (`OwnRow`), the original that a reversal read is there in its tenant (`OriginalRead`).
  On it rest `OneEventPerKey` (an insert needs a free key), what calls return, `ReversalNegates`,
  `AuditTrail`, and the refinement of `LedgerBook` (`LedgerImplementsBook`): `RowsKept` shows that no
  step changes a row, which makes an insert an `Enter` of the book and everything else a stutter.
* **Contributions** (`ContributionsProofs`). `IsLedgerStep` shows that each step of the composed
  service is a step of `LedgerPosting` or leaves it alone; hence `UsesLedger` (`Spec => LP!Spec`),
  and the ledger's invariants hold here. `RequestInv` says that a request makes one ledger call at a
  time with the arguments of the item it is at, and that a reversal read what it reverses. From these
  follow `OneContributionPerKey`, `LinkedToItsEvent` and `ReversedInLedger`. What must *not get lost*
  needs to know who wrote an event: `PosterInv` (whoever posted an event whose key has no row is still
  at it, or died), `ReversalInv` (an event that reverses belongs to a stored row, which shows it or
  whose reverser is still at it, or died) and `TrailInv` (what an audit row of a reversal names is a
  reversal of that row's event). They give `PostedIsRecorded`, for a build in which the total is
  declared (`TotalDeclared`), `ReversalReachesRow`, and with the read model `TraceShowsLedger`.
  `HistoryInv` adds that as long as nothing overlapped, what `record` checked of its evidence is still
  so when it inserts (`EvidenceChecked`); the request itself is the only one that could have changed
  it, and within a bulk the insert of one item comes before the check of the next. It gives
  `EvidenceLinkedOnceSerially`.
  `ReportsMatchLedger` sets the reports against the ledger. `ContentInv` says that a posting has the
  lines, and a row the amounts, of an item that somebody submitted under its key; so every event moves
  one amount between the group's account and one member's (`EventOnAccounts`), and the total over the
  members, taken event by event (`SumSwap`), is the sum of these amounts (`TotalsOfEvents`), each
  posting less its reversals (`NetOfReversals`). Once all is settled, postings and rows of
  contributions are in bijection by the links that `LinkedToItsEvent` and `PostedIsRecorded` describe,
  and what is left of a posting is the amount of its row or nothing (`NetOfContribution`); the reports
  partition the recorded rows by mode, and the cash by meeting or day (`SumGrouped`).
  `TreasurersReportsMatch` assumes besides `TotalDeclared` that there are finitely many members and
  that a client gives a key to one contribution (`OneContentPerKey`, which the instance of the run
  satisfies: `MCOneContent`). Without the latter it is false: the code compares no amounts, and a
  request that finds another's event under its key inserts a row with its own (section 6).
* **Loan servicing** (`LoanServicingProofs`). The inductive invariant is
  `TypeOK /\ HandlerInv /\ LedgerInv /\ InstalmentsAddUp`. `HandlerInv` is needed because requests
  work on stale data: the instalments that a request holds are older versions of rows of its loan
  with the *same amounts due*, and the allocation it still has to write is nowhere negative. With
  `ScheduleStep` (no statement changes what is due on an existing instalment), every absolute write
  is within what is due, which gives `InstalmentsAddUp`. `EveryRepaymentIsPosted` and
  `AtMostOneRepaymentPerKey` are as for contributions; `NoLoanWithoutPosting` shows that only the
  write of a disbursement takes a loan out of `APPROVED`; `PostedRepaymentsAreRecorded` adds an
  invariant about who posted an event (`PosterInv`): a poster whose row is missing cannot have been
  refused. `CompletedIsPaid` and `LoanMovesForward` are false for overlapping requests (section 6);
  they are proved for `MaxInFlight = 1`, with crashes, from `SerialInv`: what a request found when it
  read the loan (its state, its schedule) is so until it ends, and a repayment that was allocated met
  instalments, so that a count of none unpaid means that there are some and all of them are paid.
  `DebtInv` relates the ledger, the repayments and the schedules, which no request writes together;
  for `MaxInFlight = 1` and as long as no request has died (`NoneDied`), since an overlap or a death
  between two of these writes separates them for good (section 6). Its parts: `Calls`, `Reads` and
  `Writes` say what the request at work holds (the ledger call of its instruction, the schedule as it
  still is, what of the allocation it has yet to write); `Accounted` that every event of the ledger is
  the disbursement of a paid-out loan, that of a stored repayment, or the one just entered; `Unlent`
  that a loan not paid out has the schedule of its contract; `Booked` that the schedule leaves of the
  principal what was lent less what was repaid, plus what the request at work has yet to write
  (`Behind`); `Settles` that the events that requests have recorded add up, for a member, to just that
  over the paid-out loans. The sums change by one term with a step, by the laws below; that an
  allocation is no more than the outstanding principal, and that new instalments add up to it, are
  lemmas about the recursive allocation and integer division. It gives `SchedulesMatchTheLedger` and
  `PagesMatchTheLedger`, and `SerialNeverOverRepaid`: `NotOverRepaid`, which the run `loans_overpaid`
  refutes with two overlapping requests, holds without the overlap. That proof also showed that
  `PagesMatchLedger` need not except rescheduled loans from its last part.
* **Approval** (`LoanApprovalProofs`). `ApprovalInv` adds to the two rule and loan properties what
  requests rely on across statements: a rule change that closed a version still has to open one
  (`ChangeInv`), and a request past its read decides an application that exists, of its own group,
  and carries the rules it read (`RequestInv`). `TermsInv` is about the terms: the own terms of a
  version are written once (`TermsKept`), so the snapshot that an approval took is still the version's
  when it writes the loan, and the schedule is the one that `generateSchedule` makes of it. That the
  instalments add up to the principal and to the interest is a lemma about integer division
  (`InstalmentsOfTotal`). Together: `TermsFromVersion`.
* **Notifications** (`NotificationsProofs`). `NotificationInv`: a row's status is explained by the
  messages taken for it (`RowSound`), a call holds at most what it may write next (`CallSound`), and a
  report that found a row found the one its message was sent for (`ReportSound`). The last is why a
  report that overtakes a retry cannot claim another message's fate. `TriggerInv` says who works on
  what: every untried row is in the hands of a call that will try it or stopped at it (`Held`), and a
  trigger has stored a row for each recipient that its turn has passed (`TriggerSound`). With the type
  of a plan, which is put together from loops over members, notices and channels (`PlanType`), it
  gives `TriggerCompletes`.
* **Roles** (`RoleAssignmentsProofs`). `RequestInv` records what each statement relies on;
  `EntitledInv` says that the roles a check has found were held when it read them, and that `moments`
  covers the case it decides. `ServedWereEntitled` is then a matter of the last read.
* **Social fund** (`SocialFundProofs`). `FundInv`: every entry is a posting as asked for, rounded once
  (rounding twice changes nothing), or the exact negative of the entry its request read
  (`RowsSound`, `EntrySound`); what a request holds is still there (`ReadSound`, `AnswerSound`); and
  for every row written by a request, of fund, groups and members, the audit row is there or due
  (`GroupSound`, `MemberSound`). It gives `KeyedOnce`, `FundTrail`, `RegisterAudited`. `StatusInv` is
  about the status of a group, which two services write into two trails: the last row of the two tells
  it, or one request is between its write and its row, provided no second request touched the group
  meanwhile (`disturbed`). A creation counts until its row is stored, since an update can store its row
  before that. It gives `TrailAccounts`. `FundAddsUp` (the stored entries, exact as they are; the first half of
  `BalanceIsNet`) needs no more
  of the steps: of the finitely many entries, each reversal names one posting of its bucket
  (`ReversalsNamed`), so the sum of a bucket is the sum over its postings, each less as often as it is
  named (`NetOfReversals`).
* **Support** (`SupportProofs`). `SupportInv`: every number that a request has drawn and not stored is
  its own and not in the log (`NumbersInv`), and a request past its access row has that row
  (`AccessInv`). It needs `FirstLogNumbered`, that the log from before was numbered the same way.
  `WalkInv` says what a walk still owes: rows that its list still selects, and that are shown or stand
  below the cursor; `LeftOver` is the reason (whatever is on no page stands below all of the page, and
  the excess row proves that something does). It gives `WalksLoseNothing`, which does not even need
  that the numbers are drawn in order.
* **The front end** (`SupportProofs`, second part). For the areas with forms, `FormsInv` has ten parts.
  `KeysInv` and `FilesInv` tie keys and files to visits: two requests with one key or one file are of
  one mounted page. `RowsInv` says which request a row is from and that the server keeps one row per
  key, `FateInv` that an answer of success has its row, `IntentInv` that an intention is submitted
  again only when its earlier submission failed, or under its key; these give `RecordedOnce`.
  `AnswersInv` relates what is cached or on its way to the number of rows there were, and gives
  `OwnWriteShown`; `PageInv` (what the mounted page has loaded and waits for) and `ToldInv` (what it
  has said) give `SuccessIsRecorded` and `AlreadyRecordedIsTrue`. For the support pages, `LoggedInv`
  says that an answer is cached under the key it was asked for and only after its access row, and
  `SessionInv` that whatever is cached or on its way was asked by the entry now in the gate or is in
  `carried`; they give `ShownWasLogged`. `ClientsInv` joins both for a tab that works in one area. The bounds of the
  run (`MaxRequests`, `MaxVisits`, `MaxFetches`, the roll, the amounts) are parameters here.

**Sums.** The library's induction theorems take an operator as a parameter and cannot be used. What
induction over finite sets is needed for is proved from the fact that a nonempty set of naturals has a
least element: a family of subsets that fails to contain `S` has a member of least cardinality outside
it (`SetInduction`). From this a sum over a set exists and is unique as an iteration (`IterExists`,
`IterUnique`), and `SumFunctionOnSet` loses, adds and splits elements as it should (`SumRemove`,
`SumSame`, `SumOfEqual`). `LedgerPostingProofs` begins with the laws of sums that the tables built on
the ledger need: two orders of summation, renamed terms, groups, reversals (`SumSwap`, `SumRenamed`,
`SumGrouped`, `NetOfReversals`). `LoanApprovalProofs` and `SocialFundProofs` each hold the part they
use. The
same principle gives the existence of the recursive functions behind `FlattenSeq` and the allocation.

Used as assumptions: each `...Assumption` of the modules, and `FirstLogNumbered`. They say that the
nulls are no values of their sets, that the group account is no member, that bounds are numbers, that
what is stored at the start is finite, and that instructions have the types of the DTOs (in
`Notifications`, that a trigger's arguments name a template and a member); TLC evaluates them in the
runs. `PageLimit` is positive: the pages ask for 50 rows, and the DTO itself sets no lower limit.

**Only model-checked.**

* Liveness (`QueuedIsTried`) is out of the prover's reach, and the numbers of `listBuckets` (the second
  half of `BalanceIsNet`) are a fold over a sequence, which would need induction over data. Every other
  invariant and action property of the passing runs has a theorem; the four loan properties that the run `loans_serial`
  checks are proved for `MaxInFlight = 1`, as that run has it.

## 6. Findings

Three have a run with a counterexample (`PROJECT.json`, "findings").

1. *Over-repayment* (`loan/loan-repayment.service.ts:106`, run `loans_overpaid`): two overlapping
   repayments are both allocated over the schedule that both read, and both accepted.
2. *Debt without a form* (`frontend/app/treasurer/loans/loan/[loanId]/repay/page.tsx:89`, run
   `loans_repay_page`): the page subtracts everything repaid, interest included, from the principal.
   Once the interest paid reaches what is still owed it says "This loan has no outstanding amount."
   and shows no form. `PagesMatchLedger` states the exact difference.
3. *Shown under another case* (`frontend/lib/api/query-keys.ts:51`, run `support_case`): over every
   evidence file the page says "Your support case ID and reason code have been logged."
   (`frontend/lib/copy/messages.ts:293`, `frontend/app/admin/evidence/[id]/page.tsx:33`). Ending the
   session clears the gate and not the cache, and the key of a file names neither case nor tenant: under
   the next case what an earlier one was logged for is shown, without a request as long as it is fresh.
   The keys of traces, audit log and SMS failures name no case either (`:48-50`), so on those pages
   too an answer may be from an earlier case, though about the tenant they name. `ShownWasLogged`
   states exactly that: what is shown was logged, under this entry or carried over from an earlier one.

Facts met while modelling, which the properties are worded around:

*Ledger and contributions*

* Two overlapping reversals of one event both succeed (`ledger/ledger-posting.service.ts:124`:
  `findFirst`, then `create`, and no unique index on `reversalOfLedgerEventId`).
* `post` compares the tenant of a found event, not its payload; the comment at
  `ledger-posting.service.ts:40` says "with same payload".
* An event whose `post` died before the audit append and was repeated has no audit row, since the
  retry returns early; `ledger/README.md:23` promises one for each successful post.
* `totalAmountMinor` (`contribution/contribution.service.ts:126`, `:150`) is not declared; line 85
  declares `totalMinor`. Where the build lets it pass, `record` throws after the ledger event was
  posted. The run sets `TotalDeclared = TRUE` and reads it as `totalMinor`.
* A repetition with evidence is refused by its own contribution, because evidence is validated before
  the key is looked up (`contribution.service.ts:74`, against `CONTRIBUTION_API_EXAMPLES.md:8`). Two
  overlapping records can link one file, which no index prevents.
* A reversal that died after the ledger's part leaves a `RECORDED` contribution that no retry can
  reverse (`contribution.service.ts:261`).
* The group total of a bucket is 0 after any contribution, since its lines are paired;
  `ledger-balance.service.spec.ts:73` expects 10000 of hand-made lines. Meeting summaries and
  histories total `REVERSED` rows too, and a history totals its page only.
* The trace finds audit rows by entity, and so misses a loan's repayment, waiver and reschedule rows,
  and a reversal that died before its row.

*Loans*

* The repetition of a repayment that completed its loan is refused, since the state is checked before
  the key (`loan-repayment.service.ts:77`, against `loan/README.md:94`).
* Overlapping loan requests can complete an unpaid loan in the gap between superseding and creating
  instalments, take a loan back to `ACTIVE` by a second disbursement that started earlier, and create
  new instalments from an outdated principal. `CompletedIsPaid`, `LoanMovesForward` and
  `ScheduleMatchesLedger` are therefore checked, and proved, for requests that do not overlap.
* A `RESCHEDULED` loan can never be repaid, waived or rescheduled, since each service wants `ACTIVE`.
  A waiver can turn a `PAID` instalment into `WAIVED`, and a loan with a `WAIVED` instalment never
  completes, since the count is of items that are not `PAID`.
* A crash after the repayment's insert leaves its instalments unpaid for ever; after a crash and a
  retry a repayment's parts may differ from its event's lines (the total agrees).
* An approval and a rejection that overlap leave a rejected application with a loan, and an approval
  that died after `loan.create` can never be repeated (unique `applicationId`). `StatusFollowsLoan`
  names both as the only ways to a loan of an application that is not approved.
* Overlapping rule updates leave several open versions; a crash between closing and opening leaves
  none, which `RulesSurviveChange` names as the only way to lose them.

*Notifications, roles, audit, fund*

* A first dispatch that fails leaves the row `QUEUED`; nothing sends `QUEUED` rows again and `retry`
  wants `FAILED` (`notifications/notification.service.ts:146`, `:170`, against
  `SMS_IMPLEMENTATION_COMPLETENESS.md:45`).
* A late report takes `DELIVERED` back, and one that arrives before the id is stored is dropped
  (`notifications/sms/sms-webhook.service.ts:62`, `:78`). Lines 2-4 import from paths that do not
  exist.
* A member may have left, or lost its role, between the reads of a check and the statement it
  protects, and need not have been member and holder at one moment. Two overlapping revocations
  overwrite who revoked. `RequirePermissionGuard` reads the handler's metadata only, so the permission
  that `SupportController` states for its class is not checked except where a method asks again.
* Rows without a tenant are all number 1, against the comment at `audit/audit-log.service.ts:45`.
  A number drawn by a request that died is never stored.
* The meeting list passes no actor (`MeetingController.listByGroup`) and is always refused.
  `PATCH groups/:id` is described as "admin only" and guarded for members. Two services write a
  group's status into two trails. Nothing reads the status `CLOSED`.
* A social-fund entry may be reversed any number of times. An amount finer than two places is
  compared unrounded with the rounded one, so its retry is refused (`social-fund.service.ts:80`).
  The audit row precedes its entry and may name none.
* `listBuckets` adds up `amount.toNumber()` (`social-fund.service.ts:163`), although amounts are to use
  "no float" (`common/decimal.ts:4`): of 0.1 and 0.2 put in and 0.3 taken out, 5.5e-17 is shown and not
  0. `BalanceIsNet` therefore says *to the nearest hundredth*.

*Front end*

* The repay page calls `useBeforeUnload` after its early returns
  (`frontend/app/treasurer/loans/loan/[loanId]/repay/page.tsx:69-96`), so its number of hooks changes
  when the loan arrives or a refetch fails: it works when the loan was in the cache before.
* The repay form keeps its key while the amount is edited: the first record is returned, with a
  message of success. It can be sent again while the awaited refetch runs; the key keeps the money
  from being taken twice, but the second answer cuts the refetch off, and the allocation shown can be
  an earlier one. A repeated completing repayment is told "not active".
* Waivers, reschedules and applications have no key: an attempt whose answer was lost and that is made
  again is recorded twice.
* A batch does not invalidate the group's history (its key begins `contributions`, `group`; the member's
  is matched by the list's, a prefix of it), an application nothing. An answer asked for before
  a write, of a page left meanwhile, is stored as fresh after it.
* A text reference typed during an upload is lost, since the upload's end writes back the value of the
  render it began in (`frontend/components/evidence/EvidenceField.tsx:94`). The button stays enabled
  meanwhile, so a repayment can go without its file, and the page still says that evidence is linked
  (`frontend/lib/copy/messages.ts:224`).
* The SMS page's retry button asks for a capability, `notification.resend`, that no set of the
  repository has.

## 7. What the models leave out

* Not modelled: the legacy ledger service (a table that nothing else writes), the row of a meeting (its
  routes and their checks are), the stubs of attachments, authentication and
  tenancy, domain primitives, migrations, and the e-mail dispatcher, which no trigger uses. In the
  front end the write-off dialog, the second reversal dialog of the meeting page, and pages that only
  list.
* Wording, formatting, HTTP, DTO decorators. In `Contributions` and `LoanServicing` permission rules
  and reads of groups, members and meetings are one nondeterministic refusal; how they are decided is
  `RoleAssignments`.
* The read of a loan with its schedule is one statement (Prisma's `include`). The audit append is one
  statement in the modules whose properties need only its presence; its two statements are `AuditLog`.
* A list or a report is one query; a trace, which makes several, is taken as one state.
* Due dates, `termPeriods`, notes and approver names; of a rule version only the loan interest.
* Requests that reuse a key with another payload: left out of the instances of `Contributions` and
  `LoanServicing`; allowed in `LedgerPosting`, `SocialFund`, `Forms` and the proofs.
* Integers are unbounded: amounts are minor units in PostgreSQL integers, far from their limits, and
  no code relies on wrapping. The rounding of the fund's decimals is modelled, and that of its balances with 13 binary digits for
  53. `group` and `tenant-group` answer an interest rate as a number; it is not modelled there.
* TanStack Query, the SMS provider and the browser are external: what `QueryCache`, `Notifications`
  and `Forms` say of them is how the repository configures and uses them.

## 8. What could come next

1. The debts of loans when requests overlap or die: by how much the schedules and the ledger can then
   differ. `DebtInv` says nothing of a system in which a request has died.
2. `LoanApproval` and `LoanServicing` in one run, so that a disbursement meets an approval that is
   still to be written; today the state `APPROVED` is where one ends and the other begins.
3. Members and loans in one run with the triggers, in place of the constant tables `MemberRow` and
   `ScheduleItem`.
