------------------------ MODULE ContributionsProofs ------------------------
(***************************************************************************)
(* Proofs about Contributions and the trace of ContributionReads, for      *)
(* every set of groups, members, keys and requests.  What                  *)
(* LedgerPostingProofs shows of the ledger is used through the instance    *)
(* LP, of which every step of Contributions is a step.                     *)
(***************************************************************************)
EXTENDS ContributionReads, ContributionHistory, FiniteSetTheorems, TLAPS

LP == INSTANCE LedgerPostingProofs WITH
    Request <- Call, Key <- {LedgerKey(k) : k \in ContributionKey},
    BucketName <- FundBucket, Lines <- {ItemLines(i) : i \in Items},
    pc <- ledgerPc, command <- ledgerCommand, result <- ledgerResult

ParsedLine == [member : Member \cup {GroupAccount}, bucket : FundBucket, amount : Int]

\* The lines of an item are lines that the ledger takes as input.
LEMMA ItemLinesType ==
    ASSUME NEW item \in Item
    PROVE  ItemLines(item) \in Seq(ParsedLine)
<1>1. ASSUME NEW b \in FundBucket, NEW n \in Int
      PROVE  BucketLines(b, item.member, n) \in Seq(ParsedLine)
  <2>1. [member |-> item.member, bucket |-> b, amount |-> n] \in ParsedLine
    BY DEF ParsedLine, Item
  <2>2. [member |-> GroupAccount, bucket |-> b, amount |-> 0 - n] \in ParsedLine
    BY DEF ParsedLine
  <2>3. QED
    BY <2>1, <2>2 DEF BucketLines
<1>2. QED
  BY <1>1 DEF ItemLines, Item, FundBucket

LEMMA SubmittedItem ==
    ASSUME NEW s \in Submission, NEW i \in DOMAIN s.items
    PROVE  s.items[i] \in Item /\ s.items[i] \in Items
<1>1. s.items \in Seq(Item)
  BY ContributionsAssumption
<1>2. s.items[i] \in Range(s.items)
  BY DEF Range
<1>3. QED
  BY <1>1, <1>2 DEF Items

\* The assumptions of the ledger modules hold of this instance.
LEMMA LedgerAssumptions ==
    /\ {ItemLines(i) : i \in Items} \subseteq
          Seq([member : Member \cup {GroupAccount}, bucket : FundBucket, amount : Int])
    /\ /\ NoEvent \notin Call
       /\ NoEvent \notin LP!EventRow(Call)
       /\ NoCommand \notin LP!Command
       /\ MaxInFlight \in Nat
    /\ /\ GroupAccount \notin Member
       /\ NoKey \notin {LedgerKey(k) : k \in ContributionKey}
<1>1. \A i \in Items : i \in Item
  <2> SUFFICES ASSUME NEW s \in Submission, NEW i \in Range(s.items)
               PROVE  i \in Item
    BY DEF Items
  <2>1. PICK n \in DOMAIN s.items : i = s.items[n]
    BY DEF Range
  <2>2. QED
    BY <2>1, SubmittedItem
<1>2. {ItemLines(i) : i \in Items} \subseteq Seq(ParsedLine)
  BY <1>1, ItemLinesType
<1>3. LP!EventRow(Call) = Ledger!EventRow(Call)
  BY DEF LP!EventRow, Ledger!EventRow, LP!Line, Ledger!Line
<1>4. LP!Command = Ledger!Command
  BY DEF LP!Command, Ledger!Command, LP!PostCommand, Ledger!PostCommand,
     LP!ReverseCommand, Ledger!ReverseCommand
<1>5. QED
  BY <1>2, <1>3, <1>4, ContributionsAssumption, LedgerNullsAssumption DEF ParsedLine
-----------------------------------------------------------------------------
\* The operators of the two instances of the ledger are the same.
LEMMA SameInFlight == Ledger!InFlight = LP!InFlight
BY DEF Ledger!InFlight, LP!InFlight, Ledger!Step, LP!Step, Ledger!PostStep, LP!PostStep,
   Ledger!ReversalStep, LP!ReversalStep

LEMMA SameValidCommand == ASSUME NEW c PROVE Ledger!ValidCommand(c) <=> LP!ValidCommand(c)
<1>1. Ledger!Balanced(c.lines) <=> LP!Balanced(c.lines)
  BY DEF Ledger!Balanced, LP!Balanced, Ledger!SumOf, LP!SumOf, Ledger!SumFunction,
     LP!SumFunction, Ledger!SumFunctionOnSet, LP!SumFunctionOnSet,
     Ledger!FoldFunctionOnSet, LP!FoldFunctionOnSet, Ledger!MapThenFoldSet,
     LP!MapThenFoldSet
<1>2. QED
  BY <1>1 DEF Ledger!ValidCommand, LP!ValidCommand

\* Every step of the service is a step of the ledger service or leaves the
\* ledger alone.
LEMMA IsLedgerStep == TypeOK /\ RequestShape /\ [Next]_vars => [LP!Next]_LP!vars
<1> SUFFICES ASSUME TypeOK, RequestShape, [Next]_vars PROVE [LP!Next]_LP!vars
  OBVIOUS
<1> USE DEF LP!vars, ledgerVars
<1>1. ASSUME NEW r \in Request PROVE CallOf(r) \in Call
  BY DEF CallOf, Call, TypeOK
<1>2. ASSUME NEW r \in Request, Lookup(r) PROVE [LP!Next]_LP!vars
  <2>1. CASE UNCHANGED ledgerVars
    BY <2>1
  <2>2. CASE Ledger!StartPost(CallOf(r), PostCommand(r))
    <3>1. command[r] \in Submission /\ cur[r] \in DOMAIN command[r].items
      BY <1>2 DEF Lookup, RequestShape, RecordStep, Command, ReverseCommand
    <3>2. At(r) \in Item /\ At(r) \in Items /\ command[r].tenant \in Tenant
      BY <3>1, SubmittedItem, ContributionsAssumption DEF At
    <3>3. PostCommand(r) \in LP!PostCommand
      BY <3>2 DEF PostCommand, LP!PostCommand, Item
    <3>4. LP!StartPost(CallOf(r), PostCommand(r))
      BY <2>2, SameInFlight, SameValidCommand
         DEF Ledger!StartPost, LP!StartPost, Ledger!Goto, LP!Goto, Ledger!Cardinality,
            LP!Cardinality
    <3>5. QED
      BY <1>1, <3>3, <3>4 DEF LP!Next, LP!Post
  <2>3. QED
    BY <1>2, <2>1, <2>2 DEF Lookup
<1>3. ASSUME NEW r \in Request, LedgerStep(r) PROVE [LP!Next]_LP!vars
  <2>1. \/ LP!Lookup(CallOf(r)) \/ LP!Insert(CallOf(r)) \/ LP!Audit(CallOf(r))
        \/ LP!ReadOriginal(CallOf(r)) \/ LP!FindReversal(CallOf(r))
        \/ LP!InsertReversal(CallOf(r)) \/ LP!AuditReversal(CallOf(r))
    BY <1>3 DEF LedgerStep, Ledger!Lookup, LP!Lookup, Ledger!Insert, LP!Insert,
       Ledger!Audit, LP!Audit, Ledger!ReadOriginal, LP!ReadOriginal,
       Ledger!FindReversal, LP!FindReversal, Ledger!InsertReversal,
       LP!InsertReversal, Ledger!AuditReversal, LP!AuditReversal, Ledger!Goto, LP!Goto,
       Ledger!Return, LP!Return, Ledger!ByKey, LP!ByKey, Ledger!Ids, LP!Ids,
       Ledger!KeyFree, LP!KeyFree, Ledger!PostedRow, LP!PostedRow,
       Ledger!ReversalsOf, LP!ReversalsOf, Ledger!ReversalRow, LP!ReversalRow,
       Ledger!Negate, LP!Negate
  <2>2. QED
    BY <1>1, <2>1 DEF LP!Next, LP!Post, LP!Reversal
<1>4. ASSUME NEW r \in Request, Read(r) PROVE [LP!Next]_LP!vars
  <2>1. CASE UNCHANGED ledgerVars
    BY <2>1
  <2>2. CASE ~UNCHANGED ledgerVars
    <3> DEFINE c == [op |-> "reverse", tenant |-> command[r].tenant,
                     target |-> contributions[command[r].target].ledgerEvent]
    <3>1. /\ command[r].target \in Stored
          /\ contributions[command[r].target].tenant = command[r].tenant
          /\ Ledger!StartReversal(CallOf(r), c)
      BY <1>4, <2>2 DEF Read
    <3>2. contributions[command[r].target] \in ContributionRow
      BY <3>1 DEF Stored, TypeOK
    <3>3. c \in LP!ReverseCommand
      BY <3>1, <3>2 DEF LP!ReverseCommand, ContributionRow
    <3>4. LP!StartReversal(CallOf(r), c)
      BY <3>1, SameInFlight
         DEF Ledger!StartReversal, LP!StartReversal, Ledger!Goto, LP!Goto,
            Ledger!Cardinality, LP!Cardinality
    <3>5. QED
      BY <1>1, <3>3, <3>4 DEF LP!Next, LP!Reversal
  <2>3. QED
    BY <2>1, <2>2
<1>5. ASSUME NEW r \in Request, Crash(r) PROVE [LP!Next]_LP!vars
  <2>1. Ledger!Crash(CallOf(r)) \/ UNCHANGED ledgerVars
    BY <1>5 DEF Crash
  <2>2. Ledger!Crash(CallOf(r)) => LP!Crash(CallOf(r))
    BY SameInFlight DEF Ledger!Crash, LP!Crash, Ledger!Goto, LP!Goto
  <2>3. QED
    BY <1>1, <2>1, <2>2 DEF LP!Next
<1>6. ASSUME NEW r \in Request,
             Arrive(r) \/ TurnedAway(r) \/ EvidenceRefused(r) \/ Prevalidate(r)
               \/ Validate(r) \/ LedgerRefused(r) \/ Insert(r) \/ AuditRecord(r)
               \/ MarkReversed(r) \/ AuditReversal(r)
      PROVE  UNCHANGED ledgerVars
  BY <1>6 DEF Arrive, Start, TurnedAway, EvidenceRefused, Prevalidate, Validate,
     LedgerRefused, Insert, AuditRecord, MarkReversed, AuditReversal
<1>7. CASE UNCHANGED vars
  BY <1>7 DEF vars
<1>8. QED
  BY <1>2, <1>3, <1>4, <1>5, <1>6, <1>7 DEF Next, Advance
-----------------------------------------------------------------------------
\* What the ledger guarantees in every state.
LedgerInv ==
    /\ LP!TypeOK /\ LP!CallInv /\ LP!OneEventPerKey /\ LP!ReversalNegates
    /\ LP!ReturnsOwnEvent /\ LP!ReturnsOwnReversal

LEMMA LedgerInvStep == LedgerInv /\ [LP!Next]_LP!vars => LedgerInv'
BY LedgerAssumptions, LP!TypeStep, LP!CallStep, LP!OneEventPerKeyStep,
   LP!ReversalNegatesStep, LP!ReturnsOwnEventStep, LP!ReturnsOwnReversalStep
   DEF LedgerInv

LEMMA SameType == Ledger!TypeOK <=> LP!TypeOK
BY DEF Ledger!TypeOK, LP!TypeOK, Ledger!EventRow, LP!EventRow, Ledger!Line, LP!Line,
   Ledger!AuditRow, LP!AuditRow, Ledger!Step, LP!Step, Ledger!PostStep, LP!PostStep,
   Ledger!ReversalStep, LP!ReversalStep, Ledger!Finished, LP!Finished,
   Ledger!Command, LP!Command, Ledger!PostCommand, LP!PostCommand,
   Ledger!ReverseCommand, LP!ReverseCommand

LEMMA EventsKept ==
    ASSUME LedgerInv, [LP!Next]_LP!vars, NEW e \in LP!Ids(events)
    PROVE  events'[e] = events[e] /\ e \in LP!Ids(events)'
BY LedgerAssumptions, LP!RowsKept DEF LedgerInv

\* A statement of the ledger moves the call of its request and no other.
LEMMA LedgerStepEffect ==
    ASSUME TypeOK, LP!TypeOK, NEW r \in Request, LedgerStep(r)
    PROVE  /\ \A c \in Call : c # CallOf(r) => ledgerPc'[c] = ledgerPc[c]
           /\ ledgerCommand' = ledgerCommand
           /\ \/ /\ ledgerPc[CallOf(r)] \in Ledger!PostStep
                 /\ ledgerPc'[CallOf(r)] \in Ledger!PostStep \cup {"done", "refused"}
              \/ /\ ledgerPc[CallOf(r)] \in Ledger!ReversalStep
                 /\ ledgerPc'[CallOf(r)] \in Ledger!ReversalStep \cup {"done", "refused"}
<1>1. CallOf(r) \in Call
  BY DEF CallOf, Call, TypeOK
<1>2. ledgerPc \in [Call -> {"idle"} \cup LP!Step \cup LP!Finished]
  BY DEF LP!TypeOK
<1>3. QED
  BY <1>1, <1>2 DEF LedgerStep, Ledger!Lookup, Ledger!Insert, Ledger!Audit,
     Ledger!ReadOriginal, Ledger!FindReversal, Ledger!InsertReversal,
     Ledger!AuditReversal, Ledger!Goto, Ledger!Return, Ledger!PostStep,
     Ledger!ReversalStep
-----------------------------------------------------------------------------
\* The argument of a request has the type of its method.
LEMMA CommandType ==
    ASSUME TypeOK, RequestShape, NEW r \in Request, pc[r] # "idle"
    PROVE  /\ command[r].op \in {"record", "bulk"} => command[r] \in Submission
           /\ command[r].op = "reverse" => command[r] \in ReverseCommand
           /\ command[r].op \in {"record", "bulk", "reverse"}
<1>1. command[r] \in Command
  BY DEF RequestShape
<1>2. \A s \in Submission : s.op \in {"record", "bulk"}
  BY ContributionsAssumption
<1>3. QED
  BY <1>1, <1>2 DEF Command, ReverseCommand

LEMMA ItemType ==
    ASSUME TypeOK, RequestShape, NEW r \in Request, pc[r] \in RecordStep
    PROVE  /\ At(r) \in Item /\ At(r) \in Items
           /\ command[r] \in Submission
           /\ command[r].tenant \in Tenant
           /\ Len(command[r].items) \in 1..MaxItems
           /\ DOMAIN command[r].items = 1..Len(command[r].items)
<1>1. command[r] \in Submission /\ cur[r] \in DOMAIN command[r].items
  BY CommandType DEF RequestShape, RecordStep
<1>2. QED
  BY <1>1, SubmittedItem, ContributionsAssumption DEF At

\* The event that a posting returned is the caller's own.
LEMMA PostingReturned ==
    ASSUME TypeOK, RequestInv, LedgerInv, NEW r \in Request,
           pc[r] = "posting", ledgerPc[CallOf(r)] = "done"
    PROVE  /\ ledgerResult[CallOf(r)] \in LP!Ids(events)
           /\ ledgerResult[CallOf(r)] \in Call
           /\ events[ledgerResult[CallOf(r)]].tenant = command[r].tenant
           /\ events[ledgerResult[CallOf(r)]].key = LedgerKey(At(r).key)
           /\ events[ledgerResult[CallOf(r)]].reverses = NoEvent
<1>1. CallOf(r) \in Call
  BY DEF CallOf, Call, TypeOK
<1>2. ledgerCommand[CallOf(r)] = PostCommand(r)
  BY DEF RequestInv, OneCallAtATime, OneCall
<1>3. QED
  BY <1>1, <1>2 DEF LedgerInv, LP!ReturnsOwnEvent, PostCommand, LP!Ids, LP!TypeOK

\* Every variable keeps its type.
LEMMA TypeStep ==
    TypeOK /\ RequestInv /\ LedgerInv /\ [Next]_vars => TypeOK'
<1> SUFFICES ASSUME TypeOK, RequestInv, LedgerInv, [Next]_vars PROVE TypeOK'
  OBVIOUS
<1> USE DEF Goto, Step, RecordStep, ReversalStep, Finished, Refusal
<1>1. Ledger!TypeOK'
  <2>1. LP!TypeOK'
    BY IsLedgerStep, LedgerInvStep DEF RequestInv, LedgerInv
  <2>2. QED
    BY <2>1, SameType, PTL
<1>2. ASSUME NEW r \in Request PROVE CallOf(r) \in Call
  BY DEF CallOf, Call, TypeOK
<1>3. ASSUME NEW r \in Request, Arrive(r) PROVE TypeOK'
  BY <1>1, <1>3 DEF Arrive, Start, TypeOK, Command
<1>4. ASSUME NEW r \in Request,
             TurnedAway(r) \/ EvidenceRefused(r) \/ Validate(r) \/ LedgerRefused(r)
               \/ LedgerStep(r) \/ Read(r) \/ Crash(r)
      PROVE  TypeOK'
  BY <1>1, <1>4 DEF TypeOK, TurnedAway, EvidenceRefused, Validate, LedgerRefused,
     LedgerStep, Read, Crash
<1>5. ASSUME NEW r \in Request, Prevalidate(r) PROVE TypeOK'
  <2>1. cur[r] \in 1..MaxItems /\ 1 \in 1..MaxItems
    BY ContributionsAssumption DEF TypeOK
  <2>2. cur[r] < Len(command[r].items) => cur[r] + 1 \in 1..MaxItems
    BY <1>5, <2>1, ItemType, ContributionsAssumption DEF Prevalidate, RequestInv
  <2>3. QED
    BY <1>1, <1>5, <2>1, <2>2 DEF TypeOK, Prevalidate
<1>6. ASSUME NEW r \in Request, NEW c \in Call, Recorded(r, c), pc[r] \in RecordStep
      PROVE  /\ pc' \in [Request -> {"idle"} \cup Step \cup Finished]
             /\ cur' \in [Request -> 1..MaxItems]
             /\ ids' \in [Call -> Call \cup {NoContribution}]
  <2>1. cur[r] \in 1..MaxItems
    BY DEF TypeOK
  <2>2. cur[r] < Len(command[r].items) => cur[r] + 1 \in 1..MaxItems
    BY <1>6, <2>1, ItemType, ContributionsAssumption DEF RequestInv
  <2>3. QED
    BY <1>2, <1>6, <2>2 DEF TypeOK, Recorded
<1>7. ASSUME NEW r \in Request, Lookup(r) PROVE TypeOK'
  BY <1>1, <1>6, <1>7 DEF TypeOK, Lookup, WithKey, Stored
<1>8. ASSUME NEW r \in Request, Insert(r) PROVE TypeOK'
  <2>1. NewContribution(r) \in ContributionRow
    BY <1>8, ItemType, PostingReturned
       DEF Insert, NewContribution, ContributionRow, Item, RequestInv
  <2>2. QED
    BY <1>1, <1>2, <1>8, <2>1 DEF TypeOK, Insert
<1>9. ASSUME NEW r \in Request, AuditRecord(r) PROVE TypeOK'
  BY <1>1, <1>2, <1>6, <1>9 DEF TypeOK, AuditRecord, Audited, TrailRow, CallOf, Ledger!TypeOK
<1>10. ASSUME NEW r \in Request, MarkReversed(r) PROVE TypeOK'
  <2>1. command[r].target \in Stored
    BY <1>10 DEF MarkReversed, RequestInv, ReversalRead, ReversalReadBy
  <2>2. [contributions[command[r].target] EXCEPT !.status = "REVERSED"] \in ContributionRow
    BY <2>1 DEF Stored, TypeOK, ContributionRow
  <2>3. QED
    BY <1>1, <1>10, <2>1, <2>2 DEF TypeOK, MarkReversed
<1>11. ASSUME NEW r \in Request, AuditReversal(r) PROVE TypeOK'
  <2>1. command[r].target \in Call
    BY <1>11 DEF AuditReversal, RequestInv, ReversalRead, ReversalReadBy, Stored
  <2>2. QED
    BY <1>1, <1>2, <1>11, <2>1 DEF TypeOK, AuditReversal, Audited, TrailRow, CallOf, Ledger!TypeOK
<1>12. CASE UNCHANGED vars
  BY <1>1, <1>12 DEF TypeOK, vars
<1>13. QED
  BY <1>3, <1>4, <1>5, <1>7, <1>8, <1>9, <1>10, <1>11, <1>12 DEF Next, Advance
-----------------------------------------------------------------------------
\* A stored contribution stays, and only its status changes, once.
LEMMA ContributionsKept ==
    ASSUME TypeOK, RequestInv, [Next]_vars, NEW c \in Stored
    PROVE  /\ c \in Stored'
           /\ contributions'[c].tenant = contributions[c].tenant
           /\ contributions'[c].key = contributions[c].key
           /\ contributions'[c].ledgerEvent = contributions[c].ledgerEvent
           /\ contributions'[c].member = contributions[c].member
           /\ contributions'[c].savings = contributions[c].savings
           /\ contributions'[c].social = contributions[c].social
           /\ contributions[c].status = "REVERSED" => contributions'[c].status = "REVERSED"
<1>1. c \in Call /\ contributions[c] \in ContributionRow
  BY DEF Stored, TypeOK
<1>2. ASSUME NEW r \in Request, Insert(r) PROVE contributions'[c] = contributions[c]
  BY <1>1, <1>2 DEF Insert, RequestInv, OneCallAtATime, OneCall, Stored, TypeOK
<1>3. ASSUME NEW r \in Request, MarkReversed(r)
      PROVE  contributions'[c] \in {contributions[c], [contributions[c] EXCEPT !.status = "REVERSED"]}
  BY <1>1, <1>3 DEF MarkReversed, TypeOK
<1>4. contributions'[c] \in {contributions[c], [contributions[c] EXCEPT !.status = "REVERSED"]}
  BY <1>2, <1>3 DEF Next, Advance, Arrive, Start, TurnedAway, EvidenceRefused, Prevalidate,
     Validate, Lookup, LedgerStep, LedgerRefused, AuditRecord, Read, AuditReversal,
     Crash, vars
<1>5. [contributions[c] EXCEPT !.status = "REVERSED"] \in ContributionRow
  BY <1>1 DEF ContributionRow
<1>6. QED
  BY <1>1, <1>4, <1>5, ContributionsAssumption DEF Stored, ContributionRow

\* A step of one request leaves the others where they are.
LEMMA OthersStay ==
    ASSUME TypeOK, NEW r \in Request, NEW q \in Request, r # q,
           Arrive(r) \/ Advance(r) \/ Crash(r)
    PROVE  pc'[q] = pc[q] /\ command'[q] = command[q] /\ cur'[q] = cur[q]
<1> USE DEF TypeOK, Goto
<1>1. CASE Arrive(r) \/ Crash(r)
  BY <1>1 DEF Arrive, Start, Crash
<1>2. CASE TurnedAway(r) \/ EvidenceRefused(r) \/ Prevalidate(r) \/ Validate(r)
  BY <1>2 DEF TurnedAway, EvidenceRefused, Prevalidate, Validate
<1>3. CASE Lookup(r) \/ AuditRecord(r)
  BY <1>3 DEF Lookup, AuditRecord, Recorded
<1>4. CASE LedgerStep(r) \/ LedgerRefused(r) \/ Insert(r)
  BY <1>4 DEF LedgerStep, LedgerRefused, Insert
<1>5. CASE Read(r) \/ MarkReversed(r) \/ AuditReversal(r)
  BY <1>5 DEF Read, MarkReversed, AuditReversal
<1>6. QED
  BY <1>1, <1>2, <1>3, <1>4, <1>5 DEF Advance

\* Where a step takes its own request.
LEMMA OwnMove ==
    ASSUME TypeOK, RequestShape, NEW r \in Request, Advance(r) \/ Crash(r)
    PROVE  /\ command'[r] = command[r]
           /\ \/ cur'[r] = cur[r] /\ pc'[r] \in Finished
              \/ cur'[r] = cur[r] /\ pc'[r] = pc[r] /\ LedgerStep(r)
              \/ /\ pc[r] \in RecordStep /\ pc'[r] \in {"prevalidate", "validate"}
                 /\ cur'[r] \in DOMAIN command[r].items
              \/ cur'[r] = cur[r] /\ Validate(r) /\ pc'[r] = "lookup"
              \/ cur'[r] = cur[r] /\ pc[r] = "lookup" /\ pc'[r] = "posting"
              \/ cur'[r] = cur[r] /\ pc[r] = "posting" /\ pc'[r] = "auditRecord"
              \/ cur'[r] = cur[r] /\ pc[r] = "reading" /\ pc'[r] = "reversing"
              \/ cur'[r] = cur[r] /\ pc[r] = "reversing" /\ pc'[r] = "auditReversal"
<1> USE DEF Goto, TypeOK
<1>1. CASE TurnedAway(r) \/ EvidenceRefused(r) \/ LedgerRefused(r) \/ Crash(r)
  BY <1>1 DEF TurnedAway, EvidenceRefused, LedgerRefused, Crash, Finished, Refusal
<1>2. CASE LedgerStep(r)
  BY <1>2 DEF LedgerStep
<1>3. CASE Prevalidate(r)
  <2>1. pc[r] \in RecordStep
    BY <1>3 DEF Prevalidate, RecordStep
  <2>2. 1 \in DOMAIN command[r].items
    BY <2>1, ItemType
  <2>3. cur[r] < Len(command[r].items) => cur[r] + 1 \in DOMAIN command[r].items
    BY <2>1, ItemType
  <2>4. QED
    BY <1>3, <2>1, <2>2, <2>3 DEF Prevalidate
<1>4. CASE Validate(r)
  BY <1>4 DEF Validate
<1>5. ASSUME NEW c, Recorded(r, c), pc[r] \in RecordStep
      PROVE  \/ cur'[r] = cur[r] /\ pc'[r] \in Finished
             \/ pc'[r] = "validate" /\ cur'[r] \in DOMAIN command[r].items
  <2>1. cur[r] < Len(command[r].items) => cur[r] + 1 \in DOMAIN command[r].items
    BY <1>5, ItemType
  <2>2. QED
    BY <1>5, <2>1 DEF Recorded, Finished
<1>6. CASE Lookup(r)
  BY <1>5, <1>6 DEF Lookup, RecordStep, Finished, Refusal
<1>7. CASE Insert(r)
  BY <1>7 DEF Insert, Finished, Refusal
<1>8. CASE AuditRecord(r)
  BY <1>5, <1>8 DEF AuditRecord, RecordStep
<1>9. CASE Read(r) \/ MarkReversed(r) \/ AuditReversal(r)
  BY <1>9 DEF Read, MarkReversed, AuditReversal, Finished, Refusal
<1>10. QED
  BY <1>1, <1>2, <1>3, <1>4, <1>6, <1>7, <1>8, <1>9 DEF Advance

\* Where a request starts.
LEMMA OwnStart ==
    ASSUME TypeOK, RequestShape, NEW r \in Request, Arrive(r)
    PROVE  /\ pc[r] = "idle" /\ cur[r] = 1 /\ cur' = cur
           /\ command'[r] \in Command
           /\ \/ /\ pc'[r] \in {"prevalidate", "validate"}
                 /\ command'[r].op \in {"record", "bulk"} /\ 1 \in DOMAIN command'[r].items
              \/ pc'[r] = "reading" /\ command'[r].op = "reverse"
<1>1. pc[r] = "idle" /\ cur[r] = 1 /\ cur' = cur
  BY DEF Arrive, Start, RequestShape
<1>2. ASSUME NEW c \in Submission,
             Start(r, c, IF c.op = "bulk" THEN "prevalidate" ELSE "validate")
      PROVE  /\ pc'[r] \in {"prevalidate", "validate"} /\ command'[r] = c
             /\ c.op \in {"record", "bulk"} /\ 1 \in DOMAIN c.items
  <2>1. c.items \in Seq(Item) /\ Len(c.items) \in 1..MaxItems /\ c.op \in {"record", "bulk"}
    BY ContributionsAssumption
  <2>2. 1 \in DOMAIN c.items
    BY <2>1
  <2>3. QED
    BY <1>2, <2>1, <2>2 DEF Start, Goto, TypeOK
<1>3. ASSUME NEW c \in ReverseCommand, Start(r, c, "reading")
      PROVE  pc'[r] = "reading" /\ command'[r] = c /\ c.op = "reverse"
  BY <1>3 DEF Start, Goto, TypeOK, ReverseCommand
<1>4. QED
  BY <1>1, <1>2, <1>3 DEF Arrive, Command

\* Each step of a request leaves it at a valid item of its own argument.
LEMMA ShapeStep == TypeOK /\ RequestShape /\ [Next]_vars => RequestShape'
<1> SUFFICES ASSUME TypeOK, RequestShape, [Next]_vars, NEW q \in Request
             PROVE  /\ IF pc'[q] = "idle" THEN cur'[q] = 1 ELSE command'[q] \in Command
                    /\ pc'[q] \in RecordStep =>
                          /\ command'[q].op \in {"record", "bulk"}
                          /\ cur'[q] \in DOMAIN command'[q].items
                    /\ pc'[q] \in {"lookup", "posting", "auditRecord"} =>
                          ValidItem(command'[q].tenant, command'[q].items[cur'[q]])
                    /\ pc'[q] \in ReversalStep => command'[q].op = "reverse" /\ cur'[q] = 1
  BY DEF RequestShape, At, ValidItem
<1> USE DEF RecordStep, ReversalStep, Refusal, Finished
<1>1. CASE pc'[q] = pc[q] /\ command'[q] = command[q] /\ cur'[q] = cur[q]
  BY <1>1 DEF RequestShape, At
<1>2. CASE Arrive(q)
  BY <1>2, OwnStart
<1>3. CASE Advance(q) \/ Crash(q)
  <2>1. pc[q] # "idle"
    BY <1>3 DEF Crash, InFlight, Step, Advance, TurnedAway, EvidenceRefused, Prevalidate,
       Validate, Lookup, LedgerStep, LedgerRefused, Insert, AuditRecord, Read,
       MarkReversed, AuditReversal
  <2>2. Validate(q) => ValidItem(command[q].tenant, At(q))
    BY DEF Validate, Acceptable
  <2>3. /\ command'[q] = command[q] /\ command[q] \in Command
        /\ pc[q] \in RecordStep =>
              command[q].op \in {"record", "bulk"} /\ cur[q] \in DOMAIN command[q].items
        /\ pc[q] \in ReversalStep => command[q].op = "reverse" /\ cur[q] = 1
        /\ pc[q] \in {"lookup", "posting", "auditRecord"} =>
              ValidItem(command[q].tenant, command[q].items[cur[q]])
    BY <1>3, <2>1, OwnMove DEF RequestShape, At
  <2>4. CASE cur'[q] = cur[q] /\ pc'[q] \in Finished
    BY <2>3, <2>4
  <2>5. CASE /\ pc[q] \in RecordStep /\ pc'[q] \in {"prevalidate", "validate"}
             /\ cur'[q] \in DOMAIN command[q].items
    BY <2>3, <2>5
  <2>6. CASE cur'[q] = cur[q] /\ Validate(q) /\ pc'[q] = "lookup"
    BY <2>2, <2>3, <2>6 DEF Validate, At
  <2>7. CASE cur'[q] = cur[q] /\ pc[q] \in {"lookup", "posting"} /\ pc'[q] \in {"posting", "auditRecord"}
    BY <2>3, <2>7
  <2>8. CASE cur'[q] = cur[q] /\ pc[q] \in ReversalStep /\ pc'[q] \in ReversalStep
    BY <2>3, <2>8
  <2>9. QED
    BY <1>1, <1>3, <2>3, <2>4, <2>5, <2>6, <2>7, <2>8, OwnMove
<1>4. QED
  BY <1>1, <1>2, <1>3, OthersStay DEF Next, vars
\* A step of one request leaves the ledger calls and the rows of the others.
LEMMA CallsOfOthersStay ==
    ASSUME TypeOK, RequestInv, LP!TypeOK, NEW r \in Request, NEW q \in Request, r # q,
           Arrive(r) \/ Advance(r) \/ Crash(r), NEW i \in 1..MaxItems
    PROVE  /\ ledgerPc'[<<q, i>>] = ledgerPc[<<q, i>>]
           /\ ledgerCommand'[<<q, i>>] = ledgerCommand[<<q, i>>]
           /\ contributions[<<q, i>>] = NoContribution =>
                 contributions'[<<q, i>>] = NoContribution
<1>1. <<q, i>> \in Call /\ <<q, i>> # CallOf(r) /\ CallOf(r) \in Call
  BY DEF Call, CallOf, TypeOK
<1>2. /\ ledgerPc \in [Call -> {"idle"} \cup LP!Step \cup LP!Finished]
      /\ ledgerCommand \in [Call -> LP!Command \cup {NoCommand}]
      /\ contributions \in [Call -> ContributionRow \cup {NoContribution}]
  BY DEF LP!TypeOK, TypeOK
<1>3. CASE LedgerStep(r)
  BY <1>1, <1>3, LedgerStepEffect DEF LedgerStep
<1>4. CASE Lookup(r)
  BY <1>1, <1>2, <1>4 DEF Lookup, Ledger!StartPost, Ledger!Goto, ledgerVars
<1>5. CASE Read(r)
  BY <1>1, <1>2, <1>5 DEF Read, Ledger!StartReversal, Ledger!Goto, ledgerVars
<1>6. CASE Crash(r)
  BY <1>1, <1>2, <1>6 DEF Crash, Ledger!Crash, Ledger!Goto, ledgerVars
<1>7. CASE Insert(r)
  BY <1>1, <1>2, <1>7 DEF Insert, ledgerVars
<1>8. CASE MarkReversed(r)
  <2>1. command[r].target \in Stored
    BY <1>8 DEF MarkReversed, RequestInv, ReversalRead, ReversalReadBy
  <2>2. QED
    BY <1>1, <1>2, <1>8, <2>1 DEF MarkReversed, ledgerVars, Stored
<1>9. CASE Arrive(r) \/ TurnedAway(r) \/ EvidenceRefused(r) \/ Prevalidate(r)
           \/ Validate(r) \/ LedgerRefused(r) \/ AuditRecord(r) \/ AuditReversal(r)
  BY <1>9 DEF Arrive, Start, TurnedAway, EvidenceRefused, Prevalidate, Validate,
     LedgerRefused, AuditRecord, AuditReversal, ledgerVars
<1>10. QED
  BY <1>3, <1>4, <1>5, <1>6, <1>7, <1>8, <1>9 DEF Advance

\* A request has one ledger call under way, for the item it is at.
LEMMA OneCallStep ==
    TypeOK /\ RequestInv /\ LedgerInv /\ [Next]_vars => OneCallAtATime'
<1> SUFFICES ASSUME TypeOK, RequestInv, LedgerInv, [Next]_vars, NEW q \in Request
             PROVE  OneCall(q)'
  BY DEF OneCallAtATime
<1>1. /\ OneCall(q) /\ cur[q] \in 1..MaxItems
      /\ CallOf(q) \in Call /\ (\A i \in 1..MaxItems : <<q, i>> \in Call)
      /\ RequestShape
  BY DEF RequestInv, OneCallAtATime, CallOf, Call, TypeOK
<1>2. /\ ledgerPc \in [Call -> {"idle"} \cup LP!Step \cup LP!Finished]
      /\ ledgerCommand \in [Call -> LP!Command \cup {NoCommand}]
      /\ contributions \in [Call -> ContributionRow \cup {NoContribution}]
  BY DEF LP!TypeOK, TypeOK, LedgerInv
<1>3. ASSUME pc'[q] = pc[q], command'[q] = command[q], cur'[q] = cur[q],
             \A i \in 1..MaxItems :
                /\ ledgerPc'[<<q, i>>] = ledgerPc[<<q, i>>]
                /\ ledgerCommand'[<<q, i>>] = ledgerCommand[<<q, i>>]
                /\ contributions[<<q, i>>] = NoContribution =>
                      contributions'[<<q, i>>] = NoContribution
      PROVE  OneCall(q)'
  <2>1. pc[q] = "auditRecord" => CallOf(q) \in Stored'
    BY <1>1, ContributionsKept DEF OneCall
  <2>2. QED
    BY <1>1, <1>3, <2>1 DEF OneCall, CallOf, PostCommand, At, Stored
<1>4. CASE \E r \in Request : r # q /\ (Arrive(r) \/ Advance(r) \/ Crash(r))
  BY <1>3, <1>4, OthersStay, CallsOfOthersStay DEF LedgerInv
<1>5. CASE Arrive(q)
  BY <1>1, <1>5, OwnStart DEF Arrive, Start, OneCall, CallOf, ReversalStep, ledgerVars
<1>6. CASE TurnedAway(q) \/ EvidenceRefused(q) \/ LedgerRefused(q) \/ AuditReversal(q)
  BY <1>1, <1>6 DEF TurnedAway, EvidenceRefused, LedgerRefused, AuditReversal, OneCall,
     CallOf, ReversalStep, ledgerVars, Goto, TypeOK
<1>7. CASE Prevalidate(q) \/ Validate(q)
  <2>1. CASE Validate(q)
    BY <1>1, <2>1 DEF Validate, OneCall, CallOf, ReversalStep, ledgerVars, Goto, TypeOK
  <2>2. CASE Prevalidate(q)
    <3>1. /\ pc[q] = "prevalidate" /\ ledgerPc' = ledgerPc /\ contributions' = contributions
          /\ pc'[q] = "prevalidate" \/ (pc'[q] = "validate" /\ cur'[q] = 1)
      BY <2>2 DEF Prevalidate, ledgerVars, Goto, TypeOK
    <3>2. 1 \in 1..MaxItems
      BY ContributionsAssumption
    <3>3. QED
      BY <1>1, <3>1, <3>2 DEF OneCall, CallOf, ReversalStep
  <2>3. QED
    BY <1>7, <2>1, <2>2
<1>8. ASSUME NEW c, Recorded(q, c), pc[q] \in RecordStep, UNCHANGED <<ledgerVars, contributions>>
      PROVE  OneCall(q)'
  <2>1. cur[q] < Len(command[q].items) => cur[q] + 1 \in 1..MaxItems
    BY <1>1, <1>8, ItemType, ContributionsAssumption
  <2>2. CASE cur[q] < Len(command[q].items)
    <3>1. cur'[q] = cur[q] + 1 /\ pc'[q] = "validate"
      BY <1>8, <2>2 DEF Recorded, Goto, TypeOK
    <3>2. cur[q] + 1 > cur[q] /\ \A i \in 1..MaxItems : i > cur[q] + 1 => i > cur[q]
      BY <1>1, ContributionsAssumption
    <3>3. QED
      BY <1>1, <1>8, <2>1, <2>2, <3>1, <3>2 DEF OneCall, CallOf, ReversalStep, ledgerVars
  <2>3. CASE ~(cur[q] < Len(command[q].items))
    BY <1>1, <1>8, <2>3 DEF Recorded, OneCall, CallOf, ReversalStep, ledgerVars, Goto, TypeOK
  <2>4. QED
    BY <2>2, <2>3
<1>9. CASE Lookup(q)
  <2>1. CASE pc'[q] = "posting"
    <3>1. /\ Ledger!StartPost(CallOf(q), PostCommand(q))
          /\ pc[q] = "lookup" /\ cur' = cur /\ command' = command
          /\ contributions' = contributions
      BY <1>9, <2>1 DEF Lookup, Recorded, Goto, TypeOK
    <3>2. /\ ledgerPc'[CallOf(q)] \in Ledger!PostStep \cup {"refused"}
          /\ ledgerCommand'[CallOf(q)] = PostCommand(q)
          /\ \A i \in 1..MaxItems : i > cur[q] => ledgerPc'[<<q, i>>] = ledgerPc[<<q, i>>]
      BY <1>1, <1>2, <3>1 DEF Ledger!StartPost, Ledger!Goto, Ledger!PostStep, CallOf
    <3>3. QED
      BY <1>1, <2>1, <3>1, <3>2 DEF OneCall, CallOf, PostCommand, At, ReversalStep
  <2>2. CASE pc'[q] = "refused" /\ UNCHANGED <<ledgerVars, contributions, cur>>
    BY <1>1, <2>2, <1>9 DEF Lookup, OneCall, CallOf, ReversalStep, ledgerVars
  <2>3. QED
    BY <1>8, <1>9, <2>1, <2>2 DEF Lookup, RecordStep, Goto, TypeOK
<1>10. CASE LedgerStep(q)
  <2>1. /\ pc' = pc /\ cur' = cur /\ command' = command /\ contributions' = contributions
        /\ pc[q] \in {"posting", "reversing"}
    BY <1>10 DEF LedgerStep
  <2>2. \A i \in 1..MaxItems : i > cur[q] => ledgerPc'[<<q, i>>] = ledgerPc[<<q, i>>]
    BY <1>1, <1>10, LedgerStepEffect DEF CallOf, LedgerInv
  <2>3. /\ ledgerCommand' = ledgerCommand
        /\ \/ /\ ledgerPc[CallOf(q)] \in Ledger!PostStep
              /\ ledgerPc'[CallOf(q)] \in Ledger!PostStep \cup {"done", "refused"}
           \/ /\ ledgerPc[CallOf(q)] \in Ledger!ReversalStep
              /\ ledgerPc'[CallOf(q)] \in Ledger!ReversalStep \cup {"done", "refused"}
    BY <1>10, LedgerStepEffect DEF LedgerInv
  <2>4. QED
    BY <1>1, <2>1, <2>2, <2>3
       DEF OneCall, CallOf, PostCommand, At, ReversalStep, Ledger!PostStep, Ledger!ReversalStep
<1>11. CASE Insert(q)
  <2>1. CASE pc'[q] = "auditRecord"
    <3>1. /\ contributions' = [contributions EXCEPT ![CallOf(q)] = NewContribution(q)]
          /\ cur' = cur /\ ledgerPc' = ledgerPc
      BY <1>11, <2>1 DEF Insert, Goto, TypeOK, ledgerVars
    <3>2. NewContribution(q) # NoContribution
      <4>1. TypeOK'
        BY TypeStep
      <4>2. NewContribution(q) \in ContributionRow
        BY <1>1, <1>11, ItemType, PostingReturned
           DEF Insert, NewContribution, ContributionRow, Item, RecordStep
      <4>3. QED
        BY <4>2, ContributionsAssumption
    <3>3. QED
      BY <1>1, <1>2, <2>1, <3>1, <3>2 DEF OneCall, CallOf, Stored, ReversalStep
  <2>2. CASE pc'[q] # "auditRecord"
    BY <1>1, <1>11, <2>2 DEF Insert, OneCall, CallOf, ReversalStep, ledgerVars, Goto, TypeOK
  <2>3. QED
    BY <2>1, <2>2
<1>12. CASE AuditRecord(q)
  BY <1>8, <1>12 DEF AuditRecord, RecordStep
<1>13. CASE Read(q)
  <2>1. CASE pc'[q] = "reversing"
    <3>1. /\ ledgerPc'[CallOf(q)] = "readOriginal"
          /\ \A i \in 1..MaxItems : i > cur[q] => ledgerPc'[<<q, i>>] = ledgerPc[<<q, i>>]
      BY <1>1, <1>2, <1>13, <2>1
         DEF Read, Ledger!StartReversal, Ledger!Goto, CallOf, Goto, TypeOK
    <3>2. QED
      BY <1>1, <1>13, <2>1, <3>1 DEF Read, OneCall, CallOf, ReversalStep, Ledger!ReversalStep
  <2>2. CASE pc'[q] # "reversing"
    BY <1>1, <1>13, <2>2 DEF Read, OneCall, CallOf, ReversalStep, ledgerVars, Goto, TypeOK
  <2>3. QED
    BY <2>1, <2>2
<1>14. CASE MarkReversed(q)
  <2>1. command[q].target \in Stored
    BY <1>14 DEF MarkReversed, RequestInv, ReversalRead, ReversalReadBy
  <2>2. \A i \in 1..MaxItems : contributions[<<q, i>>] = NoContribution =>
                               contributions'[<<q, i>>] = NoContribution
    BY <1>1, <1>2, <1>14, <2>1 DEF MarkReversed, Stored
  <2>3. QED
    BY <1>1, <1>14, <2>2 DEF MarkReversed, OneCall, CallOf, ReversalStep, ledgerVars, Goto, TypeOK
<1>15. CASE Crash(q)
  <2>1. \A i \in 1..MaxItems : i > cur[q] => ledgerPc'[<<q, i>>] = ledgerPc[<<q, i>>]
    BY <1>1, <1>2, <1>15 DEF Crash, Ledger!Crash, Ledger!Goto, CallOf, ledgerVars
  <2>2. QED
    BY <1>1, <1>15, <2>1 DEF Crash, OneCall, CallOf, ReversalStep, Goto, TypeOK
<1>16. CASE UNCHANGED vars
  BY <1>3, <1>16 DEF vars, ledgerVars
<1>17. QED
  BY <1>4, <1>5, <1>6, <1>7, <1>9, <1>10, <1>11, <1>12, <1>13, <1>14, <1>15, <1>16
     DEF Next, Advance
\* The contribution that a reversal read is still the one it works on.
LEMMA ReversalReadStep ==
    TypeOK /\ RequestInv /\ LedgerInv /\ [Next]_vars => ReversalRead'
<1> SUFFICES ASSUME TypeOK, RequestInv, LedgerInv, [Next]_vars, NEW q \in Request
             PROVE  ReversalReadBy(q)'
  BY DEF ReversalRead
<1>1. ReversalReadBy(q) /\ CallOf(q) \in Call /\ RequestShape
  BY DEF RequestInv, ReversalRead, CallOf, Call, TypeOK
<1>2. ASSUME pc[q] \in {"reversing", "auditReversal"}, pc'[q] = pc[q],
             command'[q] = command[q], cur'[q] = cur[q],
             ledgerCommand'[CallOf(q)] = ledgerCommand[CallOf(q)]
      PROVE  ReversalReadBy(q)'
  <2>1. command[q].target \in Stored
    BY <1>1, <1>2 DEF ReversalReadBy
  <2>2. QED
    BY <1>1, <1>2, <2>1, ContributionsKept DEF ReversalReadBy, CallOf
<1>3. CASE pc'[q] \notin {"reversing", "auditReversal"}
  BY <1>3 DEF ReversalReadBy
<1>4. CASE \E r \in Request : r # q /\ (Arrive(r) \/ Advance(r) \/ Crash(r))
  <2>1. /\ pc'[q] = pc[q] /\ command'[q] = command[q] /\ cur'[q] = cur[q]
        /\ ledgerCommand'[CallOf(q)] = ledgerCommand[CallOf(q)]
    BY <1>4, OthersStay, CallsOfOthersStay DEF LedgerInv, CallOf, TypeOK
  <2>2. QED
    BY <1>2, <1>3, <2>1
<1>5. CASE Read(q) /\ pc'[q] = "reversing"
  <2>1. /\ command[q].target \in Stored
        /\ contributions[command[q].target].tenant = command[q].tenant
        /\ ledgerCommand'[CallOf(q)] =
              [op |-> "reverse", tenant |-> command[q].tenant,
               target |-> contributions[command[q].target].ledgerEvent]
    BY <1>1, <1>5 DEF Read, Ledger!StartReversal, Goto, TypeOK, LedgerInv, LP!TypeOK
  <2>2. QED
    BY <1>5, <2>1 DEF Read, ReversalReadBy, CallOf, Stored
<1>6. CASE LedgerStep(q)
  BY <1>2, <1>3, <1>6, LedgerStepEffect DEF LedgerStep, LedgerInv
<1>7. CASE MarkReversed(q)
  <2>1. /\ command[q].target \in Stored
        /\ contributions[command[q].target] \in ContributionRow
    BY <1>1, <1>7 DEF MarkReversed, ReversalReadBy, Stored, TypeOK
  <2>2. command[q].target \in Stored'
    BY <2>1, ContributionsKept
  <2>3. contributions'[command[q].target].status = "REVERSED"
    BY <1>7, <2>1 DEF MarkReversed, TypeOK, Stored, ContributionRow
  <2>4. QED
    BY <1>7, <2>2, <2>3 DEF MarkReversed, ReversalReadBy, Goto, TypeOK
<1>8. CASE UNCHANGED vars
  BY <1>2, <1>3, <1>8 DEF vars, ledgerVars
<1>9. CASE Arrive(q) \/ ((Advance(q) \/ Crash(q)) /\ ~LedgerStep(q) /\ ~Read(q) /\ ~MarkReversed(q))
  <2>1. pc'[q] \notin {"reversing", "auditReversal"}
    BY <1>1, <1>9, OwnStart DEF Advance, TurnedAway, EvidenceRefused, Prevalidate, Validate,
       Lookup, LedgerRefused, Insert, AuditRecord, Recorded, AuditReversal, Crash, Goto, TypeOK
  <2>2. QED
    BY <1>3, <2>1
<1>10. CASE Read(q) /\ pc'[q] # "reversing"
  BY <1>3, <1>10 DEF Read, Goto, TypeOK
<1>11. QED
  BY <1>4, <1>5, <1>6, <1>7, <1>8, <1>9, <1>10 DEF Next
-----------------------------------------------------------------------------
\* The initial state, and one step of everything above.
LEMMA InitInv == Init => TypeOK /\ RequestInv /\ LedgerInv
<1> SUFFICES ASSUME Init PROVE TypeOK /\ RequestInv /\ LedgerInv
  OBVIOUS
<1>1. LP!Init
  BY DEF Init, Ledger!Init, LP!Init
<1>2. LedgerInv
  BY <1>1 DEF LedgerInv, LP!Init, LP!TypeOK, LP!CallInv, LP!CallShape, LP!OwnRow,
     LP!OriginalRead, LP!OneEventPerKey, LP!ReversalNegates, LP!ReturnsOwnEvent,
     LP!ReturnsOwnReversal, LP!Ids, LP!Step, LP!PostStep, LP!ReversalStep, LP!Finished
<1>3. TypeOK
  BY <1>2, SameType, ContributionsAssumption DEF Init, TypeOK, LedgerInv
<1>4. RequestInv
  BY DEF Init, Ledger!Init, RequestInv, RequestShape, OneCallAtATime, OneCall, ReversalRead,
     ReversalReadBy, RecordStep, ReversalStep, Call
<1>5. QED
  BY <1>2, <1>3, <1>4

LEMMA InvStep ==
    TypeOK /\ RequestInv /\ LedgerInv /\ [Next]_vars => (TypeOK /\ RequestInv /\ LedgerInv)'
BY TypeStep, ShapeStep, OneCallStep, ReversalReadStep, IsLedgerStep, LedgerInvStep
   DEF RequestInv

\* Types, and what each statement of a request relies on, hold for any number
\* of requests, bulk or single, wherever they die.
THEOREM RequestsCorrect == Spec => [](TypeOK /\ RequestInv /\ LedgerInv)
BY InitInv, InvStep, PTL DEF Spec

\* The service uses the ledger as the ledger is specified, so that all that is
\* proved of LedgerPosting holds of the ledger tables here.
THEOREM UsesLedger == Spec => LP!Spec
<1>1. Init => LP!Init
  BY DEF Init, Ledger!Init, LP!Init
<1>2. TypeOK /\ RequestInv /\ [Next]_vars => [LP!Next]_LP!vars
  BY IsLedgerStep DEF RequestInv
<1>3. QED
  BY <1>1, <1>2, RequestsCorrect, PTL DEF Spec, LP!Spec
-----------------------------------------------------------------------------
\* A contribution that was not there before was inserted, under a free key,
\* with the event that the ledger returned.
LEMMA NewlyStored ==
    ASSUME TypeOK, RequestInv, LedgerInv, [Next]_vars, NEW c \in Stored', c \notin Stored
    PROVE  \E r \in Request :
              /\ c = CallOf(r) /\ Insert(r) /\ WithKey(At(r).key) = {}
              /\ contributions'[c] = NewContribution(r)
              /\ \A d \in Stored' : d = c \/ d \in Stored
<1>1. c \in Call /\ contributions'[c] # contributions[c]
  BY DEF Stored, TypeOK
<1>2. ASSUME NEW r \in Request, MarkReversed(r) PROVE FALSE
  <2>1. command[r].target \in Stored
    BY <1>2 DEF MarkReversed, RequestInv, ReversalRead, ReversalReadBy
  <2>2. QED
    BY <1>1, <1>2, <2>1 DEF MarkReversed, TypeOK
<1>3. PICK r \in Request : Insert(r)
  BY <1>1, <1>2 DEF Next, Advance, Arrive, Start, TurnedAway, EvidenceRefused, Prevalidate,
     Validate, Lookup, LedgerStep, LedgerRefused, AuditRecord, Read, AuditReversal,
     Crash, vars
<1>4. /\ CallOf(r) = c /\ WithKey(At(r).key) = {}
      /\ contributions' = [contributions EXCEPT ![c] = NewContribution(r)]
  BY <1>1, <1>3 DEF Insert, TypeOK
<1>5. QED
  BY <1>1, <1>3, <1>4 DEF Stored, TypeOK

\* Only an insert adds a contribution, and only under a key that none has.
LEMMA OneContributionPerKeyStep ==
    TypeOK /\ RequestInv /\ LedgerInv /\ OneContributionPerKey /\ [Next]_vars =>
        OneContributionPerKey'
<1> SUFFICES ASSUME TypeOK, RequestInv, LedgerInv, OneContributionPerKey, [Next]_vars,
                    NEW c \in Stored', NEW d \in Stored',
                    contributions'[c].key = contributions'[d].key
             PROVE  c = d
  BY DEF OneContributionPerKey
<1>1. ASSUME NEW x \in Stored', NEW y \in Stored', x \notin Stored,
             contributions'[x].key = contributions'[y].key
      PROVE  x = y
  <2>1. PICK r \in Request : /\ WithKey(At(r).key) = {}
                             /\ contributions'[x] = NewContribution(r)
                             /\ \A z \in Stored' : z = x \/ z \in Stored
    BY <1>1, NewlyStored
  <2>2. CASE y \in Stored
    <3>1. contributions[y].key = At(r).key
      BY <1>1, <2>1, <2>2, ContributionsKept DEF RequestInv, NewContribution
    <3>2. QED
      BY <2>1, <2>2, <3>1 DEF WithKey
  <2>3. QED
    BY <2>1, <2>2
<1>2. CASE c \in Stored /\ d \in Stored
  BY <1>2, ContributionsKept DEF OneContributionPerKey
<1>3. QED
  BY <1>1, <1>2

\* A duplicate key records one contribution, however many requests carry it,
\* overlap, and die between the posting and the insert.
THEOREM AtMostOneContributionPerKey == Spec => []OneContributionPerKey
<1>1. Init => OneContributionPerKey
  BY DEF Init, OneContributionPerKey, Stored
<1>2. QED
  BY <1>1, OneContributionPerKeyStep, RequestsCorrect, PTL DEF Spec
-----------------------------------------------------------------------------
\* The insert names the event the ledger returned, and neither row changes
\* in these columns afterwards.
LEMMA LinkedStep ==
    TypeOK /\ RequestInv /\ LedgerInv /\ LinkedToItsEvent /\ [Next]_vars =>
        LinkedToItsEvent'
<1> SUFFICES ASSUME TypeOK, RequestInv, LedgerInv, LinkedToItsEvent, [Next]_vars,
                    NEW c \in Stored'
             PROVE  LET e == contributions'[c].ledgerEvent IN
                    /\ e \in LP!Ids(events)'
                    /\ events'[e].tenant = contributions'[c].tenant
                    /\ events'[e].key = LedgerKey(contributions'[c].key)
                    /\ events'[e].reverses = NoEvent
  BY DEF LinkedToItsEvent, Ledger!Ids, LP!Ids
<1>1. [LP!Next]_LP!vars
  BY IsLedgerStep DEF RequestInv
<1>2. CASE c \in Stored
  <2>1. contributions[c].ledgerEvent \in LP!Ids(events)
    BY <1>2 DEF LinkedToItsEvent, Ledger!Ids, LP!Ids
  <2>2. QED
    BY <1>1, <1>2, <2>1, EventsKept, ContributionsKept DEF LinkedToItsEvent
<1>3. CASE c \notin Stored
  <2>1. PICK r \in Request : Insert(r) /\ contributions'[c] = NewContribution(r)
    BY <1>3, NewlyStored
  <2>2. pc[r] = "posting" /\ ledgerPc[CallOf(r)] = "done"
    BY <2>1 DEF Insert
  <2>3. QED
    BY <1>1, <2>1, <2>2, PostingReturned, EventsKept DEF NewContribution
<1>4. QED
  BY <1>2, <1>3

\* A contribution and its ledger event belong to the same tenant and key,
\* whichever request posted the event.
THEOREM EveryContributionIsPosted == Spec => []LinkedToItsEvent
<1>1. Init => LinkedToItsEvent
  BY DEF Init, LinkedToItsEvent, Stored
<1>2. QED
  BY <1>1, LinkedStep, RequestsCorrect, PTL DEF Spec
-----------------------------------------------------------------------------
\* A contribution is marked when the ledger has returned the reversal of its
\* event; a reversal stays in the ledger.
LEMMA ReversedStep ==
    TypeOK /\ RequestInv /\ LedgerInv /\ ReversedInLedger /\ [Next]_vars =>
        ReversedInLedger'
<1> SUFFICES ASSUME TypeOK, RequestInv, LedgerInv, ReversedInLedger, [Next]_vars,
                    NEW c \in Stored', contributions'[c].status = "REVERSED"
             PROVE  \E e \in LP!Ids(events)' :
                        events'[e].reverses = contributions'[c].ledgerEvent
  BY DEF ReversedInLedger, Ledger!ReversalsOf, Ledger!Ids, LP!Ids
<1>1. [LP!Next]_LP!vars
  BY IsLedgerStep DEF RequestInv
<1>2. c \in Stored
  <2>1. ASSUME c \notin Stored PROVE FALSE
    <3>1. PICK r \in Request : contributions'[c] = NewContribution(r)
      BY <2>1, NewlyStored
    <3>2. QED
      BY <3>1 DEF NewContribution
  <2>2. QED
    BY <2>1
<1>3. c \in Call /\ contributions[c] \in ContributionRow
  BY <1>2 DEF Stored, TypeOK
<1>4. CASE contributions[c].status = "REVERSED"
  <2>1. PICK e \in LP!Ids(events) : events[e].reverses = contributions[c].ledgerEvent
    BY <1>2, <1>4 DEF ReversedInLedger, Ledger!ReversalsOf, Ledger!Ids, LP!Ids
  <2>2. QED
    BY <1>1, <1>2, <2>1, EventsKept, ContributionsKept
<1>5. CASE contributions[c].status # "REVERSED"
  <2>1. PICK r \in Request : MarkReversed(r) /\ command[r].target = c
    <3>1. ASSUME NEW r \in Request, Insert(r) PROVE contributions'[c] = contributions[c]
      BY <1>2, <1>3, <3>1 DEF Insert, RequestInv, OneCallAtATime, OneCall, Stored, TypeOK
    <3>2. PICK r \in Request : MarkReversed(r)
      BY <1>5, <3>1 DEF Next, Advance, Arrive, Start, TurnedAway, EvidenceRefused,
         Prevalidate, Validate, Lookup, LedgerStep, LedgerRefused, AuditRecord, Read,
         AuditReversal, Crash, vars
    <3>3. QED
      BY <1>3, <1>5, <3>2 DEF MarkReversed, TypeOK
  <2>2. CallOf(r) \in Call /\ ledgerPc[CallOf(r)] = "done"
    BY <2>1 DEF MarkReversed, CallOf, Call, TypeOK
  <2>3. /\ ledgerCommand[CallOf(r)].op = "reverse"
        /\ ledgerCommand[CallOf(r)].target = contributions[c].ledgerEvent
    <3>1. pc[r] = "reversing" /\ ReversalReadBy(r)
      BY <2>1 DEF MarkReversed, RequestInv, ReversalRead
    <3>2. ledgerCommand[CallOf(r)] =
             [op |-> "reverse", tenant |-> command[r].tenant,
              target |-> contributions[c].ledgerEvent]
      BY <2>1, <3>1 DEF ReversalReadBy
    <3>3. QED
      BY <3>2
  <2>4. /\ ledgerResult[CallOf(r)] \in LP!Ids(events)
        /\ events[ledgerResult[CallOf(r)]].reverses = contributions[c].ledgerEvent
    BY <2>2, <2>3 DEF LedgerInv, LP!ReturnsOwnReversal
  <2>5. QED
    BY <1>1, <1>2, <2>4, EventsKept, ContributionsKept
<1>6. QED
  BY <1>4, <1>5

\* No contribution is shown as REVERSED whose money is still in the ledger.
THEOREM ReversedOnlyWithLedger == Spec => []ReversedInLedger
<1>1. Init => ReversedInLedger
  BY DEF Init, ReversedInLedger, Stored
<1>2. QED
  BY <1>1, ReversedStep, RequestsCorrect, PTL DEF Spec
-----------------------------------------------------------------------------
\* Only the insert of the ledger call that a request awaits adds an event.
LEMMA EventsWriter ==
    ASSUME TypeOK, RequestInv, LedgerInv, [Next]_vars,
           NEW e \in LP!Ids(events)', e \notin LP!Ids(events)
    PROVE  \E r \in Request :
              /\ e = CallOf(r) /\ LedgerStep(r)
              /\ \A d \in LP!Ids(events)' : d = e \/ d \in LP!Ids(events)
              /\ \/ /\ pc[r] = "posting" /\ ledgerPc'[e] = "audit"
                    /\ events'[e] = Ledger!PostedRow(PostCommand(r))
                    /\ events'[e].key = LedgerKey(At(r).key)
                    /\ events'[e].reverses = NoEvent
                 \/ /\ pc[r] = "reversing" /\ ledgerPc'[e] = "auditReversal"
                    /\ events'[e].reverses = contributions[command[r].target].ledgerEvent
<1>1. /\ events \in [Call -> LP!EventRow(Call) \cup {NoEvent}]
      /\ ledgerPc \in [Call -> {"idle"} \cup LP!Step \cup LP!Finished]
  BY DEF LedgerInv, LP!TypeOK
<1>2. events' # events
  BY DEF LP!Ids
<1>3. ASSUME NEW r \in Request, Arrive(r) \/ Advance(r) \/ Crash(r)
      PROVE  LedgerStep(r) /\ (Ledger!Insert(CallOf(r)) \/ Ledger!InsertReversal(CallOf(r)))
  <2>1. CASE LedgerStep(r)
    BY <1>2, <2>1 DEF LedgerStep, Ledger!Lookup, Ledger!Audit, Ledger!ReadOriginal,
       Ledger!FindReversal, Ledger!AuditReversal
  <2>2. CASE Lookup(r) \/ Read(r) \/ Crash(r)
    BY <1>2, <2>2 DEF Lookup, Read, Crash, Ledger!StartPost, Ledger!StartReversal,
       Ledger!Crash, ledgerVars
  <2>3. CASE Arrive(r) \/ TurnedAway(r) \/ EvidenceRefused(r) \/ Prevalidate(r) \/ Validate(r)
             \/ LedgerRefused(r) \/ Insert(r) \/ AuditRecord(r) \/ MarkReversed(r)
             \/ AuditReversal(r)
    BY <1>2, <2>3 DEF Arrive, Start, TurnedAway, EvidenceRefused, Prevalidate, Validate,
       LedgerRefused, Insert, AuditRecord, MarkReversed, AuditReversal, ledgerVars
  <2>4. QED
    BY <1>3, <2>1, <2>2, <2>3 DEF Advance
<1>4. PICK r \in Request :
         LedgerStep(r) /\ (Ledger!Insert(CallOf(r)) \/ Ledger!InsertReversal(CallOf(r)))
  BY <1>2, <1>3 DEF Next, vars, ledgerVars
<1>5. CallOf(r) \in Call /\ OneCall(r) /\ ReversalReadBy(r)
  BY DEF CallOf, Call, TypeOK, RequestInv, OneCallAtATime, ReversalRead
<1>6. CASE Ledger!Insert(CallOf(r))
  <2>1. ledgerPc[CallOf(r)] = "insert"
    BY <1>6 DEF Ledger!Insert
  <2>2. pc[r] = "posting" /\ ledgerCommand[CallOf(r)] = PostCommand(r)
    BY <1>4, <1>5, <2>1 DEF LedgerStep, OneCall, Ledger!ReversalStep
  <2>3. /\ events' = [events EXCEPT ![CallOf(r)] = Ledger!PostedRow(PostCommand(r))]
        /\ ledgerPc' = [ledgerPc EXCEPT ![CallOf(r)] = "audit"]
    BY <1>2, <1>6, <2>2 DEF Ledger!Insert, Ledger!Goto
  <2>4. e = CallOf(r) /\ \A d \in LP!Ids(events)' : d = e \/ d \in LP!Ids(events)
    BY <1>1, <2>3 DEF LP!Ids
  <2>5. events'[e] = Ledger!PostedRow(PostCommand(r)) /\ ledgerPc'[e] = "audit"
    BY <1>1, <1>5, <2>3, <2>4
  <2>6. QED
    BY <1>4, <2>2, <2>4, <2>5 DEF Ledger!PostedRow, PostCommand
<1>7. CASE Ledger!InsertReversal(CallOf(r))
  <2>1. ledgerPc[CallOf(r)] = "insertReversal"
    BY <1>7 DEF Ledger!InsertReversal
  <2>2. pc[r] = "reversing"
    BY <1>4, <1>5, <2>1 DEF LedgerStep, OneCall, Ledger!PostStep
  <2>3. ledgerCommand[CallOf(r)].target = contributions[command[r].target].ledgerEvent
    BY <1>5, <2>2 DEF ReversalReadBy
  <2>4. /\ events' = [events EXCEPT ![CallOf(r)] = Ledger!ReversalRow(ledgerCommand[CallOf(r)])]
        /\ ledgerPc' = [ledgerPc EXCEPT ![CallOf(r)] = "auditReversal"]
    BY <1>7 DEF Ledger!InsertReversal, Ledger!Goto
  <2>5. e = CallOf(r) /\ \A d \in LP!Ids(events)' : d = e \/ d \in LP!Ids(events)
    BY <1>1, <2>4 DEF LP!Ids
  <2>6. /\ events'[e] = Ledger!ReversalRow(ledgerCommand[CallOf(r)])
        /\ ledgerPc'[e] = "auditReversal"
    BY <1>1, <1>5, <2>4, <2>5
  <2>7. QED
    BY <1>4, <2>2, <2>3, <2>5, <2>6 DEF Ledger!ReversalRow
<1>8. QED
  BY <1>4, <1>6, <1>7

\* What a request does while it awaits the ledger, and that a crashed one does
\* nothing.
LEMMA AwaitingActs ==
    ASSUME TypeOK, NEW r \in Request, pc[r] \in {"posting", "reversing", "crashed"},
           Arrive(r) \/ Advance(r) \/ Crash(r)
    PROVE  /\ pc[r] # "crashed" /\ UNCHANGED <<command, cur>>
           /\ \/ LedgerStep(r) \/ LedgerRefused(r) \/ Crash(r)
              \/ pc[r] = "posting" /\ Insert(r)
              \/ pc[r] = "reversing" /\ MarkReversed(r)
<1>1. /\ pc[r] # "crashed"
      /\ \/ LedgerStep(r) \/ LedgerRefused(r) \/ Crash(r)
         \/ pc[r] = "posting" /\ Insert(r)
         \/ pc[r] = "reversing" /\ MarkReversed(r)
  BY DEF Arrive, Start, Advance, TurnedAway, EvidenceRefused, Prevalidate, Validate, Lookup,
     LedgerStep, LedgerRefused, Insert, AuditRecord, Read, MarkReversed, AuditReversal,
     Crash, InFlight, Step, RecordStep, ReversalStep
<1>2. QED
  BY <1>1 DEF LedgerStep, LedgerRefused, Insert, MarkReversed, Crash

\* Who posted an event is still at it, or died, unless its key has a contribution.
Poster(e) ==
    LET r == e[1] IN
    /\ r \in Request /\ e = CallOf(r)
    /\ pc[r] \in {"posting", "crashed"} /\ command[r].op # "reverse"
    /\ LedgerKey(At(r).key) = events[e].key
    /\ pc[r] = "posting" => ledgerPc[e] \in {"audit", "done"}

KeyRecorded(e) == \E c \in Stored : LedgerKey(contributions[c].key) = events[e].key

PosterInv ==
    \A e \in LP!Ids(events) : events[e].reverses = NoEvent => KeyRecorded(e) \/ Poster(e)

LEMMA PosterStep ==
    TotalDeclared /\ TypeOK /\ RequestInv /\ LedgerInv /\ PosterInv /\ [Next]_vars => PosterInv'
<1> SUFFICES ASSUME TotalDeclared, TypeOK, RequestInv, LedgerInv, PosterInv, [Next]_vars,
                    NEW e \in LP!Ids(events)', events'[e].reverses = NoEvent
             PROVE  KeyRecorded(e)' \/ Poster(e)'
  BY DEF PosterInv
<1> USE DEF Goto
<1>1. ASSUME e \notin LP!Ids(events) PROVE Poster(e)'
  <2>1. PICK r \in Request :
              /\ e = CallOf(r) /\ LedgerStep(r)
              /\ \/ /\ pc[r] = "posting" /\ ledgerPc'[e] = "audit"
                    /\ events'[e].key = LedgerKey(At(r).key)
                    /\ events'[e].reverses = NoEvent
                 \/ /\ pc[r] = "reversing" /\ ledgerPc'[e] = "auditReversal"
                    /\ events'[e].reverses = contributions[command[r].target].ledgerEvent
    BY <1>1, EventsWriter
  <2>2. pc[r] = "posting"
    <3>1. ASSUME pc[r] = "reversing" PROVE FALSE
      <4>1. command[r].target \in Stored
        BY <3>1 DEF RequestInv, ReversalRead, ReversalReadBy
      <4>2. contributions[command[r].target].ledgerEvent \in Call
        BY <4>1 DEF Stored, TypeOK, ContributionRow
      <4>3. QED
        BY <2>1, <3>1, <4>2, ContributionsAssumption
    <3>2. QED
      BY <2>1, <3>1
  <2>3. UNCHANGED <<pc, command, cur>> /\ e[1] = r
    BY <2>1 DEF LedgerStep, CallOf
  <2>4. command[r].op # "reverse"
    BY <2>2 DEF RequestInv, RequestShape, RecordStep
  <2>5. QED
    BY <2>1, <2>2, <2>3, <2>4 DEF Poster, CallOf, At
<1>2. ASSUME e \in LP!Ids(events) PROVE KeyRecorded(e)' \/ Poster(e)'
  <2>1. events'[e] = events[e] /\ (KeyRecorded(e) \/ Poster(e))
    BY <1>2, IsLedgerStep, EventsKept DEF PosterInv, RequestInv
  <2>2. CASE KeyRecorded(e)
    BY <2>1, <2>2, ContributionsKept DEF KeyRecorded
  <2>3. CASE Poster(e)
    <3> DEFINE r == e[1]
    <3>1. /\ r \in Request /\ e = CallOf(r) /\ pc[r] \in {"posting", "crashed"}
          /\ command[r].op # "reverse" /\ LedgerKey(At(r).key) = events[e].key
          /\ pc[r] = "posting" => ledgerPc[e] \in {"audit", "done"}
      BY <2>3 DEF Poster
    <3> HIDE DEF r
    <3>2. CASE UNCHANGED vars
      BY <2>1, <2>3, <3>2 DEF Poster, CallOf, At, vars, ledgerVars
    <3>3. ASSUME NEW q \in Request, q # r, Arrive(q) \/ Advance(q) \/ Crash(q)
          PROVE  Poster(e)'
      <4>1. cur[r] \in 1..MaxItems
        BY <3>1 DEF TypeOK
      <4>2. /\ pc'[r] = pc[r] /\ command'[r] = command[r] /\ cur'[r] = cur[r]
            /\ ledgerPc'[e] = ledgerPc[e]
        BY <3>1, <3>3, <4>1, OthersStay, CallsOfOthersStay DEF LedgerInv, CallOf
      <4>3. QED
        BY <2>1, <3>1, <4>2 DEF Poster, CallOf, At, r
    <3>4. ASSUME Arrive(r) \/ Advance(r) \/ Crash(r)
          PROVE  KeyRecorded(e)' \/ Poster(e)'
      <4>1. /\ pc[r] = "posting" /\ UNCHANGED <<command, cur>>
            /\ LedgerStep(r) \/ LedgerRefused(r) \/ Crash(r) \/ Insert(r)
        BY <3>1, <3>4, AwaitingActs
      <4>2. /\ ledgerPc[e] \in {"audit", "done"} /\ e \in Call
            /\ ledgerPc \in [Call -> {"idle"} \cup LP!Step \cup LP!Finished]
        BY <3>1, <4>1 DEF CallOf, Call, TypeOK, LedgerInv, LP!TypeOK
      <4>3. CASE LedgerStep(r)
        <5>1. ledgerPc'[e] = "done" /\ UNCHANGED pc
          BY <3>1, <4>2, <4>3 DEF LedgerStep, Ledger!Lookup, Ledger!Insert, Ledger!Audit,
             Ledger!ReadOriginal, Ledger!FindReversal, Ledger!InsertReversal,
             Ledger!AuditReversal, Ledger!Return, Ledger!Goto
        <5>2. QED
          BY <2>1, <3>1, <4>1, <5>1 DEF Poster, CallOf, At, r
      <4>4. CASE LedgerRefused(r)
        BY <3>1, <4>2, <4>4 DEF LedgerRefused
      <4>5. CASE Crash(r)
        <5>1. pc'[r] = "crashed"
          BY <3>1, <4>5 DEF Crash, TypeOK
        <5>2. QED
          BY <2>1, <3>1, <4>1, <5>1 DEF Poster, CallOf, At, r
      <4>6. CASE Insert(r)
        <5>1. CASE WithKey(At(r).key) # {}
          <6>1. PICK c \in Stored : contributions[c].key = At(r).key
            BY <5>1 DEF WithKey
          <6>2. c \in Stored' /\ contributions'[c].key = At(r).key
            BY <6>1, ContributionsKept
          <6>3. QED
            BY <2>1, <3>1, <6>2 DEF KeyRecorded
        <5>2. CASE WithKey(At(r).key) = {}
          <6>1. contributions'[e] = NewContribution(r)
            BY <3>1, <4>2, <4>6, <5>2 DEF Insert, TypeOK
          <6>2. NewContribution(r).key = At(r).key /\ NewContribution(r) \in ContributionRow
            <7>1. At(r) \in Item /\ command[r].tenant \in Tenant
              BY <3>1, <4>1, ItemType DEF RequestInv, RecordStep
            <7>2. ledgerPc[CallOf(r)] = "done"
              BY <4>6 DEF Insert
            <7>3. ledgerResult[CallOf(r)] \in Call
              BY <3>1, <4>1, <7>2, PostingReturned
            <7>4. QED
              BY <7>1, <7>3 DEF NewContribution, ContributionRow, Item
          <6>3. e \in Stored'
            BY <4>2, <6>1, <6>2, ContributionsAssumption DEF Stored
          <6>4. QED
            BY <2>1, <3>1, <6>1, <6>2, <6>3 DEF KeyRecorded
        <5>3. QED
          BY <5>1, <5>2
      <4>7. QED
        BY <4>1, <4>3, <4>4, <4>5, <4>6
    <3>5. QED
      BY <3>1, <3>2, <3>3, <3>4 DEF Next
  <2>4. QED
    BY <2>1, <2>2, <2>3
<1>3. QED
  BY <1>1, <1>2

\* Money that the ledger took in for a contribution gets its row, unless a request
\* for it is still on its way or died; where the total is declared.
THEOREM PostedContributionsAreRecorded ==
    ASSUME TotalDeclared
    PROVE  Spec => []PostedIsRecorded
<1>1. Init => PosterInv
  BY DEF Init, Ledger!Init, PosterInv, LP!Ids
<1>2. PosterInv => PostedIsRecorded
  BY DEF PosterInv, KeyRecorded, Poster, PostedIsRecorded, Ledger!Ids, LP!Ids
<1>3. TypeOK /\ RequestInv /\ LedgerInv /\ PosterInv /\ [Next]_vars => PosterInv'
  BY PosterStep
<1>4. QED
  BY <1>1, <1>2, <1>3, RequestsCorrect, PTL DEF Spec
-----------------------------------------------------------------------------
\* A step of one request leaves what the ledger returned to the others.
LEMMA ResultsOfOthersStay ==
    ASSUME TypeOK, LP!TypeOK, NEW r \in Request, NEW q \in Request, r # q,
           Arrive(r) \/ Advance(r) \/ Crash(r)
    PROVE  ledgerResult'[CallOf(q)] = ledgerResult[CallOf(q)]
<1>1. CallOf(q) \in Call /\ CallOf(q) # CallOf(r)
  BY DEF Call, CallOf, TypeOK
<1>2. ledgerResult \in [Call -> Call \cup {NoEvent}]
  BY DEF LP!TypeOK
<1>3. CASE LedgerStep(r)
  BY <1>1, <1>2, <1>3 DEF LedgerStep, Ledger!Lookup, Ledger!Insert, Ledger!Audit,
     Ledger!ReadOriginal, Ledger!FindReversal, Ledger!InsertReversal,
     Ledger!AuditReversal, Ledger!Return
<1>4. CASE Lookup(r) \/ Read(r) \/ Crash(r)
  BY <1>4 DEF Lookup, Read, Crash, Ledger!StartPost, Ledger!StartReversal, Ledger!Crash,
     ledgerVars
<1>5. CASE Arrive(r) \/ TurnedAway(r) \/ EvidenceRefused(r) \/ Prevalidate(r) \/ Validate(r)
           \/ LedgerRefused(r) \/ Insert(r) \/ AuditRecord(r) \/ MarkReversed(r)
           \/ AuditReversal(r)
  BY <1>5 DEF Arrive, Start, TurnedAway, EvidenceRefused, Prevalidate, Validate,
     LedgerRefused, Insert, AuditRecord, MarkReversed, AuditReversal, ledgerVars
<1>6. QED
  BY <1>3, <1>4, <1>5 DEF Advance

\* The request that reversed an event for contribution t is still at it, or died.
Reverser(x, t) ==
    LET r == x[1] IN
    /\ r \in Request /\ x = CallOf(r)
    /\ command[r].op = "reverse" /\ command[r].target = t
    /\ \/ pc[r] = "crashed"
       \/ pc[r] = "reversing" /\ ledgerPc[x] = "auditReversal"
       \/ pc[r] = "reversing" /\ ledgerPc[x] = "done" /\ ledgerResult[x] = x
       \/ /\ pc[r] = "auditReversal" /\ ledgerResult[x] = x
          /\ contributions[t].status = "REVERSED"

ReversalRow(t, x) == [action |-> "CONTRIBUTION_REVERSED", entity |-> t, event |-> x]

\* Every reversal in the ledger is of a contribution's event, and is marked and
\* audited there or soon will be.
ReversalInv ==
    \A x \in LP!Ids(events) : events[x].reverses # NoEvent =>
        \E t \in Stored :
            /\ contributions[t].ledgerEvent = events[x].reverses
            /\ \/ contributions[t].status = "REVERSED" /\ ReversalRow(t, x) \in trail
               \/ Reverser(x, t)

LEMMA TrailKept == [Next]_vars => trail \subseteq trail'
BY DEF Next, Advance, Arrive, Start, TurnedAway, EvidenceRefused, Prevalidate, Validate,
   Lookup, LedgerStep, LedgerRefused, Insert, AuditRecord, Read, MarkReversed,
   AuditReversal, Audited, Crash, vars

LEMMA ReversalStepInv ==
    TypeOK /\ RequestInv /\ LedgerInv /\ ReversalInv /\ [Next]_vars => ReversalInv'
<1> SUFFICES ASSUME TypeOK, RequestInv, LedgerInv, ReversalInv, [Next]_vars,
                    NEW x \in LP!Ids(events)', events'[x].reverses # NoEvent
             PROVE  \E t \in Stored' :
                       /\ contributions'[t].ledgerEvent = events'[x].reverses
                       /\ \/ contributions'[t].status = "REVERSED" /\ ReversalRow(t, x) \in trail'
                          \/ Reverser(x, t)'
  BY DEF ReversalInv, ReversalRow
<1> USE DEF Goto
<1>1. ASSUME x \notin LP!Ids(events)
      PROVE  \E t \in Stored' :
                contributions'[t].ledgerEvent = events'[x].reverses /\ Reverser(x, t)'
  <2>1. PICK r \in Request :
              /\ x = CallOf(r) /\ LedgerStep(r)
              /\ \/ /\ pc[r] = "posting" /\ ledgerPc'[x] = "audit"
                    /\ events'[x].key = LedgerKey(At(r).key)
                    /\ events'[x].reverses = NoEvent
                 \/ /\ pc[r] = "reversing" /\ ledgerPc'[x] = "auditReversal"
                    /\ events'[x].reverses = contributions[command[r].target].ledgerEvent
    BY <1>1, EventsWriter
  <2>2. /\ pc[r] = "reversing" /\ ledgerPc'[x] = "auditReversal"
        /\ events'[x].reverses = contributions[command[r].target].ledgerEvent
    BY <2>1
  <2>3. UNCHANGED <<contributions, pc, command, cur>> /\ x[1] = r
    BY <2>1 DEF LedgerStep, CallOf
  <2>4. command[r].op = "reverse" /\ command[r].target \in Stored
    BY <2>2 DEF RequestInv, RequestShape, ReversalStep, ReversalRead, ReversalReadBy
  <2>5. Reverser(x, command[r].target)'
    BY <2>1, <2>2, <2>3, <2>4 DEF Reverser, CallOf
  <2>6. command[r].target \in Stored'
    BY <2>3, <2>4 DEF Stored
  <2>7. QED
    BY <2>2, <2>3, <2>5, <2>6
<1>2. ASSUME x \in LP!Ids(events)
      PROVE  \E t \in Stored' :
                /\ contributions'[t].ledgerEvent = events'[x].reverses
                /\ \/ contributions'[t].status = "REVERSED" /\ ReversalRow(t, x) \in trail'
                   \/ Reverser(x, t)'
  <2>1. events'[x] = events[x]
    BY <1>2, IsLedgerStep, EventsKept DEF RequestInv
  <2>2. PICK t \in Stored :
            /\ contributions[t].ledgerEvent = events[x].reverses
            /\ \/ contributions[t].status = "REVERSED" /\ ReversalRow(t, x) \in trail
               \/ Reverser(x, t)
    BY <1>2, <2>1 DEF ReversalInv
  <2>3. t \in Stored' /\ contributions'[t].ledgerEvent = events'[x].reverses
    BY <2>1, <2>2, ContributionsKept
  <2>4. CASE contributions[t].status = "REVERSED" /\ ReversalRow(t, x) \in trail
    BY <2>3, <2>4, ContributionsKept, TrailKept
  <2>5. CASE Reverser(x, t)
    <3> DEFINE r == x[1]
    <3>1. /\ r \in Request /\ x = CallOf(r)
          /\ command[r].op = "reverse" /\ command[r].target = t
          /\ \/ pc[r] = "crashed"
             \/ pc[r] = "reversing" /\ ledgerPc[x] = "auditReversal"
             \/ pc[r] = "reversing" /\ ledgerPc[x] = "done" /\ ledgerResult[x] = x
             \/ /\ pc[r] = "auditReversal" /\ ledgerResult[x] = x
                /\ contributions[t].status = "REVERSED"
      BY <2>5 DEF Reverser
    <3> HIDE DEF r
    <3>2. /\ x \in Call /\ cur[r] \in 1..MaxItems /\ t \in Call
          /\ ledgerPc \in [Call -> {"idle"} \cup LP!Step \cup LP!Finished]
          /\ ledgerResult \in [Call -> Call \cup {NoEvent}]
          /\ contributions[t] \in ContributionRow
      BY <2>2, <3>1 DEF CallOf, Call, TypeOK, Stored, LedgerInv, LP!TypeOK
    <3>3. contributions[t].status = "REVERSED" => contributions'[t].status = "REVERSED"
      BY <2>2, ContributionsKept
    <3>4. CASE UNCHANGED vars
      <4>1. Reverser(x, t)'
        BY <2>5, <3>4 DEF Reverser, CallOf, vars, ledgerVars
      <4>2. QED
        BY <2>3, <4>1
    <3>5. ASSUME NEW q \in Request, q # r, Arrive(q) \/ Advance(q) \/ Crash(q)
          PROVE  Reverser(x, t)'
      <4>1. /\ pc'[r] = pc[r] /\ command'[r] = command[r] /\ cur'[r] = cur[r]
            /\ ledgerPc'[x] = ledgerPc[x]
        BY <3>1, <3>2, <3>5, OthersStay, CallsOfOthersStay DEF LedgerInv, CallOf
      <4>2. ledgerResult'[x] = ledgerResult[x]
        BY <3>1, <3>5, ResultsOfOthersStay DEF LedgerInv
      <4>3. QED
        BY <3>1, <3>3, <4>1, <4>2 DEF Reverser, CallOf, r
    <3>6. ASSUME Arrive(r) \/ Advance(r) \/ Crash(r)
          PROVE  \/ contributions'[t].status = "REVERSED" /\ ReversalRow(t, x) \in trail'
                 \/ Reverser(x, t)'
      <4>1. CASE Crash(r)
        <5>1. pc'[r] = "crashed" /\ UNCHANGED <<command, cur>>
          BY <3>1, <4>1 DEF Crash, TypeOK
        <5>2. QED
          BY <3>1, <5>1 DEF Reverser, CallOf, r
      <4>2. CASE pc[r] = "auditReversal" /\ ~Crash(r)
        <5>1. AuditReversal(r)
          BY <3>6, <4>2 DEF Arrive, Start, Advance, TurnedAway, EvidenceRefused, Prevalidate,
             Validate, Lookup, LedgerStep, LedgerRefused, Insert, AuditRecord, Read,
             MarkReversed
        <5>2. trail' = trail \cup {ReversalRow(t, x)}
          BY <3>1, <4>2, <5>1 DEF AuditReversal, Audited, ReversalRow, CallOf
        <5>3. QED
          BY <3>1, <3>3, <4>2, <5>2
      <4>3. CASE pc[r] = "reversing" /\ ~Crash(r)
        <5>1. UNCHANGED <<command, cur>> /\ (LedgerStep(r) \/ LedgerRefused(r) \/ MarkReversed(r))
          BY <3>1, <3>6, <4>3, AwaitingActs
        <5>2. CASE LedgerRefused(r)
          BY <3>1, <4>3, <5>2 DEF LedgerRefused
        <5>3. CASE LedgerStep(r)
          <6>1. ledgerPc[x] = "auditReversal" /\ UNCHANGED pc
            BY <3>1, <4>3, <5>3 DEF LedgerStep, Ledger!Lookup, Ledger!Insert, Ledger!Audit,
               Ledger!ReadOriginal, Ledger!FindReversal, Ledger!InsertReversal,
               Ledger!AuditReversal
          <6>2. ledgerPc'[x] = "done" /\ ledgerResult'[x] = x
            BY <3>1, <3>2, <5>3, <6>1 DEF LedgerStep, Ledger!Lookup, Ledger!Insert,
               Ledger!Audit, Ledger!ReadOriginal, Ledger!FindReversal,
               Ledger!InsertReversal, Ledger!AuditReversal, Ledger!Return, Ledger!Goto
          <6>3. QED
            BY <3>1, <4>3, <5>1, <6>1, <6>2 DEF Reverser, CallOf, r
        <5>4. CASE MarkReversed(r)
          <6>1. /\ ledgerPc[x] = "done" /\ ledgerResult[x] = x
                /\ pc'[r] = "auditReversal" /\ UNCHANGED ledgerResult
            BY <3>1, <4>3, <5>4 DEF MarkReversed, TypeOK, ledgerVars
          <6>2. contributions'[t].status = "REVERSED"
            BY <3>1, <3>2, <5>4 DEF MarkReversed, TypeOK, ContributionRow
          <6>3. QED
            BY <3>1, <5>1, <6>1, <6>2 DEF Reverser, CallOf, r
        <5>5. QED
          BY <5>1, <5>2, <5>3, <5>4
      <4>4. CASE pc[r] = "crashed"
        BY <3>1, <3>6, <4>4, AwaitingActs
      <4>5. QED
        BY <3>1, <4>1, <4>2, <4>3, <4>4
    <3>7. QED
      BY <2>3, <3>1, <3>4, <3>5, <3>6 DEF Next
  <2>6. QED
    BY <2>2, <2>3, <2>4, <2>5
<1>3. QED
  BY <1>1, <1>2

\* No two contributions have one ledger event.
LEMMA OneContributionPerEvent ==
    ASSUME OneContributionPerKey, LinkedToItsEvent, NEW c \in Stored, NEW d \in Stored,
           contributions[c].ledgerEvent = contributions[d].ledgerEvent
    PROVE  c = d
<1>1. LedgerKey(contributions[c].key) = LedgerKey(contributions[d].key)
  BY DEF LinkedToItsEvent
<1>2. QED
  BY <1>1 DEF LedgerKey, OneContributionPerKey

\* A reversal that the ledger has reaches its contribution, unless its request is
\* still on its way or died.
THEOREM ReversalsReachTheirRows == Spec => []ReversalReachesRow
<1>1. Init => ReversalInv
  BY DEF Init, Ledger!Init, ReversalInv, LP!Ids
<1>2. TypeOK /\ ReversalInv /\ OneContributionPerKey /\ LinkedToItsEvent => ReversalReachesRow
  <2> SUFFICES ASSUME TypeOK, ReversalInv, OneContributionPerKey, LinkedToItsEvent,
                      NEW c \in Stored, NEW x \in LP!Ids(events),
                      events[x].reverses = contributions[c].ledgerEvent
               PROVE  \/ contributions[c].status = "REVERSED"
                      \/ \E r \in Request :
                            /\ pc[r] \in {"reversing", "crashed"}
                            /\ command[r].op = "reverse" /\ command[r].target = c
    BY DEF ReversalReachesRow, Ledger!ReversalsOf, Ledger!Ids, LP!Ids
  <2>1. events[x].reverses # NoEvent
    BY ContributionsAssumption DEF Stored, TypeOK, ContributionRow
  <2>2. PICK t \in Stored :
            /\ contributions[t].ledgerEvent = events[x].reverses
            /\ \/ contributions[t].status = "REVERSED" /\ ReversalRow(t, x) \in trail
               \/ Reverser(x, t)
    BY <2>1 DEF ReversalInv
  <2>3. t = c
    BY <2>2, OneContributionPerEvent
  <2>4. QED
    BY <2>2, <2>3 DEF Reverser
<1>3. QED
  BY <1>1, <1>2, ReversalStepInv, RequestsCorrect, AtMostOneContributionPerKey,
     EveryContributionIsPosted, PTL DEF Spec
-----------------------------------------------------------------------------
\* What a reversal is about to write to the audit trail, and what it wrote there,
\* is an event that reverses its contribution's.
ReversesFor(x, c) ==
    /\ c \in Stored /\ x \in LP!Ids(events)
    /\ events[x].reverses = contributions[c].ledgerEvent

TrailInv ==
    /\ \A a \in trail : a.action = "CONTRIBUTION_REVERSED" => ReversesFor(a.event, a.entity)
    /\ \A r \in Request :
          pc[r] = "auditReversal" => ReversesFor(ledgerResult[CallOf(r)], command[r].target)

LEMMA ReversesForKept ==
    ASSUME TypeOK, RequestInv, LedgerInv, [Next]_vars, NEW x, NEW c, ReversesFor(x, c)
    PROVE  ReversesFor(x, c)'
BY IsLedgerStep, EventsKept, ContributionsKept DEF ReversesFor, RequestInv

LEMMA TrailStep ==
    TypeOK /\ RequestInv /\ LedgerInv /\ TrailInv /\ [Next]_vars => TrailInv'
<1> SUFFICES ASSUME TypeOK, RequestInv, LedgerInv, TrailInv, [Next]_vars PROVE TrailInv'
  OBVIOUS
<1>1. ASSUME NEW a \in trail', a.action = "CONTRIBUTION_REVERSED"
      PROVE  ReversesFor(a.event, a.entity)'
  <2>1. CASE a \in trail
    BY <1>1, <2>1, ReversesForKept DEF TrailInv
  <2>2. CASE a \notin trail
    <3>1. PICK r \in Request : AuditRecord(r) \/ AuditReversal(r)
      BY <2>2 DEF Next, Advance, Arrive, Start, TurnedAway, EvidenceRefused, Prevalidate,
         Validate, Lookup, LedgerStep, LedgerRefused, Insert, Read, MarkReversed, Crash, vars
    <3>2. AuditReversal(r)
      BY <1>1, <2>2, <3>1 DEF AuditRecord, Audited
    <3>3. a.event = ledgerResult[CallOf(r)] /\ a.entity = command[r].target
      BY <2>2, <3>2 DEF AuditReversal, Audited, CallOf
    <3>4. ReversesFor(a.event, a.entity)
      BY <3>2, <3>3 DEF TrailInv, AuditReversal
    <3>5. QED
      BY <3>4, ReversesForKept
  <2>3. QED
    BY <2>1, <2>2
<1>2. ASSUME NEW r \in Request, pc'[r] = "auditReversal"
      PROVE  ReversesFor(ledgerResult[CallOf(r)], command[r].target)'
  <2>1. CASE UNCHANGED <<pc, command, cur, ledgerResult>>
    BY <1>2, <2>1, ReversesForKept DEF TrailInv, CallOf
  <2>2. CASE \E q \in Request : q # r /\ (Arrive(q) \/ Advance(q) \/ Crash(q))
    <3>1. /\ pc[r] = "auditReversal" /\ command'[r] = command[r] /\ cur'[r] = cur[r]
          /\ ledgerResult'[CallOf(r)] = ledgerResult[CallOf(r)]
      BY <1>2, <2>2, OthersStay, ResultsOfOthersStay DEF LedgerInv
    <3>2. ReversesFor(ledgerResult[CallOf(r)], command[r].target)
      BY <3>1 DEF TrailInv
    <3>3. ReversesFor(ledgerResult[CallOf(r)], command[r].target)'
      <4> DEFINE x == ledgerResult[CallOf(r)]
                 c == command[r].target
      <4>1. x' = x /\ c' = c
        BY <3>1 DEF CallOf
      <4>2. QED
        BY <3>1, <3>2, ReversesForKept DEF ReversesFor, CallOf
    <3>4. QED
      BY <3>3
  <2>3. CASE Arrive(r) \/ Advance(r) \/ Crash(r)
    <3>1. MarkReversed(r)
      BY <1>2, <2>3 DEF Arrive, Start, Advance, TurnedAway, EvidenceRefused, Prevalidate,
         Validate, Lookup, Recorded, LedgerStep, LedgerRefused, Insert, AuditRecord, Read,
         AuditReversal, Crash, Goto, TypeOK
    <3>2. /\ pc[r] = "reversing" /\ ledgerPc[CallOf(r)] = "done" /\ ReversalReadBy(r)
          /\ CallOf(r) \in Call /\ UNCHANGED <<ledgerVars, command, cur>>
      BY <3>1 DEF MarkReversed, RequestInv, ReversalRead, CallOf, Call, TypeOK
    <3>3. /\ ledgerCommand[CallOf(r)].op = "reverse"
          /\ ledgerCommand[CallOf(r)].target = contributions[command[r].target].ledgerEvent
          /\ command[r].target \in Stored
      BY <3>2 DEF ReversalReadBy
    <3>4. ReversesFor(ledgerResult[CallOf(r)], command[r].target)
      BY <3>2, <3>3 DEF LedgerInv, LP!ReturnsOwnReversal, ReversesFor
    <3>5. command[r].target \in Stored'
              /\ contributions'[command[r].target].ledgerEvent =
                     contributions[command[r].target].ledgerEvent
      BY <3>3, ContributionsKept
    <3>6. QED
      BY <3>2, <3>4, <3>5 DEF ReversesFor, CallOf, ledgerVars, LP!Ids
  <2>4. QED
    BY <2>1, <2>2, <2>3 DEF Next, vars, ledgerVars
<1>3. QED
  BY <1>1, <1>2 DEF TrailInv

\* The trace of a contribution shows nothing that is not its own, and misses only
\* reversals whose request has not come to its audit row, or died before.
THEOREM TracesShowTheLedger == Spec => []TraceShowsLedger
<1>1. Init => ReversalInv /\ TrailInv
  BY DEF Init, Ledger!Init, ReversalInv, TrailInv, LP!Ids
<1>2. /\ TypeOK /\ ReversalInv /\ TrailInv /\ OneContributionPerKey /\ LinkedToItsEvent
      => TraceShowsLedger
  <2> SUFFICES ASSUME TypeOK, ReversalInv, TrailInv, OneContributionPerKey, LinkedToItsEvent,
                      NEW c \in Stored
               PROVE  LET of == contributions[c].ledgerEvent
                          reversals == {x \in LP!Ids(events) : events[x].reverses = of}
                      IN  /\ GetContributionTrace(c) \subseteq {of} \cup reversals
                          /\ \A x \in ({of} \cup reversals) \ GetContributionTrace(c) :
                                pc[x[1]] \in {"reversing", "auditReversal", "crashed"}
    BY DEF TraceShowsLedger, Ledger!ReversalsOf, Ledger!Ids, LP!Ids
  <2>1. ASSUME NEW a \in trail, a.action = "CONTRIBUTION_REVERSED", a.entity = c
        PROVE  a.event \in LP!Ids(events) /\ events[a.event].reverses = contributions[c].ledgerEvent
    BY <2>1 DEF TrailInv, ReversesFor
  <2>2. ASSUME NEW x \in LP!Ids(events), events[x].reverses = contributions[c].ledgerEvent,
               x \notin GetContributionTrace(c)
        PROVE  pc[x[1]] \in {"reversing", "auditReversal", "crashed"}
    <3>1. events[x].reverses # NoEvent
      BY <2>2, ContributionsAssumption DEF Stored, TypeOK, ContributionRow
    <3>2. PICK t \in Stored :
            /\ contributions[t].ledgerEvent = events[x].reverses
            /\ \/ contributions[t].status = "REVERSED" /\ ReversalRow(t, x) \in trail
               \/ Reverser(x, t)
      BY <3>1 DEF ReversalInv
    <3>3. t = c
      BY <2>2, <3>2, OneContributionPerEvent
    <3>4. ReversalRow(c, x) \notin trail
      BY <2>2 DEF GetContributionTrace, ReversalRow
    <3>5. QED
      BY <3>2, <3>3, <3>4 DEF Reverser
  <2>3. QED
    BY <2>1, <2>2 DEF GetContributionTrace
<1>3. QED
  BY <1>1, <1>2, ReversalStepInv, TrailStep, RequestsCorrect, AtMostOneContributionPerKey,
     EveryContributionIsPosted, PTL DEF Spec
-----------------------------------------------------------------------------
(* Evidence files: what record checked still holds when it inserts, unless *)
(* requests overlapped.                                                    *)

\* The evidence of the item at hand is still free.
EvidenceChecked(r) ==
    pc[r] \in {"lookup", "posting"} => EvidenceFree(command[r].tenant, At(r).evidence)

\* As long as no requests overlapped, at most one is in flight.
HistoryInv ==
    /\ overlapped \in BOOLEAN
    /\ IsFiniteSet(InFlight)
    /\ ~overlapped => /\ \A q, r \in InFlight : q = r
                      /\ EvidenceLinkedOnce
                      /\ \A r \in Request : EvidenceChecked(r)

LEMMA EvidenceKept ==
    ASSUME TypeOK, RequestInv, [Next]_vars, NEW c \in Stored
    PROVE  contributions'[c].evidence = contributions[c].evidence
<1>1. c \in Call /\ contributions[c] \in ContributionRow
  BY DEF Stored, TypeOK
<1>2. ASSUME NEW r \in Request, Insert(r) PROVE contributions'[c] = contributions[c]
  BY <1>1, <1>2 DEF Insert, RequestInv, OneCallAtATime, OneCall, Stored, TypeOK
<1>3. ASSUME NEW r \in Request, MarkReversed(r)
      PROVE  contributions'[c] \in {contributions[c], [contributions[c] EXCEPT !.status = "REVERSED"]}
  BY <1>1, <1>3 DEF MarkReversed, TypeOK
<1>4. contributions'[c] \in {contributions[c], [contributions[c] EXCEPT !.status = "REVERSED"]}
  BY <1>2, <1>3 DEF Next, Advance, Arrive, Start, TurnedAway, EvidenceRefused, Prevalidate,
     Validate, Lookup, LedgerStep, LedgerRefused, AuditRecord, Read, AuditReversal,
     Crash, vars
<1>5. QED
  BY <1>1, <1>4 DEF ContributionRow

\* Serving a request starts with its arrival.
LEMMA FlightGrows ==
    ASSUME TypeOK, RequestShape, NEW r \in Request, Arrive(r) \/ Advance(r) \/ Crash(r)
    PROVE  /\ InFlight' \subseteq InFlight \cup {r}
           /\ ~Arrive(r) => InFlight' \subseteq InFlight /\ r \in InFlight
<1>1. \A q \in Request : q # r => pc'[q] = pc[q]
  BY OthersStay
<1>2. ~Arrive(r) => r \in InFlight
  BY DEF Advance, TurnedAway, EvidenceRefused, Prevalidate, Validate, Lookup, LedgerStep,
     LedgerRefused, Insert, AuditRecord, Read, MarkReversed, AuditReversal, Crash, InFlight,
     Step, RecordStep, ReversalStep
<1>3. QED
  BY <1>1, <1>2 DEF InFlight

\* Without an overlap the request that inserts is the one that checked.
LEMMA EvidenceStep ==
    ASSUME TypeOK, RequestInv, LedgerInv, NEW r \in Request, Arrive(r) \/ Advance(r) \/ Crash(r),
           [Next]_vars, EvidenceLinkedOnce, \A q \in Request : EvidenceChecked(q),
           \A p, q \in InFlight : p = q
    PROVE  EvidenceLinkedOnce' /\ \A q \in Request : EvidenceChecked(q)'
<1> USE DEF RequestInv
<1>1. ASSUME NEW c \in Stored', NEW d \in Stored', c \notin Stored,
             contributions'[c].evidence = contributions'[d].evidence,
             contributions'[c].evidence # NoEvidence
      PROVE  c = d
  <2>1. PICK q \in Request : /\ Insert(q) /\ contributions'[c] = NewContribution(q)
                             /\ \A z \in Stored' : z = c \/ z \in Stored
    BY <1>1, NewlyStored
  <2>2. EvidenceFree(command[q].tenant, At(q).evidence)
    BY <2>1 DEF Insert, EvidenceChecked
  <2>3. contributions'[c].evidence = At(q).evidence
    BY <2>1 DEF NewContribution
  <2>4. d \in Stored => contributions'[d].evidence = contributions[d].evidence
    BY EvidenceKept
  <2>5. QED
    BY <1>1, <2>1, <2>2, <2>3, <2>4 DEF EvidenceFree
<1>2. EvidenceLinkedOnce'
  BY <1>1, EvidenceKept DEF EvidenceLinkedOnce
<1>3. ASSUME NEW q \in Request, pc'[q] \in {"lookup", "posting"}
      PROVE  EvidenceChecked(q)'
  <2>1. CASE Arrive(r)
    <3>1. q # r
      BY <1>3, <2>1 DEF Arrive, Start, Goto, TypeOK
    <3>2. UNCHANGED contributions
      BY <2>1 DEF Arrive, Start
    <3>3. Stored' = Stored
      BY <3>2 DEF Stored
    <3>4. pc'[q] = pc[q] /\ command'[q] = command[q] /\ cur'[q] = cur[q]
      BY <2>1, <3>1, OthersStay
    <3>5. EvidenceChecked(q)
      OBVIOUS
    <3>6. QED
      BY <3>2, <3>3, <3>4, <3>5 DEF EvidenceChecked, EvidenceFree, At
  <2>2. CASE ~Arrive(r)
    <3>1. r \in InFlight
      BY <2>2, FlightGrows
    <3>2. q = r
      <4> SUFFICES ASSUME q # r PROVE FALSE
        OBVIOUS
      <4>1. pc'[q] = pc[q]
        BY <2>2, OthersStay
      <4>2. q \in InFlight
        BY <1>3, <4>1 DEF InFlight, Step, RecordStep
      <4>3. QED
        BY <3>1, <4>2
    <3>3. \/ Validate(r) \/ (Lookup(r) /\ pc'[r] = "posting")
          \/ (LedgerStep(r) /\ pc[r] = "posting")
      BY <1>3, <2>2, <3>2 DEF Advance, TurnedAway, EvidenceRefused, Prevalidate, Validate,
         Lookup, LedgerStep, LedgerRefused, Insert, AuditRecord, Recorded, Read, MarkReversed,
         AuditReversal, Crash, Goto, TypeOK
    <3>4. /\ UNCHANGED <<contributions, command>> /\ cur'[r] = cur[r]
          /\ EvidenceFree(command[r].tenant, At(r).evidence)
      <4>1. CASE Validate(r)
        BY <4>1 DEF Validate, Acceptable
      <4>2. CASE Lookup(r) /\ pc'[r] = "posting"
        BY <4>2 DEF Lookup, Recorded, Goto, TypeOK, EvidenceChecked
      <4>3. CASE LedgerStep(r) /\ pc[r] = "posting"
        BY <4>3 DEF LedgerStep, EvidenceChecked
      <4>4. QED
        BY <3>3, <4>1, <4>2, <4>3
    <3>5. Stored' = Stored
      BY <3>4 DEF Stored
    <3>6. QED
      BY <3>2, <3>4, <3>5 DEF EvidenceChecked, EvidenceFree, At
  <2>3. QED
    BY <2>1, <2>2
<1>4. QED
  BY <1>2, <1>3 DEF EvidenceChecked

LEMMA HistoryStep ==
    ASSUME TypeOK, RequestInv, LedgerInv, HistoryInv, [HistoryNext]_historyVars
    PROVE  HistoryInv'
<1>1. CASE UNCHANGED historyVars
  <2>1. UNCHANGED <<overlapped, contributions, pc, command, cur>>
    BY <1>1 DEF historyVars, vars
  <2>2. InFlight' = InFlight /\ Stored' = Stored
    BY <2>1 DEF InFlight, Stored
  <2>3. \A r : EvidenceChecked(r)' <=> EvidenceChecked(r)
    BY <2>1, <2>2 DEF EvidenceChecked, EvidenceFree, At
  <2>4. QED
    BY <2>1, <2>2, <2>3 DEF HistoryInv, EvidenceLinkedOnce
<1>2. CASE HistoryNext
  <2>1. PICK r \in Request : Arrive(r) \/ Advance(r) \/ Crash(r)
    BY <1>2 DEF HistoryNext, Next
  <2>2. [Next]_vars
    BY <1>2 DEF HistoryNext
  <2>3. InFlight' \subseteq InFlight \cup {r}
    BY <2>1, FlightGrows DEF RequestInv
  <2>4. IsFiniteSet(InFlight')
    <3>1. IsFiniteSet(InFlight \cup {r})
      BY FS_AddElement DEF HistoryInv
    <3>2. QED
      BY <2>3, <3>1, FS_Subset
  <2>5. /\ overlapped' \in BOOLEAN
        /\ ~overlapped' => ~overlapped /\ ~(Cardinality(InFlight') > 1)
    BY <1>2 DEF HistoryNext, HistoryInv
  <2>6. ASSUME ~overlapped', NEW p \in InFlight', NEW q \in InFlight', p # q
        PROVE  FALSE
    <3>1. {p, q} \subseteq InFlight'
      OBVIOUS
    <3>2. Cardinality({p, q}) = 2
      <4>1. IsFiniteSet({p}) /\ Cardinality({p}) = 1
        BY FS_Singleton
      <4>2. {p, q} = {p} \cup {q} /\ q \notin {p}
        BY <2>6
      <4>3. QED
        BY <4>1, <4>2, FS_AddElement
    <3>3. Cardinality({p, q}) <= Cardinality(InFlight')
      BY <2>4, <3>1, FS_Subset
    <3>4. Cardinality(InFlight') \in Nat
      BY <2>4, FS_CardinalityType
    <3>5. QED
      BY <2>5, <2>6, <3>2, <3>3, <3>4
  <2>7. ASSUME ~overlapped'
        PROVE  EvidenceLinkedOnce' /\ \A q \in Request : EvidenceChecked(q)'
    BY <2>1, <2>2, <2>5, <2>7, EvidenceStep DEF HistoryInv
  <2>8. QED
    BY <2>4, <2>5, <2>6, <2>7 DEF HistoryInv
<1>3. QED
  BY <1>1, <1>2

\* An evidence file is linked to one contribution as long as no requests overlapped,
\* also within one bulk and after a crash: validateEvidence looks at the table and
\* nothing comes between it and the insert (contribution.service.ts).
THEOREM EvidenceIsLinkedOnceSerially == HistorySpec => []EvidenceLinkedOnceSerially
<1>1. HistoryInit => Init
  BY DEF HistoryInit
<1>2. [HistoryNext]_historyVars => [Next]_vars
  BY DEF HistoryNext, historyVars
<1>3. HistoryInit => HistoryInv
  <2> SUFFICES ASSUME HistoryInit PROVE HistoryInv
    OBVIOUS
  <2>1. InFlight = {} /\ Stored = {}
    BY DEF HistoryInit, Init, InFlight, Stored, Step, RecordStep, ReversalStep
  <2>2. \A r \in Request : EvidenceChecked(r)
    BY DEF HistoryInit, Init, EvidenceChecked
  <2>3. QED
    BY <2>1, <2>2, FS_EmptySet DEF HistoryInit, HistoryInv, EvidenceLinkedOnce
<1>4. TypeOK /\ RequestInv /\ LedgerInv /\ HistoryInv /\ [HistoryNext]_historyVars => HistoryInv'
  BY HistoryStep
<1>5. HistoryInv => EvidenceLinkedOnceSerially
  BY DEF HistoryInv, EvidenceLinkedOnceSerially
<1>6. QED
  BY <1>1, <1>2, <1>3, <1>4, <1>5, RequestsCorrect, PTL DEF HistorySpec, Spec
-----------------------------------------------------------------------------
\* The sums over finite sets of LedgerPostingProofs, for the tables of this module.
LEMMA SameSums ==
    /\ \A f, S : LP!SumFunctionOnSet(f, S) = SumFunctionOnSet(f, S)
    /\ \A S : LP!IsFiniteSet(S) <=> IsFiniteSet(S)
    /\ \A S : LP!Cardinality(S) = Cardinality(S)
<1>1. \A f, S : LP!SumFunctionOnSet(f, S) = SumFunctionOnSet(f, S)
  BY DEF SumFunctionOnSet, LP!SumFunctionOnSet, FoldFunctionOnSet, LP!FoldFunctionOnSet,
     MapThenFoldSet, LP!MapThenFoldSet
<1>2. \A S : LP!IsFiniteSet(S) <=> IsFiniteSet(S)
  BY DEF LP!IsFiniteSet, IsFiniteSet
<1>3. \A S : LP!Cardinality(S) = Cardinality(S)
  BY DEF LP!Cardinality, Cardinality, LP!IsFiniteSet, IsFiniteSet
<1>. QED
  BY <1>1, <1>2, <1>3

LEMMA LedgerSum ==
    ASSUME NEW f
    PROVE  /\ Ledger!SumFunction(f) = SumFunctionOnSet(f, DOMAIN f)
           /\ SumFunction(f) = SumFunctionOnSet(f, DOMAIN f)
BY DEF SumFunction, SumFunctionOnSet, Ledger!SumFunction, Ledger!SumFunctionOnSet,
   FoldFunctionOnSet, Ledger!FoldFunctionOnSet, MapThenFoldSet, Ledger!MapThenFoldSet

LEMMA SumEmpty == ASSUME NEW f PROVE SumFunctionOnSet(f, {}) = 0
BY LedgerAssumptions, LP!SumEmpty, SameSums

LEMMA SumType ==
    ASSUME NEW S, IsFiniteSet(S), NEW f, \A x \in S : f[x] \in Int
    PROVE  SumFunctionOnSet(f, S) \in Int
BY LedgerAssumptions, LP!SumType, SameSums

LEMMA SumRemove ==
    ASSUME NEW S, IsFiniteSet(S), NEW f, \A y \in S : f[y] \in Int, NEW x \in S
    PROVE  /\ SumFunctionOnSet(f, S) = f[x] + SumFunctionOnSet(f, S \ {x})
           /\ SumFunctionOnSet(f, S) \in Int /\ SumFunctionOnSet(f, S \ {x}) \in Int
BY LedgerAssumptions, LP!SumRemove, SameSums

LEMMA SumSame ==
    ASSUME NEW S, IsFiniteSet(S), NEW f, NEW g, \A x \in S : f[x] = g[x]
    PROVE  SumFunctionOnSet(f, S) = SumFunctionOnSet(g, S)
BY LedgerAssumptions, LP!SumSame, SameSums

LEMMA SumUnion ==
    ASSUME NEW S, IsFiniteSet(S), NEW T, IsFiniteSet(T), S \cap T = {},
           NEW f, \A x \in S \cup T : f[x] \in Int
    PROVE  SumFunctionOnSet(f, S \cup T) = SumFunctionOnSet(f, S) + SumFunctionOnSet(f, T)
<1>1. LP!IsFiniteSet(S) /\ LP!IsFiniteSet(T)
  BY SameSums
<1>3. LP!SumFunctionOnSet(f, S \cup T) = LP!SumFunctionOnSet(f, S) + LP!SumFunctionOnSet(f, T)
  BY <1>1, LedgerAssumptions, LP!SumUnion
<1>. QED
  BY <1>3, SameSums

LEMMA SumMinus ==
    ASSUME NEW S, IsFiniteSet(S), NEW f, NEW g, \A x \in S : f[x] \in Int /\ g[x] = -f[x]
    PROVE  SumFunctionOnSet(g, S) = -SumFunctionOnSet(f, S) /\ SumFunctionOnSet(f, S) \in Int
BY LedgerAssumptions, LP!SumMinus, SameSums

LEMMA SumPoint ==
    ASSUME NEW S, IsFiniteSet(S), NEW f, NEW u \in S, f[u] \in Int, \A x \in S \ {u} : f[x] = 0
    PROVE  SumFunctionOnSet(f, S) = f[u]
BY LedgerAssumptions, LP!SumPoint, SameSums

LEMMA SumPart ==
    ASSUME NEW S, IsFiniteSet(S), NEW T \in SUBSET S, NEW f,
           \A x \in T : f[x] \in Int, \A x \in S \ T : f[x] = 0
    PROVE  SumFunctionOnSet(f, S) = SumFunctionOnSet(f, T)
BY LedgerAssumptions, LP!SumPart, SameSums

LEMMA SumSwap ==
    \A S, T, f, rows, turned, columns :
        LP!Table(S, T, f, rows, turned, columns) =>
            SumFunctionOnSet(rows, S) = SumFunctionOnSet(columns, T)
<1>1. \A S, T, f, rows, turned, columns :
         LP!Table(S, T, f, rows, turned, columns) =>
             LP!SumFunctionOnSet(rows, S) = LP!SumFunctionOnSet(columns, T)
  BY ONLY LedgerAssumptions, LP!SumSwap
<1>. QED
  BY <1>1, SameSums

LEMMA SumRenamed ==
    \A S, T, h, f, g :
        LP!Renaming(S, T, h, f, g) =>
            SumFunctionOnSet(f, S) = SumFunctionOnSet(g, T)
<1>1. \A S, T, h, f, g :
         LP!Renaming(S, T, h, f, g) =>
             LP!SumFunctionOnSet(f, S) = LP!SumFunctionOnSet(g, T)
  BY ONLY LedgerAssumptions, LP!SumRenamed
<1>. QED
  BY <1>1, SameSums

LEMMA SumGrouped ==
    \A S, T, k, g, sums :
        LP!Grouping(S, T, k, g, sums) =>
            SumFunctionOnSet(sums, T) = SumFunctionOnSet(g, S)
<1>1. \A S, T, k, g, sums :
         LP!Grouping(S, T, k, g, sums) =>
             LP!SumFunctionOnSet(sums, T) = LP!SumFunctionOnSet(g, S)
  BY ONLY LedgerAssumptions, LP!SumGrouped
<1>. QED
  BY <1>1, SameSums

LEMMA NetOfReversals ==
    \A P, R, a, t, of, net :
        LP!Reversing(P, R, a, t, of, net) =>
            SumFunctionOnSet(a, P \cup R) = SumFunctionOnSet(net, P)
<1>1. \A P, R, a, t, of, net :
         LP!Reversing(P, R, a, t, of, net) =>
             LP!SumFunctionOnSet(a, P \cup R) = LP!SumFunctionOnSet(net, P)
  BY ONLY LedgerAssumptions, LP!NetOfReversals
<1>. QED
  BY <1>1, SameSums
-----------------------------------------------------------------------------
\* What a contribution and the event of a posting hold was asked for.
AskedFor(tenant, item) ==
    /\ item \in Items /\ ValidItem(tenant, item)
    /\ \E s \in Submission : s.tenant = tenant /\ \E i \in DOMAIN s.items : item = s.items[i]

ContentInv ==
    /\ \A e \in LP!Ids(events) : events[e].reverses = NoEvent =>
          \E item \in Item :
              /\ AskedFor(events[e].tenant, item) /\ events[e].key = LedgerKey(item.key)
              /\ events[e].lines = ItemLines(item)
    /\ \A c \in Stored :
          \E item \in Item :
              /\ AskedFor(contributions[c].tenant, item) /\ contributions[c].key = item.key
              /\ contributions[c].member = item.member
              /\ contributions[c].savings = item.savings
              /\ contributions[c].social = item.social

LEMMA AskedNow ==
    ASSUME TypeOK, RequestInv, NEW r \in Request, pc[r] = "posting"
    PROVE  At(r) \in Item /\ AskedFor(command[r].tenant, At(r))
<1>1. pc[r] \in RecordStep /\ ValidItem(command[r].tenant, At(r))
      /\ cur[r] \in DOMAIN command[r].items
  BY DEF RequestInv, RequestShape, RecordStep
<1>2. At(r) \in Item /\ At(r) \in Items /\ command[r] \in Submission
  BY <1>1, ItemType DEF RequestInv
<1>. QED
  BY <1>1, <1>2 DEF AskedFor, At

LEMMA ContentStep ==
    TypeOK /\ RequestInv /\ LedgerInv /\ ContentInv /\ [Next]_vars => ContentInv'
<1> SUFFICES ASSUME TypeOK, RequestInv, LedgerInv, ContentInv, [Next]_vars PROVE ContentInv'
  OBVIOUS
<1>1. ASSUME NEW e \in LP!Ids(events)', events'[e].reverses = NoEvent
      PROVE  \E item \in Item :
              /\ AskedFor(events'[e].tenant, item) /\ events'[e].key = LedgerKey(item.key)
              /\ events'[e].lines = ItemLines(item)
  <2>1. CASE e \in LP!Ids(events)
    <3>1. events'[e] = events[e]
      BY <2>1, IsLedgerStep, EventsKept DEF RequestInv
    <3>. QED
      BY <1>1, <2>1, <3>1 DEF ContentInv
  <2>2. CASE e \notin LP!Ids(events)
    <3>1. PICK r \in Request :
             \/ pc[r] = "posting" /\ events'[e] = Ledger!PostedRow(PostCommand(r))
             \/ /\ pc[r] = "reversing"
                /\ events'[e].reverses = contributions[command[r].target].ledgerEvent
      BY <2>2, EventsWriter
    <3>2. ~(/\ pc[r] = "reversing"
            /\ events'[e].reverses = contributions[command[r].target].ledgerEvent)
      <4> SUFFICES ASSUME pc[r] = "reversing",
                          events'[e].reverses = contributions[command[r].target].ledgerEvent
                   PROVE  FALSE
        OBVIOUS
      <4>1. command[r].target \in Stored
        BY DEF RequestInv, ReversalRead, ReversalReadBy
      <4>. QED
        BY <1>1, <4>1, ContributionsAssumption DEF Stored, TypeOK, ContributionRow
    <3>3. pc[r] = "posting" /\ events'[e] = Ledger!PostedRow(PostCommand(r))
      BY <3>1, <3>2
    <3>4. At(r) \in Item /\ AskedFor(command[r].tenant, At(r))
      BY <3>3, AskedNow
    <3>. QED
      BY <3>3, <3>4 DEF Ledger!PostedRow, PostCommand
  <2>. QED
    BY <2>1, <2>2
<1>2. ASSUME NEW c \in Stored'
      PROVE  \E item \in Item :
              /\ AskedFor(contributions'[c].tenant, item) /\ contributions'[c].key = item.key
              /\ contributions'[c].member = item.member
              /\ contributions'[c].savings = item.savings
              /\ contributions'[c].social = item.social
  <2>1. CASE c \in Stored
    BY <2>1, ContributionsKept DEF ContentInv
  <2>2. CASE c \notin Stored
    <3>1. PICK r \in Request : Insert(r) /\ contributions'[c] = NewContribution(r)
      BY <2>2, NewlyStored
    <3>2. At(r) \in Item /\ AskedFor(command[r].tenant, At(r))
      BY <3>1, AskedNow DEF Insert
    <3>. QED
      BY <3>1, <3>2 DEF NewContribution
  <2>. QED
    BY <2>1, <2>2
<1>. QED
  BY <1>1, <1>2 DEF ContentInv, AskedFor

\* A step adds at most one event and at most one contribution.
FiniteInv == IsFiniteSet(LP!Ids(events)) /\ IsFiniteSet(Stored)

LEMMA FiniteStep ==
    TypeOK /\ RequestInv /\ LedgerInv /\ FiniteInv /\ [Next]_vars => FiniteInv'
<1> SUFFICES ASSUME TypeOK, RequestInv, LedgerInv, FiniteInv, [Next]_vars PROVE FiniteInv'
  OBVIOUS
<1>1. PICK e : LP!Ids(events)' \subseteq LP!Ids(events) \cup {e}
  BY EventsWriter
<1>2. PICK c : Stored' \subseteq Stored \cup {c}
  BY NewlyStored
<1>3. IsFiniteSet(LP!Ids(events) \cup {e}) /\ IsFiniteSet(Stored \cup {c})
  BY FS_AddElement DEF FiniteInv
<1>. QED
  BY <1>1, <1>2, <1>3, FS_Subset DEF FiniteInv
-----------------------------------------------------------------------------
\* The lines of an account, and what they say.
LinesOf(lines, m, b) == {j \in DOMAIN lines : lines[j].member = m /\ lines[j].bucket = b}
Amounts(lines) == [i \in DOMAIN lines |-> lines[i].amount]

LEMMA LineSumIs ==
    ASSUME NEW lines \in Seq(ParsedLine), NEW m, NEW b
    PROVE  /\ IsFiniteSet(LinesOf(lines, m, b))
           /\ \A i \in LinesOf(lines, m, b) : Amounts(lines)[i] \in Int
           /\ Ledger!LineSum(lines, m, b) = SumFunctionOnSet(Amounts(lines), LinesOf(lines, m, b))
           /\ Ledger!LineSum(lines, m, b) \in Int
<1> DEFINE D == LinesOf(lines, m, b)
           rows == [i \in D |-> lines[i]]
           said == [i \in D |-> lines[i].amount]
<1>1. IsFiniteSet(D)
  <2>1. IsFiniteSet(1..Len(lines)) /\ D \subseteq 1..Len(lines)
    BY FS_Interval DEF LinesOf
  <2>2. QED
    BY <2>1, FS_Subset
<1>2. \A i \in D : Amounts(lines)[i] = said[i] /\ Amounts(lines)[i] \in Int
  <2>1. \A i \in DOMAIN lines : lines[i] \in ParsedLine
    OBVIOUS
  <2>2. \A i \in DOMAIN lines : lines[i].amount \in Int
    BY <2>1 DEF ParsedLine
  <2>. QED
    BY <2>2 DEF LinesOf, Amounts
<1>3. Ledger!LineSum(lines, m, b) = SumFunctionOnSet(said, D)
  <2>1. Ledger!LineSum(lines, m, b) = Ledger!SumFunction([i \in DOMAIN rows |-> rows[i].amount])
    BY DEF Ledger!LineSum, Ledger!SumOf, LinesOf
  <2>2. [i \in DOMAIN rows |-> rows[i].amount] = said
    OBVIOUS
  <2>3. Ledger!SumFunction(said) = SumFunctionOnSet(said, DOMAIN said)
    BY LedgerSum
  <2>4. DOMAIN said = D
    OBVIOUS
  <2>. HIDE DEF rows, said, D
  <2>5. QED
    BY <2>1, <2>2, <2>3, <2>4
<1>. HIDE DEF D, said
<1>4. SumFunctionOnSet(said, D) = SumFunctionOnSet(Amounts(lines), D)
  BY <1>1, <1>2, SumSame
<1>5. SumFunctionOnSet(Amounts(lines), D) \in Int
  BY <1>1, <1>2, SumType
<1>. QED
  BY <1>1, <1>2, <1>3, <1>4, <1>5 DEF D

\* What the lines of an item put on an account: its amount on its member's, and
\* as much less on the group's.
LEMMA ItemOnAccounts ==
    ASSUME NEW item \in Item, item.savings >= 0, item.social >= 0,
           NEW b \in {"SAVINGS", "SOCIAL_FUND"}
    PROVE  /\ AmountIn(item, b) \in Int
           /\ \A m \in Member :
                 Ledger!LineSum(ItemLines(item), m, b) =
                     IF m = item.member THEN AmountIn(item, b) ELSE 0
           /\ Ledger!LineSum(ItemLines(item), GroupAccount, b) = 0 - AmountIn(item, b)
<1> DEFINE L == ItemLines(item)
           n == AmountIn(item, b)
           at == IF b = "SOCIAL_FUND" /\ item.savings > 0 THEN 3 ELSE 1
<1>1. /\ L \in Seq(ParsedLine) /\ n \in Int /\ n >= 0 /\ item.member \in Member
      /\ GroupAccount \notin Member
  BY ItemLinesType, ContributionsAssumption DEF Item, AmountIn
<1>2. n > 0 => /\ at \in DOMAIN L /\ at + 1 \in DOMAIN L
               /\ L[at] = [member |-> item.member, bucket |-> b, amount |-> n]
               /\ L[at + 1] = [member |-> GroupAccount, bucket |-> b, amount |-> 0 - n]
  BY <1>1 DEF ItemLines, BucketLines, AmountIn
<1>3. \A i \in DOMAIN L : /\ L[i].member \in {item.member, GroupAccount}
                          /\ L[i].bucket = b => n > 0 /\ i \in {at, at + 1}
  BY <1>1 DEF ItemLines, BucketLines, AmountIn
<1>. HIDE DEF L, at, n
<1>4. \A m \in Member : LinesOf(L, m, b) = IF m = item.member /\ n > 0 THEN {at} ELSE {}
  BY <1>1, <1>2, <1>3 DEF LinesOf
<1>5. LinesOf(L, GroupAccount, b) = IF n > 0 THEN {at + 1} ELSE {}
  BY <1>1, <1>2, <1>3 DEF LinesOf
<1>6. ASSUME NEW m, NEW i, LinesOf(L, m, b) = {i}
      PROVE  Ledger!LineSum(L, m, b) = L[i].amount
  <2>1. IsFiniteSet({i}) /\ Amounts(L)[i] \in Int
    BY <1>1, <1>6, LineSumIs
  <2>2. SumFunctionOnSet(Amounts(L), {i}) = Amounts(L)[i]
    BY <2>1, SumPoint
  <2>3. Amounts(L)[i] = L[i].amount
    BY <1>6 DEF LinesOf, Amounts
  <2>. QED
    BY <1>1, <1>6, <2>2, <2>3, LineSumIs
<1>7. ASSUME NEW m, LinesOf(L, m, b) = {}
      PROVE  Ledger!LineSum(L, m, b) = 0
  BY <1>1, <1>7, LineSumIs, SumEmpty
<1>8. ASSUME NEW m \in Member
      PROVE  Ledger!LineSum(L, m, b) = IF m = item.member THEN n ELSE 0
  BY <1>1, <1>2, <1>4, <1>6, <1>7
<1>9. Ledger!LineSum(L, GroupAccount, b) = 0 - n
  BY <1>1, <1>2, <1>5, <1>6, <1>7
<1>. QED
  BY <1>1, <1>8, <1>9 DEF L, n

LEMMA NegatedOnAccounts ==
    ASSUME NEW lines \in Seq(ParsedLine), NEW m, NEW b
    PROVE  /\ Ledger!LineSum(lines, m, b) \in Int
           /\ Ledger!LineSum(Ledger!Negate(lines), m, b) = -Ledger!LineSum(lines, m, b)
<1> DEFINE N == Ledger!Negate(lines)
           D == LinesOf(lines, m, b)
<1>0. \A i \in DOMAIN lines : lines[i] \in ParsedLine
  OBVIOUS
<1>1. N \in Seq(ParsedLine) /\ DOMAIN N = DOMAIN lines
  <2>1. N = [i \in 1..Len(lines) |-> [lines[i] EXCEPT !.amount = 0 - lines[i].amount]]
    BY DEF Ledger!Negate
  <2>2. \A i \in 1..Len(lines) : [lines[i] EXCEPT !.amount = 0 - lines[i].amount] \in ParsedLine
    BY <1>0 DEF ParsedLine
  <2>. HIDE DEF N
  <2>3. QED
    BY <2>1, <2>2
<1>2. \A i \in DOMAIN lines : /\ N[i].member = lines[i].member /\ N[i].bucket = lines[i].bucket
                              /\ N[i].amount = -lines[i].amount
  BY <1>0 DEF Ledger!Negate, ParsedLine
<1>. HIDE DEF N
<1>3. LinesOf(N, m, b) = D
  BY <1>1, <1>2 DEF LinesOf
<1>4. \A i \in D : Amounts(N)[i] = -Amounts(lines)[i]
  BY <1>1, <1>2 DEF LinesOf, Amounts
<1>. HIDE DEF D
<1>5. IsFiniteSet(D) /\ \A i \in D : Amounts(lines)[i] \in Int
  BY LineSumIs DEF D
<1>6. SumFunctionOnSet(Amounts(N), D) = -SumFunctionOnSet(Amounts(lines), D)
  BY <1>4, <1>5, SumMinus
<1>7. Ledger!LineSum(N, m, b) = SumFunctionOnSet(Amounts(N), D)
  BY <1>1, <1>3, LineSumIs
<1>8. Ledger!LineSum(lines, m, b) = SumFunctionOnSet(Amounts(lines), D)
  BY LineSumIs DEF D
<1>. QED
  BY <1>6, <1>7, <1>8, LineSumIs DEF N

MoneyBucket == {"SAVINGS", "SOCIAL_FUND"}

\* What an event moves from the group's account to a member's.
Amount(e, b) == 0 - Ledger!LineSum(events[e].lines, GroupAccount, b)

\* The tables as the reports rely on them.
Tables ==
    /\ TypeOK /\ LedgerInv /\ ContentInv /\ FiniteInv /\ ReversalInv
    /\ OneContributionPerKey /\ LinkedToItsEvent /\ ReversedInLedger
    /\ ReversalReachesRow /\ PostedIsRecorded

LEMMA LinesTyped ==
    ASSUME Tables, NEW e \in LP!Ids(events)
    PROVE  events[e].lines \in Seq(ParsedLine)
<1>1. events[e] \in LP!EventRow(Call)
  BY DEF Tables, LedgerInv, LP!TypeOK, LP!Ids
<1>2. LP!Line = ParsedLine
  BY DEF LP!Line, ParsedLine
<1>. QED
  BY <1>1, <1>2 DEF LP!EventRow

LEMMA PostedOnAccounts ==
    ASSUME Tables, NEW e \in LP!Ids(events), events[e].reverses = NoEvent,
           NEW b \in MoneyBucket
    PROVE  \E item \in Item :
              /\ AskedFor(events[e].tenant, item) /\ events[e].key = LedgerKey(item.key)
              /\ Amount(e, b) = AmountIn(item, b) /\ Amount(e, b) \in Int
              /\ \A m \in Member : Ledger!LineSum(events[e].lines, m, b) =
                                      IF m = item.member THEN Amount(e, b) ELSE 0
              /\ Ledger!LineSum(events[e].lines, GroupAccount, b) = 0 - Amount(e, b)
<1>1. PICK item \in Item :
         /\ AskedFor(events[e].tenant, item) /\ events[e].key = LedgerKey(item.key)
         /\ events[e].lines = ItemLines(item)
  BY DEF Tables, ContentInv
<1>2. item.savings >= 0 /\ item.social >= 0
  BY <1>1 DEF AskedFor, ValidItem
<1>3. /\ AmountIn(item, b) \in Int
      /\ \A m \in Member :
            Ledger!LineSum(events[e].lines, m, b) =
                IF m = item.member THEN AmountIn(item, b) ELSE 0
      /\ Ledger!LineSum(events[e].lines, GroupAccount, b) = 0 - AmountIn(item, b)
  BY <1>1, <1>2, ItemOnAccounts DEF MoneyBucket
<1>4. Amount(e, b) = AmountIn(item, b)
  BY <1>3 DEF Amount
<1>. QED
  BY <1>1, <1>3, <1>4

LEMMA ReversedOnAccounts ==
    ASSUME Tables, NEW x \in LP!Ids(events), events[x].reverses # NoEvent, NEW b
    PROVE  LET of == events[x].reverses
           IN  /\ of \in LP!Ids(events) /\ events[of].reverses = NoEvent
               /\ events[of].tenant = events[x].tenant
               /\ \A m : /\ Ledger!LineSum(events[of].lines, m, b) \in Int
                         /\ Ledger!LineSum(events[x].lines, m, b) =
                               -Ledger!LineSum(events[of].lines, m, b)
<1>1. PICK c \in Stored : contributions[c].ledgerEvent = events[x].reverses
  BY DEF Tables, ReversalInv
<1>2. events[events[x].reverses].reverses = NoEvent
  BY <1>1 DEF Tables, LinkedToItsEvent
<1>3. /\ events[x].reverses \in LP!Ids(events)
      /\ events[events[x].reverses].tenant = events[x].tenant
      /\ events[x].lines = LP!Negate(events[events[x].reverses].lines)
  BY DEF Tables, LedgerInv, LP!ReversalNegates
<1>4. events[events[x].reverses].lines \in Seq(ParsedLine)
  BY <1>3, LinesTyped
<1>5. events[x].lines = Ledger!Negate(events[events[x].reverses].lines)
  BY <1>3 DEF LP!Negate, Ledger!Negate
<1>. QED
  BY <1>2, <1>3, <1>4, <1>5, NegatedOnAccounts

\* Every event moves one amount, between the group and one member.
LEMMA EventOnAccounts ==
    ASSUME Tables, NEW e \in LP!Ids(events), NEW b \in MoneyBucket
    PROVE  /\ Amount(e, b) \in Int
           /\ Ledger!LineSum(events[e].lines, GroupAccount, b) = -Amount(e, b)
           /\ \E u \in Member : \A m \in Member :
                 Ledger!LineSum(events[e].lines, m, b) = IF m = u THEN Amount(e, b) ELSE 0
           /\ events[e].reverses # NoEvent => Amount(e, b) = -Amount(events[e].reverses, b)
<1>1. CASE events[e].reverses = NoEvent
  BY <1>1, PostedOnAccounts DEF Item
<1>2. CASE events[e].reverses # NoEvent
  <2>1. PICK of : of = events[e].reverses
    OBVIOUS
  <2>2. /\ of \in LP!Ids(events) /\ events[of].reverses = NoEvent
        /\ \A m : Ledger!LineSum(events[e].lines, m, b) = -Ledger!LineSum(events[of].lines, m, b)
    BY <1>2, <2>1, ReversedOnAccounts
  <2>3. PICK u \in Member :
           /\ Amount(of, b) \in Int
           /\ \A m \in Member : Ledger!LineSum(events[of].lines, m, b) =
                                   IF m = u THEN Amount(of, b) ELSE 0
           /\ Ledger!LineSum(events[of].lines, GroupAccount, b) = 0 - Amount(of, b)
    BY <2>2, PostedOnAccounts DEF Item
  <2>4. Ledger!LineSum(events[e].lines, GroupAccount, b) = Amount(of, b)
    BY <2>2, <2>3
  <2>5. Amount(e, b) = -Amount(of, b)
    BY <2>3, <2>4 DEF Amount
  <2>6. \A m \in Member : Ledger!LineSum(events[e].lines, m, b) = IF m = u THEN Amount(e, b) ELSE 0
    BY <2>2, <2>3, <2>5
  <2>. QED
    BY <2>1, <2>3, <2>4, <2>5, <2>6
<1>. QED
  BY <1>1, <1>2

EventsAt(t) == {e \in LP!Ids(events) : events[e].tenant = t}

LEMMA BalanceIs ==
    ASSUME NEW t, NEW m, NEW b
    PROVE  Ledger!MemberBalance(events, t, m, b) =
              SumFunctionOnSet([e \in EventsAt(t) |-> Ledger!LineSum(events[e].lines, m, b)],
                               EventsAt(t))
<1> DEFINE f == [e \in EventsAt(t) |-> Ledger!LineSum(events[e].lines, m, b)]
<1>1. Ledger!MemberBalance(events, t, m, b) = Ledger!SumFunction(f)
  BY DEF Ledger!MemberBalance, EventsAt, Ledger!Ids, LP!Ids
<1>2. DOMAIN f = EventsAt(t)
  OBVIOUS
<1>. HIDE DEF f
<1>3. Ledger!SumFunction(f) = SumFunctionOnSet(f, DOMAIN f)
  BY LedgerSum
<1>. QED
  BY <1>1, <1>2, <1>3 DEF f

\* The members' balances add up to the amounts of the events, and the group's own
\* balance takes them back.
LEMMA TotalsOfEvents ==
    ASSUME Tables, IsFiniteSet(Member), NEW t, NEW b \in MoneyBucket
    PROVE  /\ IsFiniteSet(EventsAt(t))
           /\ LedgerTotal(t, b) = SumFunctionOnSet([e \in EventsAt(t) |-> Amount(e, b)], EventsAt(t))
           /\ GetGroupTotal(t, b) = 0
<1> DEFINE E == EventsAt(t)
           all == [e \in E |-> Amount(e, b)]
           f == [m \in Member |-> [e \in E |-> Ledger!LineSum(events[e].lines, m, b)]]
           turned == [e \in E |-> [m \in Member |-> Ledger!LineSum(events[e].lines, m, b)]]
           rows == [m \in Member |-> Ledger!MemberBalance(events, t, m, b)]
           group == [e \in E |-> Ledger!LineSum(events[e].lines, GroupAccount, b)]
           both == [m \in Member \cup {GroupAccount} |-> Ledger!MemberBalance(events, t, m, b)]
<1>1. IsFiniteSet(E)
  BY FS_Subset DEF Tables, FiniteInv, EventsAt
<1>2. \A e \in E : all[e] \in Int /\ group[e] = -all[e]
  BY EventOnAccounts DEF EventsAt
<1>3. \A e \in E : /\ \A m \in Member : turned[e][m] \in Int /\ f[m][e] = turned[e][m]
                   /\ all[e] = SumFunctionOnSet(turned[e], Member)
  <2>. SUFFICES ASSUME NEW e \in E
                PROVE  /\ \A m \in Member : turned[e][m] \in Int /\ f[m][e] = turned[e][m]
                       /\ all[e] = SumFunctionOnSet(turned[e], Member)
    OBVIOUS
  <2>1. PICK u \in Member : \A m \in Member :
           Ledger!LineSum(events[e].lines, m, b) = IF m = u THEN Amount(e, b) ELSE 0
    BY EventOnAccounts DEF EventsAt
  <2>2. Amount(e, b) \in Int
    BY EventOnAccounts DEF EventsAt
  <2>3. PICK g : g = turned[e]
    OBVIOUS
  <2>4. g[u] = all[e] /\ g[u] \in Int /\ \A m \in Member \ {u} : g[m] = 0
    BY <2>1, <2>2, <2>3
  <2>5. \A m \in Member : turned[e][m] \in Int /\ f[m][e] = turned[e][m]
    BY <2>1, <2>2
  <2>. HIDE DEF turned, all, f
  <2>6. SumFunctionOnSet(g, Member) = g[u]
    BY <2>4, SumPoint
  <2>. QED
    BY <2>3, <2>4, <2>5, <2>6
<1>4. \A m \in Member : rows[m] = SumFunctionOnSet(f[m], E)
  BY BalanceIs
<1>5. DOMAIN rows = Member /\ DOMAIN both = Member \cup {GroupAccount}
  OBVIOUS
<1>6. LedgerTotal(t, b) = SumFunctionOnSet(rows, Member)
  <2>1. LedgerTotal(t, b) = SumFunction(rows)
    BY DEF LedgerTotal
  <2>. HIDE DEF rows
  <2>. QED
    BY <1>5, <2>1, LedgerSum
<1>7. GetGroupTotal(t, b) = SumFunctionOnSet(both, Member \cup {GroupAccount})
  <2>1. GetGroupTotal(t, b) = SumFunction(both)
    BY DEF GetGroupTotal
  <2>. HIDE DEF both
  <2>. QED
    BY <1>5, <2>1, LedgerSum
<1>8. both[GroupAccount] = SumFunctionOnSet(group, E) /\ \A m \in Member : both[m] = rows[m]
  BY BalanceIs
<1>. HIDE DEF E, all, f, turned, rows, group, both
<1>9. LP!Table(Member, E, f, rows, turned, all)
  <2>1. /\ \A m \in Member : rows[m] = LP!SumFunctionOnSet(f[m], E)
        /\ \A e \in E : all[e] = LP!SumFunctionOnSet(turned[e], Member)
    BY <1>3, <1>4, SameSums
  <2>2. LP!IsFiniteSet(Member) /\ LP!IsFiniteSet(E)
    BY <1>1, SameSums
  <2>. QED
    BY <1>3, <2>1, <2>2 DEF LP!Table
<1>10. SumFunctionOnSet(rows, Member) = SumFunctionOnSet(all, E)
  BY <1>9, SumSwap
<1>11. SumFunctionOnSet(group, E) = -SumFunctionOnSet(all, E) /\ SumFunctionOnSet(all, E) \in Int
  BY <1>1, <1>2, SumMinus
<1>12. \A m \in Member : both[m] \in Int
  <2>. SUFFICES ASSUME NEW m \in Member PROVE both[m] \in Int
    OBVIOUS
  <2>1. \A e \in E : f[m][e] \in Int
    BY <1>3
  <2>. QED
    BY <1>1, <1>4, <1>8, <2>1, SumType
<1>13. SumFunctionOnSet(both, Member \cup {GroupAccount}) =
          both[GroupAccount] + SumFunctionOnSet(both, Member)
  <2>1. /\ IsFiniteSet(Member \cup {GroupAccount})
        /\ (Member \cup {GroupAccount}) \ {GroupAccount} = Member
    BY FS_AddElement, ContributionsAssumption
  <2>2. both[GroupAccount] \in Int
    BY <1>8, <1>11
  <2>3. \A m \in Member \cup {GroupAccount} : both[m] \in Int
    BY <1>12, <2>2
  <2>. QED
    BY <2>1, <2>3, SumRemove
<1>14. SumFunctionOnSet(both, Member) = SumFunctionOnSet(rows, Member)
  BY <1>8, SumSame
<1>. QED
  BY <1>1, <1>6, <1>7, <1>8, <1>10, <1>11, <1>13, <1>14 DEF E, all

PostedAt(t) == {e \in EventsAt(t) : events[e].reverses = NoEvent}
ContributionsAt(t) == {c \in Stored : contributions[c].tenant = t}

\* What is left of a posting once it was reversed that many times.
Net(e, b) == Amount(e, b) * (1 - Cardinality(Ledger!ReversalsOf(events, e)))

LEMMA TotalIsNet ==
    ASSUME Tables, NEW t, NEW b \in MoneyBucket
    PROVE  SumFunctionOnSet([e \in EventsAt(t) |-> Amount(e, b)], EventsAt(t)) =
              SumFunctionOnSet([e \in PostedAt(t) |-> Net(e, b)], PostedAt(t))
<1> DEFINE P == PostedAt(t)
           R == EventsAt(t) \ P
           a == [e \in EventsAt(t) |-> Amount(e, b)]
           target == [x \in R |-> events[x].reverses]
           of == [e \in P |-> Ledger!ReversalsOf(events, e)]
           net == [e \in P |-> Net(e, b)]
<1>1. IsFiniteSet(P) /\ IsFiniteSet(R) /\ P \cap R = {} /\ P \cup R = EventsAt(t)
  <2>1. IsFiniteSet(EventsAt(t))
    BY FS_Subset DEF Tables, FiniteInv, EventsAt
  <2>2. P \subseteq EventsAt(t) /\ R \subseteq EventsAt(t)
    BY DEF PostedAt
  <2>. QED
    BY <2>1, <2>2, FS_Subset
<1>2. \A e \in P \cup R : a[e] \in Int
  BY <1>1, EventOnAccounts DEF EventsAt
<1>3. \A x \in R : target[x] \in P /\ a[x] = -a[target[x]]
  <2>. SUFFICES ASSUME NEW x \in R PROVE target[x] \in P /\ a[x] = -a[target[x]]
    OBVIOUS
  <2>1. x \in LP!Ids(events) /\ events[x].tenant = t /\ events[x].reverses # NoEvent
    BY DEF PostedAt, EventsAt
  <2>2. target[x] \in P /\ target[x] \in EventsAt(t)
    BY <2>1, ReversedOnAccounts DEF PostedAt, EventsAt
  <2>3. Amount(x, b) = -Amount(target[x], b)
    BY <2>1, EventOnAccounts
  <2>. QED
    BY <2>2, <2>3
<1>4. \A e \in P : /\ of[e] \in SUBSET R /\ \A x \in R : x \in of[e] <=> target[x] = e
                   /\ net[e] = a[e] * (1 - Cardinality(of[e]))
  <2>. SUFFICES ASSUME NEW e \in P
                PROVE  /\ of[e] \in SUBSET R /\ \A x \in R : x \in of[e] <=> target[x] = e
                       /\ net[e] = a[e] * (1 - Cardinality(of[e]))
    OBVIOUS
  <2>1. e \in EventsAt(t) /\ e \in LP!Ids(events) /\ events[e].tenant = t
    BY DEF PostedAt, EventsAt
  <2>2. ASSUME NEW x \in of[e] PROVE x \in R
    <3>1. x \in LP!Ids(events) /\ events[x].reverses = e
      BY DEF Ledger!ReversalsOf, Ledger!Ids, LP!Ids
    <3>2. e # NoEvent
      BY <2>1, ContributionsAssumption DEF Tables, LedgerInv, LP!TypeOK, LP!Ids
    <3>3. events[x].tenant = t
      BY <2>1, <3>1, <3>2, ReversedOnAccounts
    <3>. QED
      BY <3>1, <3>2, <3>3 DEF PostedAt, EventsAt
  <2>3. \A x \in R : x \in of[e] <=> target[x] = e
    BY DEF Ledger!ReversalsOf, Ledger!Ids, LP!Ids, PostedAt, EventsAt
  <2>4. net[e] = a[e] * (1 - Cardinality(of[e]))
    BY <2>1 DEF Net
  <2>. QED
    BY <2>2, <2>3, <2>4
<1>. HIDE DEF P, R, a, target, of, net
<1>5. LP!Reversing(P, R, a, target, of, net)
  <2>1. LP!IsFiniteSet(P) /\ LP!IsFiniteSet(R)
    BY <1>1, SameSums
  <2>2. \A e \in P : net[e] = a[e] * (1 - LP!Cardinality(of[e]))
    BY <1>4, SameSums
  <2>. QED
    BY <1>1, <1>2, <1>3, <1>4, <2>1, <2>2 DEF LP!Reversing
<1>6. SumFunctionOnSet(a, P \cup R) = SumFunctionOnSet(net, P)
  BY <1>5, NetOfReversals
<1>. QED
  BY <1>1, <1>6 DEF P, a, net

\* Once all is settled, what is left of a contribution's posting is its amount, or
\* nothing if the contribution is marked as reversed.
LEMMA NetOfContribution ==
    ASSUME Tables, OneContentPerKey, Settled, NEW c \in Stored, NEW b \in MoneyBucket
    PROVE  LET e == contributions[c].ledgerEvent
           IN  /\ e \in PostedAt(contributions[c].tenant)
               /\ AmountIn(contributions[c], b) \in Int
               /\ Net(e, b) = IF contributions[c].status = "RECORDED"
                              THEN AmountIn(contributions[c], b) ELSE 0
<1>1. PICK e : e = contributions[c].ledgerEvent
  OBVIOUS
<1>2. /\ e \in LP!Ids(events) /\ events[e].tenant = contributions[c].tenant
      /\ events[e].key = LedgerKey(contributions[c].key) /\ events[e].reverses = NoEvent
  BY <1>1 DEF Tables, LinkedToItsEvent, Ledger!Ids, LP!Ids
<1>3. PICK item \in Item :
         /\ AskedFor(contributions[c].tenant, item) /\ events[e].key = LedgerKey(item.key)
         /\ Amount(e, b) = AmountIn(item, b) /\ Amount(e, b) \in Int
  BY <1>2, PostedOnAccounts
<1>4. PICK own \in Item :
         /\ AskedFor(contributions[c].tenant, own) /\ contributions[c].key = own.key
         /\ contributions[c].savings = own.savings /\ contributions[c].social = own.social
  BY DEF Tables, ContentInv
<1>5. item.key = own.key
  BY <1>2, <1>3, <1>4 DEF LedgerKey
<1>6. item.savings = own.savings /\ item.social = own.social
  BY <1>3, <1>4, <1>5 DEF AskedFor, OneContentPerKey
<1>7. Amount(e, b) = AmountIn(contributions[c], b)
  BY <1>3, <1>4, <1>6 DEF AmountIn
<1>8. CASE contributions[c].status = "RECORDED"
  <2>1. Ledger!ReversalsOf(events, e) = {}
    <3>. SUFFICES ASSUME Ledger!ReversalsOf(events, e) # {} PROVE FALSE
      OBVIOUS
    <3>1. PICK r \in Request : pc[r] \in {"reversing", "crashed"}
      BY <1>1, <1>8 DEF Tables, ReversalReachesRow
    <3>. QED
      BY <3>1 DEF Settled, Quiet, InFlight, Step, ReversalStep
  <2>2. Cardinality(Ledger!ReversalsOf(events, e)) = 0
    BY <2>1, FS_EmptySet
  <2>3. Net(e, b) = Amount(e, b)
    BY <1>3, <2>2 DEF Net
  <2>. QED
    BY <1>1, <1>2, <1>3, <1>7, <1>8, <2>3 DEF PostedAt, EventsAt
<1>9. CASE contributions[c].status # "RECORDED"
  <2>1. contributions[c].status = "REVERSED"
    BY <1>9 DEF Tables, TypeOK, Stored, ContributionRow
  <2>2. Ledger!ReversalsOf(events, e) # {}
    BY <1>1, <2>1 DEF Tables, ReversedInLedger
  <2>3. PICK S : S = Ledger!ReversalsOf(events, e)
    OBVIOUS
  <2>4. IsFiniteSet(S)
    BY <2>3, FS_Subset DEF Tables, FiniteInv, Ledger!ReversalsOf, Ledger!Ids, LP!Ids
  <2>5. Cardinality(S) \in Nat /\ Cardinality(S) <= 1 /\ Cardinality(S) # 0
    BY <1>2, <2>2, <2>3, <2>4, FS_CardinalityType, FS_EmptySet DEF Settled, Ledger!Ids, LP!Ids
  <2>6. Cardinality(S) = 1
    BY <2>5
  <2>7. Net(e, b) = 0
    BY <1>3, <2>3, <2>6 DEF Net
  <2>. QED
    BY <1>1, <1>2, <1>3, <1>7, <1>9, <2>7 DEF PostedAt, EventsAt
<1>. QED
  BY <1>8, <1>9

\* And every posting is a contribution's.
LEMMA PostingOfContribution ==
    ASSUME Tables, Settled, NEW t, NEW e \in PostedAt(t)
    PROVE  \E c \in ContributionsAt(t) : contributions[c].ledgerEvent = e
<1>1. e \in LP!Ids(events) /\ events[e].reverses = NoEvent /\ events[e].tenant = t
  BY DEF PostedAt, EventsAt
<1>2. \A r \in Request : pc[r] \notin {"posting", "crashed"}
  BY DEF Settled, Quiet, InFlight, Step, RecordStep
<1>3. PICK c \in Stored : LedgerKey(contributions[c].key) = events[e].key
  BY <1>1, <1>2 DEF Tables, PostedIsRecorded, Ledger!Ids, LP!Ids
<1>4. PICK d : d = contributions[c].ledgerEvent
  OBVIOUS
<1>5. /\ d \in LP!Ids(events) /\ events[d].tenant = contributions[c].tenant
      /\ events[d].key = events[e].key
  BY <1>3, <1>4 DEF Tables, LinkedToItsEvent, Ledger!Ids, LP!Ids
<1>6. events[e].key # NoKey
  <2>1. contributions[c].key \in ContributionKey
    BY DEF Tables, TypeOK, Stored, ContributionRow
  <2>. QED
    BY <1>3, <2>1, ContributionsAssumption
<1>7. d = e
  BY <1>1, <1>5, <1>6 DEF Tables, LedgerInv, LP!OneEventPerKey
<1>. QED
  BY <1>1, <1>4, <1>5, <1>7 DEF ContributionsAt

RecordedAmount(c, b) == IF contributions[c].status = "RECORDED" THEN AmountIn(contributions[c], b) ELSE 0

LEMMA LedgerTotalOfRows ==
    ASSUME Tables, OneContentPerKey, Settled, IsFiniteSet(Member), NEW t, NEW b \in MoneyBucket
    PROVE  /\ IsFiniteSet(ContributionsAt(t))
           /\ LedgerTotal(t, b) =
                 SumFunctionOnSet([c \in ContributionsAt(t) |-> RecordedAmount(c, b)],
                                  ContributionsAt(t))
<1> DEFINE C == ContributionsAt(t)
           P == PostedAt(t)
           h == [c \in C |-> contributions[c].ledgerEvent]
           f == [c \in C |-> RecordedAmount(c, b)]
           g == [e \in P |-> Net(e, b)]
<1>1. IsFiniteSet(C)
  BY FS_Subset DEF Tables, FiniteInv, ContributionsAt
<1>2. IsFiniteSet(P)
  <2>1. P \subseteq LP!Ids(events)
    BY DEF PostedAt, EventsAt
  <2>. QED
    BY <2>1, FS_Subset DEF Tables, FiniteInv
<1>3. \A c \in C : h[c] \in P /\ f[c] \in Int /\ g[h[c]] = f[c]
  <2>. SUFFICES ASSUME NEW c \in C PROVE h[c] \in P /\ f[c] \in Int /\ g[h[c]] = f[c]
    OBVIOUS
  <2>1. c \in Stored /\ contributions[c].tenant = t
    BY DEF ContributionsAt
  <2>2. /\ h[c] \in P /\ AmountIn(contributions[c], b) \in Int
        /\ Net(h[c], b) = RecordedAmount(c, b)
    BY <2>1, NetOfContribution DEF RecordedAmount
  <2>. QED
    BY <2>2 DEF RecordedAmount
<1>4. \A c, d \in C : h[c] = h[d] => c = d
  BY OneContributionPerEvent DEF Tables, ContributionsAt
<1>5. \A e \in P : \E c \in C : h[c] = e
  BY PostingOfContribution
<1>. HIDE DEF C, P, h, f, g
<1>6. LP!Renaming(C, P, h, f, g)
  <2>1. LP!IsFiniteSet(C) /\ LP!IsFiniteSet(P)
    BY <1>1, <1>2, SameSums
  <2>. QED
    BY <1>3, <1>4, <1>5, <2>1 DEF LP!Renaming
<1>7. SumFunctionOnSet(f, C) = SumFunctionOnSet(g, P)
  BY <1>6, SumRenamed
<1>8. LedgerTotal(t, b) = SumFunctionOnSet(g, P)
  BY TotalsOfEvents, TotalIsNet DEF g, P
<1>. QED
  BY <1>1, <1>7, <1>8 DEF C, f

\* The recorded contributions of a group made in one mode: what each report lists.
RecordedIn(t, mode) ==
    {c \in ContributionsAt(t) : contributions[c].status = "RECORDED" /\ Mode(c) = mode}

LEMMA ReportRows ==
    ASSUME TypeOK, NEW t, NEW mode \in TransactionMode
    PROVE  BuildWhere(t, [NoFilter EXCEPT !.mode = {mode}, !.status = {"RECORDED"}]) =
              RecordedIn(t, mode)
<1> DEFINE filters == [NoFilter EXCEPT !.mode = {mode}, !.status = {"RECORDED"}]
<1>1. /\ filters.member = Member /\ filters.meeting = Meeting \cup {NoMeeting}
      /\ filters.mode = {mode} /\ filters.status = {"RECORDED"}
      /\ filters.days = Days /\ filters.bucket = {}
  BY DEF NoFilter
<1>2. ASSUME NEW c \in Stored
      PROVE  /\ contributions[c].member \in Member /\ MeetingAt(c) \in Meeting \cup {NoMeeting}
             /\ RecordedAt(c) \in Days
  <2>1. contributions[c].member \in Member /\ contributions[c].key \in ContributionKey
    BY DEF TypeOK, Stored, ContributionRow
  <2>2. RecordedAt(c) \in Range(DayOf[contributions[c].member])
    BY <2>1, ContributionReadsAssumption DEF RecordedAt, Range
  <2>. QED
    BY <2>1, <2>2, ContributionReadsAssumption DEF MeetingAt, Days
<1>. HIDE DEF filters
<1>3. BuildWhere(t, filters) = RecordedIn(t, mode)
  BY <1>1, <1>2 DEF BuildWhere, RecordedIn, ContributionsAt
<1>. QED
  BY <1>3 DEF filters

LEMMA TotalIs ==
    ASSUME NEW rows, NEW b
    PROVE  Total(rows, b) = SumFunctionOnSet([c \in rows |-> AmountIn(contributions[c], b)], rows)
<1> DEFINE f == [c \in rows |-> AmountIn(contributions[c], b)]
<1>1. Total(rows, b) = SumFunction(f) /\ DOMAIN f = rows
  BY DEF Total
<1>. HIDE DEF f
<1>2. SumFunction(f) = SumFunctionOnSet(f, DOMAIN f)
  BY LedgerSum
<1>. QED
  BY <1>1, <1>2 DEF f

LEMMA AmountsTyped ==
    ASSUME TypeOK, NEW c \in Stored, NEW b
    PROVE  AmountIn(contributions[c], b) \in Int
BY DEF TypeOK, Stored, ContributionRow, AmountIn

\* The cash report groups its rows and loses none.
LEMMA CashTotals ==
    ASSUME TypeOK, NEW t, NEW b, NEW groupBy, IsFiniteSet(ContributionsAt(t))
    PROVE  SumFunction(GetCashTotalsByMeetingOrDate(t, groupBy, NoFilter, b)) =
              Total(RecordedIn(t, "CASH"), b)
<1> DEFINE cash == RecordedIn(t, "CASH")
           k == [c \in cash |-> GroupKey(groupBy, c)]
           keys == {k[c] : c \in cash}
           g == [c \in cash |-> AmountIn(contributions[c], b)]
           of(key) == {c \in cash : k[c] = key}
           sums == [key \in keys |-> Total(of(key), b)]
<1>1. IsFiniteSet(cash) /\ cash \subseteq Stored
  BY FS_Subset DEF RecordedIn, ContributionsAt
<1>2. \A c \in cash : g[c] \in Int
  BY <1>1, AmountsTyped
<1>3. \A key \in keys : sums[key] = SumFunctionOnSet(g, of(key))
  <2>. SUFFICES ASSUME NEW key \in keys PROVE sums[key] = SumFunctionOnSet(g, of(key))
    OBVIOUS
  <2> DEFINE one == [c \in of(key) |-> AmountIn(contributions[c], b)]
  <2>1. sums[key] = SumFunctionOnSet(one, of(key))
    BY TotalIs
  <2>2. \A c \in of(key) : one[c] = g[c]
    OBVIOUS
  <2>3. IsFiniteSet(of(key))
    <3>1. of(key) \subseteq cash
      OBVIOUS
    <3>. HIDE DEF of
    <3>. QED
      BY <1>1, <3>1, FS_Subset
  <2>. HIDE DEF one, sums, of, g
  <2>4. SumFunctionOnSet(one, of(key)) = SumFunctionOnSet(g, of(key))
    BY <2>2, <2>3, SumSame
  <2>. QED
    BY <2>1, <2>4
<1>4. GetCashTotalsByMeetingOrDate(t, groupBy, NoFilter, b) = sums
  <2>1. BuildWhere(t, [NoFilter EXCEPT !.mode = {"CASH"}, !.status = {"RECORDED"}]) = cash
    BY ReportRows DEF TransactionMode
  <2>2. keys = {GroupKey(groupBy, c) : c \in cash}
    OBVIOUS
  <2>3. \A key : of(key) = {c \in cash : GroupKey(groupBy, c) = key}
    OBVIOUS
  <2>. HIDE DEF cash, keys, of
  <2>. QED
    BY <2>1, <2>2, <2>3 DEF GetCashTotalsByMeetingOrDate
<1>5. DOMAIN sums = keys
  OBVIOUS
<1>6. LP!Grouping(cash, keys, k, g, sums)
  <2>1. LP!IsFiniteSet(cash)
    BY <1>1, SameSums
  <2>2. \A key \in keys : sums[key] = LP!SumFunctionOnSet(g, {c \in cash : k[c] = key})
    BY <1>3, SameSums
  <2>3. keys = {k[c] : c \in cash}
    OBVIOUS
  <2>. HIDE DEF cash, keys, k, g, sums
  <2>. QED
    BY <1>2, <2>1, <2>2, <2>3 DEF LP!Grouping
<1>. HIDE DEF keys, k, sums
<1>7. SumFunctionOnSet(sums, keys) = SumFunctionOnSet(g, cash)
  BY <1>6, SumGrouped
<1>8. SumFunction(sums) = SumFunctionOnSet(sums, keys)
  BY <1>5, LedgerSum
<1>. QED
  BY <1>4, <1>7, <1>8, TotalIs

\* Both reports together: the amounts of the recorded contributions.
LEMMA ReportsTotal ==
    ASSUME TypeOK, NEW t, NEW b, IsFiniteSet(ContributionsAt(t))
    PROVE  Total(RecordedIn(t, "CASH"), b) + Total(RecordedIn(t, "BANK_TRANSFER"), b) =
              SumFunctionOnSet([c \in ContributionsAt(t) |-> RecordedAmount(c, b)],
                               ContributionsAt(t))
<1> DEFINE cash == RecordedIn(t, "CASH")
           bank == RecordedIn(t, "BANK_TRANSFER")
           C == ContributionsAt(t)
           f == [c \in C |-> RecordedAmount(c, b)]
           inCash == [c \in cash |-> AmountIn(contributions[c], b)]
           inBank == [c \in bank |-> AmountIn(contributions[c], b)]
<1>1. cash \subseteq C /\ bank \subseteq C /\ cash \cap bank = {} /\ C \subseteq Stored
  BY DEF RecordedIn, ContributionsAt
<1>2. IsFiniteSet(cash) /\ IsFiniteSet(bank)
  BY <1>1, FS_Subset
<1>3. \A c \in C : f[c] \in Int
  BY <1>1, AmountsTyped DEF RecordedAmount
<1>4. \A c \in C \ (cash \cup bank) : f[c] = 0
  <2>. SUFFICES ASSUME NEW c \in C, c \notin cash \cup bank PROVE f[c] = 0
    OBVIOUS
  <2>1. Mode(c) \in TransactionMode
    BY <1>1, ContributionReadsAssumption DEF Mode, TypeOK, Stored, ContributionRow
  <2>2. contributions[c].status # "RECORDED"
    BY <2>1 DEF RecordedIn, TransactionMode
  <2>. QED
    BY <2>2 DEF RecordedAmount
<1>5. /\ \A c \in cash : inCash[c] = f[c]
      /\ \A c \in bank : inBank[c] = f[c]
  BY <1>1 DEF RecordedIn, RecordedAmount
<1>6. Total(cash, b) = SumFunctionOnSet(inCash, cash) /\ Total(bank, b) = SumFunctionOnSet(inBank, bank)
  BY TotalIs
<1>. HIDE DEF cash, bank, C, f, inCash, inBank
<1>7. IsFiniteSet(C)
  BY DEF C
<1>8. SumFunctionOnSet(f, C) = SumFunctionOnSet(f, cash \cup bank)
  BY <1>1, <1>3, <1>4, <1>7, SumPart
<1>9. SumFunctionOnSet(f, cash \cup bank) = SumFunctionOnSet(f, cash) + SumFunctionOnSet(f, bank)
  BY <1>1, <1>2, <1>3, SumUnion
<1>10. /\ SumFunctionOnSet(inCash, cash) = SumFunctionOnSet(f, cash)
       /\ SumFunctionOnSet(inBank, bank) = SumFunctionOnSet(f, bank)
  BY <1>2, <1>5, SumSame
<1>. QED
  BY <1>6, <1>8, <1>9, <1>10 DEF cash, bank, C, f

\* When nothing is at work, nothing was lost and no event was reversed twice, the
\* treasurer's two reports add up to the ledger's balances, and the group's own lines
\* take the members' back to zero (contribution-read.service.ts and
\* ledger-balance.service.ts); where the total is declared and a client gives a key
\* to one contribution.
THEOREM TreasurersReportsMatch ==
    ASSUME TotalDeclared, OneContentPerKey, IsFiniteSet(Member)
    PROVE  Spec => []ReportsMatchLedger
<1>1. Init => ContentInv /\ FiniteInv /\ ReversalInv
  <2>1. Init => LP!Ids(events) = {} /\ Stored = {}
    BY DEF Init, Ledger!Init, LP!Ids, Stored
  <2>. QED
    BY <2>1, FS_EmptySet DEF ContentInv, FiniteInv, ReversalInv
<1>2. Tables => ReportsMatchLedger
  <2>. SUFFICES ASSUME Tables, Settled, NEW t \in Tenant, NEW b \in MoneyBucket,
                       NEW groupBy \in {"meeting", "date"}
                PROVE  /\ SumFunction(GetCashTotalsByMeetingOrDate(t, groupBy, NoFilter, b))
                            + Total(GetUnreconciledBankTransfers(t, NoFilter), b) = LedgerTotal(t, b)
                       /\ GetGroupTotal(t, b) = 0
    BY DEF ReportsMatchLedger, MoneyBucket
  <2>1. TypeOK
    BY DEF Tables
  <2>2. IsFiniteSet(ContributionsAt(t))
    BY LedgerTotalOfRows
  <2>3. GetUnreconciledBankTransfers(t, NoFilter) = RecordedIn(t, "BANK_TRANSFER")
    BY <2>1, ReportRows DEF GetUnreconciledBankTransfers, TransactionMode
  <2>4. SumFunction(GetCashTotalsByMeetingOrDate(t, groupBy, NoFilter, b)) =
           Total(RecordedIn(t, "CASH"), b)
    BY <2>1, <2>2, CashTotals
  <2>5. Total(RecordedIn(t, "CASH"), b) + Total(RecordedIn(t, "BANK_TRANSFER"), b) =
           LedgerTotal(t, b)
    BY <2>1, <2>2, ReportsTotal, LedgerTotalOfRows
  <2>6. GetGroupTotal(t, b) = 0
    BY TotalsOfEvents
  <2>. QED
    BY <2>3, <2>4, <2>5, <2>6
<1>3. TypeOK /\ RequestInv /\ LedgerInv /\ ContentInv /\ FiniteInv /\ [Next]_vars
      => ContentInv' /\ FiniteInv'
  BY ContentStep, FiniteStep
<1>4. /\ TypeOK /\ LedgerInv /\ ContentInv /\ FiniteInv /\ ReversalInv
      /\ OneContributionPerKey /\ LinkedToItsEvent /\ ReversedInLedger
      /\ ReversalReachesRow /\ PostedIsRecorded
      => Tables
  BY DEF Tables
<1>. QED
  BY <1>1, <1>2, <1>3, <1>4, ReversalStepInv, RequestsCorrect, AtMostOneContributionPerKey,
     EveryContributionIsPosted, ReversedOnlyWithLedger, ReversalsReachTheirRows,
     PostedContributionsAreRecorded, PTL DEF Spec
=============================================================================
