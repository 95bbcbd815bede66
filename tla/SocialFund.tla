----------------------------- MODULE SocialFund -----------------------------
(***************************************************************************)
(* SocialFundService (backend/src/social-fund): buckets and append-only    *)
(* entries, composed with the groups and members that its checks read.     *)
(* An entry's id is the request that posted it.  Amounts are in tenths of  *)
(* the last place that Decimal(14, 2) keeps: what is stored is exact.  A   *)
(* balance is not: it is added up in JavaScript numbers, rounded to        *)
(* Precision binary digits.  Evidence columns are left out: the service    *)
(* stores them as given.                                                   *)
(***************************************************************************)
EXTENDS Groups, FiniteSetsExt

CONSTANTS
    Bucket, FirstBuckets,   \* FirstBuckets[b]: the group of b, or NoRow
    Key, NoKey,
    EmptyKey,               \* the key "": not looked up, but in the index
    Amount,
    Precision,              \* binary digits of a JavaScript number: 53
    NoEntry

CreateBucketDto == [op : {"createBucket"}, group : Group, by : Member]
PostSocialFundEntryDto ==
    [op : {"post"}, bucket : Bucket, amount : Amount, type : {"CONTRIBUTION", "DISBURSEMENT"},
     key : Key \cup {NoKey, EmptyKey}, by : Member]
ReversalSocialFundEntryDto ==
    [op : {"reverse"}, group : Group, bucket : Bucket, entry : Request, by : Member]
ReversalTemplate == [op : {"reverse"}, group : Group, bucket : Bucket, by : Member]
FundCommand == CreateBucketDto \cup PostSocialFundEntryDto \cup ReversalSocialFundEntryDto

BucketTable == [Bucket -> Group \cup {NoRow}]

EntryRow ==
    [bucket : Bucket, amount : Int, type : {"CONTRIBUTION", "DISBURSEMENT", "REVERSAL"},
     key : Key \cup {NoKey, EmptyKey}]

\* Rows of AuditEvent, and of AuditLog where TenantGroupService wrote them.
AuditEventRow ==
    [request : Request, entity : Group \cup Member \cup Bucket \cup Request \cup {NoId},
     action : {"CREATED", "UPDATED", "LEFT", "REVERSED"}, status : Status \cup {NoChange}]

ASSUME SocialFundAssumption ==
    /\ FirstBuckets \in BucketTable
    /\ Amount \subseteq Int
    /\ Precision \in Nat \ {0}
    /\ NoKey \notin Key /\ EmptyKey \notin Key \cup {NoKey}
    /\ NoEntry \notin EntryRow /\ NoRow \notin Group \cup Status /\ NoId \notin Bucket
    /\ Instruction \subseteq GroupCommand \cup FundCommand \cup ReversalTemplate

VARIABLES buckets, entries

fundVars == <<buckets, entries>>
vars == <<groupVars, fundVars, trail, pc, command, seen>>

\* The column keeps two decimals; PostgreSQL rounds half away from zero.
Stored(amount) ==
    LET rounded(a) == ((a + 5) \div 10) * 10
    IN  IF amount < 0 THEN -rounded(-amount) ELSE rounded(amount)

Posted == {e \in Request : entries[e] # NoEntry}

Seen == Group \cup Member \cup Bucket \cup Request \cup Status \cup {NoChange, NoId}

TypeOK ==
    /\ groups \in GroupTable /\ members \in MemberTable /\ buckets \in BucketTable
    /\ disturbed \subseteq Group
    /\ entries \in [Request -> EntryRow \cup {NoEntry}]
    /\ trail \in Seq(AuditEventRow)
    /\ pc \in [Request -> {"idle"} \cup Step \cup Finished]
    /\ command \in [Request -> GroupCommand \cup FundCommand \cup {NoCommand}]
    /\ seen \in [Request -> Seen]

Init ==
    /\ GroupsInit
    /\ buckets = FirstBuckets
    /\ entries = [r \in Request |-> NoEntry]
    /\ trail = <<>>
    /\ pc = [r \in Request |-> "idle"]
    /\ command = [r \in Request |-> NoCommand]
    /\ seen = [r \in Request |-> NoId]
-----------------------------------------------------------------------------
\* A reversal names an entry that is there, or one that is not.
ArriveAtFund(r) ==
    /\ pc[r] = "idle"
    /\ Cardinality(InFlight) < MaxInFlight
    /\ \/ \E c \in Instruction \cap (CreateBucketDto \cup PostSocialFundEntryDto) :
             /\ command' = [command EXCEPT ![r] = c]
             /\ Goto(r, IF c.op = "post" THEN "reading" ELSE "guard")
       \/ \E c \in Instruction \cap ReversalTemplate, e \in Posted \cup {r} :
             /\ command' = [command EXCEPT ![r] =
                    [op |-> "reverse", group |-> c.group, bucket |-> c.bucket,
                     entry |-> e, by |-> c.by]]
             /\ Goto(r, "guard")
    /\ UNCHANGED <<groupVars, fundVars, trail, seen>>

\* MemberGuard with RequireAdmin.
GuardAdmin(r) ==
    /\ pc[r] = "guard" /\ command[r].op \in {"createBucket", "reverse"}
    /\ Goto(r, IF ~Entitled(command[r].by, command[r].group, TRUE) THEN "refused"
               ELSE IF command[r].op = "reverse" THEN "reading" ELSE "checking")
    /\ UNCHANGED <<groupVars, fundVars, trail, command, seen>>

ReadBucket(r) ==
    /\ pc[r] = "reading" /\ command[r].op = "post"
    /\ Goto(r, IF buckets[command[r].bucket] = NoRow THEN "refused" ELSE "checking")
    /\ UNCHANGED <<groupVars, fundVars, trail, command, seen>>

\* The entry with its bucket.
ReadEntry(r) ==
    LET c == command[r] IN
    /\ pc[r] = "reading" /\ c.op = "reverse"
    /\ Goto(r, IF /\ c.entry \in Posted
                  /\ entries[c.entry].bucket = c.bucket
                  /\ buckets[c.bucket] = c.group
               THEN "checking" ELSE "refused")
    /\ UNCHANGED <<groupVars, fundVars, trail, command, seen>>

SignFits(c) == IF c.type = "CONTRIBUTION" THEN c.amount > 0 ELSE c.amount < 0

CheckPost(r) ==
    LET c == command[r] IN
    /\ pc[r] = "checking" /\ c.op = "post"
    /\ Goto(r, IF ~Entitled(c.by, buckets[c.bucket], FALSE) \/ ~SignFits(c) THEN "refused"
               ELSE IF c.key \in Key THEN "lookup" ELSE "emitting")
    /\ UNCHANGED <<groupVars, fundVars, trail, command, seen>>

\* The guard's check once more, then the type of the entry.
CheckReversal(r) ==
    LET c == command[r] IN
    /\ pc[r] = "checking" /\ c.op = "reverse"
    /\ Goto(r, IF /\ Entitled(c.by, c.group, TRUE)
                  /\ entries[c.entry].type \in {"CONTRIBUTION", "DISBURSEMENT"}
               THEN "emitting" ELSE "refused")
    /\ UNCHANGED <<groupVars, fundVars, trail, command, seen>>

\* The guard's check once more, then the group.
CheckBucket(r) ==
    LET c == command[r] IN
    /\ pc[r] \in {"checking", "reading"} /\ c.op = "createBucket"
    /\ \/ /\ pc[r] = "checking"
          /\ Goto(r, IF Entitled(c.by, c.group, TRUE) THEN "reading" ELSE "refused")
       \/ /\ pc[r] = "reading"
          /\ Goto(r, IF groups[c.group] = NoRow THEN "refused" ELSE "writing")
    /\ UNCHANGED <<groupVars, fundVars, trail, command, seen>>

Under(b, key) == {e \in Posted : entries[e].bucket = b /\ entries[e].key = key}

\* The entry under the key: its id is the answer if the amounts agree, the
\* stored one rounded and the given one not.  Of 14 digits the number keeps all,
\* so two stored amounts are equal as decimals if they are as numbers.
LookUp(r) ==
    LET c == command[r] IN
    /\ pc[r] = "lookup"
    /\ IF Under(c.bucket, c.key) = {} THEN Goto(r, "emitting") /\ UNCHANGED seen
       ELSE \E e \in Under(c.bucket, c.key) :
               IF entries[e].amount = c.amount
               THEN Goto(r, "done") /\ seen' = [seen EXCEPT ![r] = e]
               ELSE Leave(r, "mismatch")
    /\ UNCHANGED <<groupVars, fundVars, trail, command>>

\* The audit row comes first, without an entity.
EmitPosted(r) ==
    /\ pc[r] = "emitting" /\ command[r].op = "post"
    /\ Emit(r, NoId, "CREATED", NoChange)
    /\ Goto(r, "writing")
    /\ UNCHANGED <<groupVars, fundVars, command, seen>>

\* It names the entry that is to be reversed.
EmitReversed(r) ==
    /\ pc[r] = "emitting" /\ command[r].op = "reverse"
    /\ Emit(r, command[r].entry, "REVERSED", NoChange)
    /\ Goto(r, "writing")
    /\ UNCHANGED <<groupVars, fundVars, command, seen>>

CreateBucket(r) ==
    /\ pc[r] = "writing" /\ command[r].op = "createBucket"
    /\ \E b \in {b \in Bucket : buckets[b] = NoRow} :
          /\ buckets' = [buckets EXCEPT ![b] = command[r].group]
          /\ seen' = [seen EXCEPT ![r] = b]
    /\ Goto(r, "audit")
    /\ UNCHANGED <<groupVars, entries, trail, command>>

\* Defect: no unique index.
IndexIgnored(b, key) == TRUE

\* Unique over bucket and key; null conflicts with nothing, "" does.
IndexFree(b, key) == key = NoKey \/ Under(b, key) = {}

CreateEntry(r) ==
    LET c == command[r] IN
    /\ pc[r] = "writing" /\ c.op = "post"
    /\ IF ~IndexFree(c.bucket, c.key) THEN Leave(r, "refused") /\ UNCHANGED entries
       ELSE /\ entries' = [entries EXCEPT ![r] =
                   [bucket |-> c.bucket, amount |-> Stored(c.amount), type |-> c.type,
                    key |-> c.key]]
            /\ Goto(r, "naming")
            /\ UNCHANGED seen
    /\ UNCHANGED <<groupVars, buckets, trail, command>>

\* Defect: a reversal books the entry again.
CreateReversalSameSign(r) ==
    LET c == command[r] IN
    /\ pc[r] = "writing" /\ c.op = "reverse"
    /\ entries' = [entries EXCEPT ![r] =
           [bucket |-> c.bucket, amount |-> entries[c.entry].amount, type |-> "REVERSAL",
            key |-> NoKey]]
    /\ Leave(r, "done")
    /\ UNCHANGED <<groupVars, buckets, trail, command>>

\* Nothing asks whether the entry is reversed already.  Its amount is negated as a
\* number, which loses nothing of 14 digits.
CreateReversal(r) ==
    LET c == command[r] IN
    /\ pc[r] = "writing" /\ c.op = "reverse"
    /\ entries' = [entries EXCEPT ![r] =
           [bucket |-> c.bucket, amount |-> -entries[c.entry].amount, type |-> "REVERSAL",
            key |-> NoKey]]
    /\ Leave(r, "done")
    /\ UNCHANGED <<groupVars, buckets, trail, command>>

\* Defect: the update is forgotten.
NameEntryNever(r) ==
    /\ pc[r] = "naming"
    /\ Goto(r, "done") /\ seen' = [seen EXCEPT ![r] = r]
    /\ UNCHANGED <<groupVars, fundVars, trail, command>>

\* auditEvent.update: the row learns which entry it is about.
NameEntry(r) ==
    /\ pc[r] = "naming"
    /\ trail' = [i \in DOMAIN trail |->
           IF trail[i].request = r THEN [trail[i] EXCEPT !.entity = r] ELSE trail[i]]
    /\ Goto(r, "done") /\ seen' = [seen EXCEPT ![r] = r]
    /\ UNCHANGED <<groupVars, fundVars, command>>

AuditBucket(r) ==
    /\ pc[r] = "audit" /\ command[r].op = "createBucket"
    /\ Emit(r, seen[r], "CREATED", NoChange)
    /\ Leave(r, "done")
    /\ UNCHANGED <<groupVars, fundVars, command>>

FundStep(r) ==
    \/ ArriveAtFund(r) \/ GuardAdmin(r) \/ ReadBucket(r) \/ ReadEntry(r)
    \/ CheckPost(r) \/ CheckReversal(r) \/ CheckBucket(r) \/ LookUp(r)
    \/ EmitPosted(r) \/ EmitReversed(r) \/ CreateBucket(r) \/ CreateEntry(r)
    \/ CreateReversal(r) \/ NameEntry(r) \/ AuditBucket(r)

Next == \E r \in Request : (GroupStep(r) /\ UNCHANGED fundVars) \/ FundStep(r)

Spec == Init /\ [][Next]_vars
-----------------------------------------------------------------------------
\* The even one of the nearest integers to n / d.
Nearest(n, d) ==
    LET q == n \div d
        rest == 2 * (n % d)
    IN  IF rest > d \/ (rest = d /\ q % 2 = 1) THEN q + 1 ELSE q

\* Numbers in units of 2^-Scale, the last digit of the number nearest to 0.01.
Scale == Precision + 6

\* The number nearest to n / d units, which has Precision binary digits.
RoundToNumber(n, d) ==
    LET size == IF n < 0 THEN -n ELSE n
        step[k \in Nat] == IF size < 2^(Precision + k) * d THEN 2^k ELSE step[k + 1]
        ulp == step[0]
    IN  Nearest(n, d * ulp) * ulp

\* Decimal.toNumber of a stored amount, and + of two numbers.
ToNumber(amount) == RoundToNumber((amount \div 10) * 2^Scale, 100)
Plus(x, y) == RoundToNumber(x + y, 1)

\* What listBuckets may show: it adds the entries up from 0, as numbers, in the
\* order in which the query returned them, for which it asks none.
Balances(b) ==
    {FoldLeft(LAMBDA sum, e : Plus(sum, ToNumber(entries[e].amount)), 0, order) :
        order \in SetToSeqs({e \in Posted : entries[e].bucket = b})}

\* The reversals of e: an entry links to its audit row, which names e.
ReversalsOf(e) ==
    {x \in Posted : entries[x].type = "REVERSAL" /\
        \E i \in DOMAIN trail : trail[i].request = x /\ trail[i].entity = e}

\* However posts under one key overlap, are repeated and die, a bucket has one
\* entry under it; a post that returns an id under a key returns that entry,
\* booked with the amount the caller asked for to the last stored place, and a
\* post that is told of another payload did ask for another amount, or for one
\* finer than the column keeps.
KeyedOnce ==
    /\ \A e, f \in Posted :
          entries[e].key # NoKey /\ entries[f].key = entries[e].key
          /\ entries[f].bucket = entries[e].bucket => e = f
    /\ \A r \in Request : command[r] \in PostSocialFundEntryDto =>
          /\ pc[r] = "done" =>
                /\ seen[r] \in Posted
                /\ entries[seen[r]].bucket = command[r].bucket
                /\ entries[seen[r]].key = command[r].key
                /\ entries[seen[r]].amount = Stored(command[r].amount)
          /\ pc[r] = "mismatch" => \E e \in Under(command[r].bucket, command[r].key) :
                command[e].amount # command[r].amount \/ Stored(command[r].amount) # command[r].amount

\* What was posted to b, each entry as often taken back as it was reversed.
Net(b) ==
    SumFunctionOnSet(
        [e \in Request |->
            IF e \in Posted THEN entries[e].amount * (1 - Cardinality(ReversalsOf(e))) ELSE 0],
        {e \in Posted : entries[e].bucket = b /\ entries[e].type # "REVERSAL"})

\* The entries of a bucket, exact as they are stored, add up to what was posted
\* to it, each entry as often taken back as it was reversed; only postings are,
\* and nothing keeps one from being reversed twice.
EntriesAddUp ==
    \A b \in Bucket :
        SumFunctionOnSet([e \in Request |-> IF e \in Posted THEN entries[e].amount ELSE 0],
                         {e \in Posted : entries[e].bucket = b}) = Net(b)

\* So does the balance that listBuckets shows, to the nearest hundredth and in
\* whatever order the entries came.  It is no closer than that: the amounts are
\* added up as numbers (social-fund.service.ts:163), and of 0.1 and 0.2 put in
\* and 0.3 taken out 2^-54 is shown, although amounts use "no float" (decimal.ts:4).
BalanceIsNet ==
    /\ EntriesAddUp
    /\ \A b \in Bucket : \A shown \in Balances(b) :
          Nearest(100 * shown, 2^Scale) * 10 = Net(b)

\* The audit row is written before the entry and completed after it.  Every
\* entry has its row; the row of a post names it unless the naming is still to
\* come or died; a row without an entity, or of a reversal without its entry,
\* is of a request still on the way, refused by the index, or dead.
FundTrail ==
    /\ \A e \in Posted : \E i \in DOMAIN trail :
          /\ trail[i].request = e
          /\ IF entries[e].type = "REVERSAL" THEN trail[i].entity = command[e].entry
             ELSE trail[i].entity = e \/ (trail[i].entity = NoId /\ pc[e] \in {"naming", "crashed"})
    /\ \A i \in DOMAIN trail : LET r == trail[i].request IN
          trail[i].entity = NoId \/ (trail[i].action = "REVERSED" /\ r \notin Posted)
          => pc[r] \in {"writing", "naming", "refused", "crashed"}

\* Every write of groups, members and fund is in the trail as soon as its request
\* is answered, and the statuses of groups can be told from it.
TrailAccounts == StatusExplained /\ RegisterAudited /\ FundTrail
=============================================================================
