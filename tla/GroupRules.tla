----------------------------- MODULE GroupRules -----------------------------
(***************************************************************************)
(* GroupRulesService (backend/src/group-rules): the rule versions of a     *)
(* group, with effective dates.  A new version is made by two statements,  *)
(* one that closes the current version and one that inserts its successor, *)
(* outside any transaction.  A version's id is the call that created it.   *)
(* Of the rules only the loan interest is kept; the other fields are       *)
(* copied the same way and nothing modelled here reads them.               *)
(***************************************************************************)
EXTENDS Integers, FiniteSets

CONSTANTS
    Group,
    RuleChange,     \* the calls of createVersion and update
    RuleCall,       \* the arguments that those calls carry
    MaxClock,       \* bound: instants that the clock shows
    MaxChanging,    \* bound: rule changes being served at the same time
    NoVersion, NoDate, NoCall,
    Keep            \* a field that an update leaves out

MaxRateBps == 100000

CreateRuleVersionDto == [op : {"create"}, group : Group, enabled : BOOLEAN, rateBps : Int]
UpdateRuleVersionDto ==
    [op : {"update"}, group : Group, enabled : BOOLEAN \cup {Keep}, rateBps : Int \cup {Keep}]

RuleVersionRow ==
    [group : Group, from : Nat, to : Nat \cup {NoDate}, enabled : BOOLEAN, rateBps : Int]

ASSUME GroupRulesAssumption ==
    /\ RuleCall \subseteq CreateRuleVersionDto \cup UpdateRuleVersionDto
    /\ MaxClock \in Nat /\ MaxChanging \in Nat
    /\ NoVersion \notin RuleChange /\ NoVersion \notin RuleVersionRow
    /\ NoDate \notin Nat
    /\ NoCall \notin RuleCall
    /\ Keep \notin BOOLEAN \cup Int

VARIABLES
    clock,          \* what new Date() gives
    versions,       \* the table RuleVersion
    ruleTrail,      \* RULE_VERSION_CREATED and RULE_VERSION_UPDATED rows
    changePc,       \* what each call does next, or how it ended
    change,         \* its arguments
    basis           \* the current version it read, and its now

ruleVars == <<clock, versions, ruleTrail, changePc, change, basis>>

ChangeStep == {"start", "current", "closing", "opening", "audit"}
ChangeFinished == {"done", "refused", "crashed"}
Changing == {r \in RuleChange : changePc[r] \in ChangeStep}

Basis == [current : RuleChange \cup {NoVersion}, now : Nat]

RulesTypeOK ==
    /\ clock \in Nat
    /\ versions \in [RuleChange -> RuleVersionRow \cup {NoVersion}]
    /\ ruleTrail \in SUBSET RuleChange
    /\ changePc \in [RuleChange -> {"idle"} \cup ChangeStep \cup ChangeFinished]
    /\ change \in [RuleChange -> RuleCall \cup {NoCall}]
    /\ basis \in [RuleChange -> Basis]

RulesInit ==
    /\ clock = 0
    /\ versions = [r \in RuleChange |-> NoVersion]
    /\ ruleTrail = {}
    /\ changePc = [r \in RuleChange |-> "idle"]
    /\ change = [r \in RuleChange |-> NoCall]
    /\ basis = [r \in RuleChange |-> [current |-> NoVersion, now |-> 0]]
-----------------------------------------------------------------------------
VersionsOf(g) == {v \in RuleChange : versions[v] # NoVersion /\ versions[v].group = g}
Open(g) == {v \in VersionsOf(g) : versions[v].to = NoDate}

\* orderBy effectiveFrom desc; the order of equal dates is the database's.
Newest(V) == {v \in V : \A w \in V : versions[w].from <= versions[v].from}

EffectiveAt(g, date) ==
    {v \in VersionsOf(g) : /\ versions[v].from <= date
                           /\ versions[v].to = NoDate \/ versions[v].to > date}

\* What getEffectiveAt and getSnapshotForLoan may return.
GetSnapshotForLoan(g, date) ==
    IF EffectiveAt(g, date) = {} THEN {NoVersion} ELSE Newest(EffectiveAt(g, date))

ValidateRateBps(rateBps) == 0 <= rateBps /\ rateBps <= MaxRateBps

\* dto.field ?? current.field
Given(field, current) == IF field = Keep THEN current ELSE field

GoChange(r, step) == changePc' = [changePc EXCEPT ![r] = step]

Tick ==
    /\ clock < MaxClock
    /\ clock' = clock + 1
    /\ UNCHANGED <<versions, ruleTrail, changePc, change, basis>>

ArriveChange(r) ==
    /\ changePc[r] = "idle"
    /\ Cardinality(Changing) < MaxChanging
    /\ \E c \in RuleCall : change' = [change EXCEPT ![r] = c]
    /\ GoChange(r, "start")
    /\ UNCHANGED <<clock, versions, ruleTrail, basis>>

\* The permission guard or getOrThrow refuses.
TurnChangeAway(r) ==
    /\ changePc[r] = "start"
    /\ GoChange(r, "refused")
    /\ UNCHANGED <<clock, versions, ruleTrail, change, basis>>

\* getOrThrow returned: createVersion validates and takes its now ...
StartCreate(r) ==
    /\ changePc[r] = "start" /\ change[r].op = "create"
    /\ GoChange(r, IF ValidateRateBps(change[r].rateBps) THEN "current" ELSE "refused")
    /\ basis' = [basis EXCEPT ![r].now = clock]
    /\ UNCHANGED <<clock, versions, ruleTrail, change>>

\* ... and goes on without a current version if there is none.
ReadCurrentForCreate(r) ==
    /\ changePc[r] = "current" /\ change[r].op = "create"
    /\ LET open == Open(change[r].group) IN
       \/ open = {} /\ GoChange(r, "opening") /\ UNCHANGED basis
       \/ \E v \in Newest(open) :
             GoChange(r, "closing") /\ basis' = [basis EXCEPT ![r].current = v]
    /\ UNCHANGED <<clock, versions, ruleTrail, change>>

StartUpdate(r) ==
    /\ changePc[r] = "start" /\ change[r].op = "update"
    /\ GoChange(r, "current")
    /\ UNCHANGED <<clock, versions, ruleTrail, change, basis>>

\* update needs a current version; it validates the rate, then takes its now.
ReadCurrentForUpdate(r) ==
    /\ changePc[r] = "current" /\ change[r].op = "update"
    /\ LET open == Open(change[r].group) IN
       \/ open = {} /\ GoChange(r, "refused") /\ UNCHANGED basis
       \/ \E v \in Newest(open) :
             /\ GoChange(r, IF change[r].rateBps = Keep \/ ValidateRateBps(change[r].rateBps)
                            THEN "closing" ELSE "refused")
             /\ basis' = [basis EXCEPT ![r] = [current |-> v, now |-> clock]]
    /\ UNCHANGED <<clock, versions, ruleTrail, change>>

CloseVersion(r) ==
    /\ changePc[r] = "closing"
    /\ versions' = [versions EXCEPT ![basis[r].current].to = basis[r].now]
    /\ GoChange(r, "opening")
    /\ UNCHANGED <<clock, ruleTrail, change, basis>>

CreatedVersion(r) ==
    LET c == change[r]
    IN  [group |-> c.group, from |-> basis[r].now, to |-> NoDate,
         enabled |-> c.enabled, rateBps |-> c.rateBps]

\* Defect: the row is copied from the version as it is after it was closed.
UpdatedVersionCopied(r) ==
    LET c == change[r]
        old == versions[basis[r].current]
    IN  [old EXCEPT !.from = basis[r].now,
                    !.enabled = Given(c.enabled, old.enabled),
                    !.rateBps = Given(c.rateBps, old.rateBps)]

\* An update keeps what it does not give.
UpdatedVersion(r) ==
    LET c == change[r]
        old == versions[basis[r].current]
    IN  [group |-> c.group, from |-> basis[r].now, to |-> NoDate,
         enabled |-> Given(c.enabled, old.enabled), rateBps |-> Given(c.rateBps, old.rateBps)]

\* ruleVersion.create
OpenVersion(r) ==
    /\ changePc[r] = "opening"
    /\ versions' = [versions EXCEPT ![r] =
           IF change[r].op = "create" THEN CreatedVersion(r) ELSE UpdatedVersion(r)]
    /\ GoChange(r, "audit")
    /\ UNCHANGED <<clock, ruleTrail, change, basis>>

AuditChange(r) ==
    /\ changePc[r] = "audit"
    /\ ruleTrail' = ruleTrail \cup {r}
    /\ GoChange(r, "done")
    /\ UNCHANGED <<clock, versions, change, basis>>

CrashChange(r) ==
    /\ changePc[r] \in ChangeStep
    /\ GoChange(r, "crashed")
    /\ UNCHANGED <<clock, versions, ruleTrail, change, basis>>

RulesNext ==
    \/ Tick
    \/ \E r \in RuleChange :
        \/ ArriveChange(r) \/ TurnChangeAway(r) \/ StartCreate(r) \/ StartUpdate(r)
        \/ ReadCurrentForCreate(r) \/ ReadCurrentForUpdate(r)
        \/ CloseVersion(r) \/ OpenVersion(r) \/ AuditChange(r) \/ CrashChange(r)

RulesSpec == RulesInit /\ [][RulesNext]_ruleVars
-----------------------------------------------------------------------------
\* A group that ever had rules has an open version, or a call that closed its
\* version still has to open the next one, or died before it could.  However
\* changes overlap, none that ran to its end leaves a group without rules.
RulesSurviveChange ==
    \A g \in Group :
        VersionsOf(g) # {} =>
            \/ Open(g) # {}
            \/ \E r \in RuleChange :
                /\ change[r] # NoCall /\ change[r].group = g
                /\ basis[r].current # NoVersion
                /\ changePc[r] \in {"opening", "crashed"}
=============================================================================
