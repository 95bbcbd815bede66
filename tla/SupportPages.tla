---------------------------- MODULE SupportPages ----------------------------
(***************************************************************************)
(* The support pages (frontend/app/admin, lib/support, lib/api/hooks/      *)
(* support).  A gate asks for case and tenant before anything is shown.    *)
(* What the server answers it has logged (SupportAccess); the answers are  *)
(* cached under keys that name no case, and the key of an evidence file no *)
(* tenant either, and outlive the entry under which they were asked for.   *)
(***************************************************************************)
EXTENDS QueryCache

CONSTANTS
    FileId, Entity,   \* the evidence files and entities looked at
    TenantId,
    NoTenantId,       \* an empty field; all tenants, where the page allows it
    GateEntry,      \* what is entered in the gate: case and tenant
    NoGate,
    NoPage,
    MaxFetches      \* bound on the fetches sent

Page ==
    [of : {"evidence"}, what : FileId, url : {NoTenantId}] \cup
    [of : {"trace"}, what : Entity, url : {NoTenantId}] \cup
    [of : {"auditLog"}, what : {NoPage}, url : TenantId \cup {NoTenantId}] \cup
    [of : {"smsFailures"}, what : {NoPage}, url : {NoTenantId}]

SupportKey ==
    {<<"evidence", f>> : f \in FileId} \cup
    {<<"trace", e, t>> : e \in Entity, t \in TenantId} \cup
    {<<"auditLog", NoPage, t>> : t \in TenantId} \cup
    {<<"smsFailures", NoPage, t>> : t \in TenantId \cup {NoTenantId}}

ASSUME SupportPagesAssumption ==
    /\ SupportKey \subseteq Key
    /\ NoTenantId \notin TenantId /\ NoGate \notin GateEntry /\ NoPage \notin FileId \cup Entity
    /\ \A g \in GateEntry : g.tenant \in TenantId
    /\ MaxFetches \in Nat

VARIABLES
    gate,           \* the state in sessionStorage
    open,           \* the page that is open
    field,          \* the tenant in its field
    submitted,      \* that of the last search of the trace page
    asked,          \* number of fetches sent
    accessLog,      \* the accesses that the server has logged
    carried         \* history: what was cached or on its way when the gate changed

pageVars == <<gate, open, field, submitted, asked, accessLog, carried>>

\* A tab may have been reloaded: the gate survives in sessionStorage.
StoredGate == GateEntry \cup {NoGate}

PagesInit ==
    /\ gate \in StoredGate /\ open = NoPage
    /\ field = NoTenantId /\ submitted = NoTenantId
    /\ asked = 0 /\ accessLog = {} /\ carried = {}
-----------------------------------------------------------------------------
\* The tenant that a page asks about.
TenantOf(p, f, s, g) ==
    CASE p.of = "evidence" -> g.tenant
      [] p.of = "trace" -> s
      [] p.of = "auditLog" -> IF f = NoTenantId THEN g.tenant ELSE f
      [] p.of = "smsFailures" -> f

\* Defect: the key of a page does not name the tenant.
KeyWithoutTenant(p, f, s, g) ==
    IF p.of = "evidence" THEN <<"evidence", p.what>>
    ELSE <<p.of, p.what, CHOOSE t \in TenantId : TRUE>>

KeyOf(p, f, s, g) ==
    IF p.of = "evidence" THEN <<"evidence", p.what>>
    ELSE <<p.of, p.what, TenantOf(p, f, s, g)>>

\* The body of the request.
Ask(p, f, s, g) == [tenant |-> TenantOf(p, f, s, g), case |-> g.case]

Enabled(p, s, g) == p # NoPage /\ g # NoGate /\ (p.of = "trace" => s # NoTenantId)

\* A change of the gate leaves what is cached and what is on its way alone.
Held ==
    {[key |-> k, ask |-> data[k]] : k \in {x \in SupportKey : data[x] # NoData}} \cup
    {[key |-> k, ask |-> fetch[k].answer] : k \in {x \in SupportKey : fetch[x] # Idle}}

\* After a step to p, f, s and g the query of the page is fetched unless it is
\* fresh or under way.
Show(p, f, s, g) ==
    /\ gate' = g /\ open' = p /\ field' = f /\ submitted' = s
    /\ IF Enabled(p, s, g)
       THEN fetch' = FetchIfStale({KeyOf(p, f, s, g)}, Ask(p, f, s, g))
       ELSE fetch' = fetch
    /\ carried' = IF g = gate THEN carried ELSE Held
    /\ asked' = asked + (IF fetch' = fetch THEN 0 ELSE 1) /\ asked' <= MaxFetches
    /\ UNCHANGED <<data, fresh, failed, accessLog>>

TenantIn(g) == IF g = NoGate THEN NoTenantId ELSE g.tenant

\* The field when a page is mounted: the address, or the gate.
OpenPage ==
    \E p \in Page \ {open} :
        Show(p, IF p.url # NoTenantId THEN p.url ELSE TenantIn(gate), NoTenantId, gate)

\* The effects that follow the tenant of the gate: the audit log page sets its
\* field, the trace page fills an empty one.
FieldFor(g) ==
    CASE open = NoPage -> field
      [] open # NoPage /\ open.of = "auditLog" ->
            IF open.url # NoTenantId THEN open.url ELSE TenantIn(g)
      [] open # NoPage /\ open.of = "trace" /\ field = NoTenantId -> TenantIn(g)
      [] OTHER -> field

\* onSubmit of the gate, and End session of the banner: the answers stay cached.
EnterGate ==
    /\ gate = NoGate
    /\ \E g \in GateEntry : Show(open, FieldFor(g), submitted, g)

LeaveGate ==
    /\ gate # NoGate
    /\ Show(open, FieldFor(NoGate), submitted, NoGate)

TypeTenant ==
    /\ gate # NoGate /\ open # NoPage /\ open.of # "evidence"
    /\ \E f \in (TenantId \cup {NoTenantId}) \ {field} : Show(open, f, submitted, gate)

\* Apply filters puts them in the address, and the field follows the address.
ApplyFilters ==
    /\ gate # NoGate /\ open # NoPage /\ open.of = "auditLog" /\ field # open.url
    /\ Show([open EXCEPT !.url = field],
            IF field # NoTenantId THEN field ELSE TenantIn(gate), submitted, gate)

Search ==
    /\ gate # NoGate /\ open # NoPage /\ open.of = "trace" /\ field # NoTenantId
    /\ submitted # field
    /\ Show(open, field, field, gate)

KeyShown == KeyOf(open, field, submitted, gate)

\* Refresh of the SMS page; elsewhere the focus of the window on a stale answer.
Refresh ==
    /\ Enabled(open, submitted, gate) /\ asked < MaxFetches
    /\ fetch' = IF open.of = "smsFailures" THEN FetchAnew({KeyShown}, Ask(open, field, submitted, gate))
                ELSE FetchIfStale({KeyShown}, Ask(open, field, submitted, gate))
    /\ fetch' # fetch
    /\ asked' = asked + 1
    /\ UNCHANGED <<data, fresh, failed, gate, open, field, submitted, accessLog, carried>>

Leave == UNCHANGED <<gate, open, field, submitted, carried>>

\* The server logs the access and answers; the answer arrives.
Serve(k) ==
    /\ Read(k, fetch[k].answer)
    /\ accessLog' = accessLog \cup {[key |-> k, ask |-> fetch[k].answer]}
    /\ Leave /\ UNCHANGED asked

Receive(k) == Store(k) /\ Leave /\ UNCHANGED <<asked, accessLog>>

\* Once more with what the page asks by then, if it still shows the query.
Again(k) ==
    /\ asked < MaxFetches
    /\ LET shown == Enabled(open, submitted, gate) /\ KeyShown = k IN
       TryAgain(k, IF shown THEN Ask(open, field, submitted, gate) ELSE fetch[k].answer)
    /\ asked' = asked + 1
    /\ Leave /\ UNCHANGED accessLog

GiveUpOn(k) == Fail(k) /\ Leave /\ UNCHANGED <<asked, accessLog>>

GrowOld == Age /\ UNCHANGED pageVars

PagesNext ==
    \/ OpenPage \/ EnterGate \/ LeaveGate \/ TypeTenant \/ ApplyFilters \/ Search
    \/ Refresh \/ GrowOld
    \/ \E k \in SupportKey : Serve(k) \/ Receive(k) \/ Again(k) \/ GiveUpOn(k)
-----------------------------------------------------------------------------
\* The answer on the screen.
Shown == IF Enabled(open, submitted, gate) THEN data[KeyShown] ELSE NoData

\* What a page shows, however old it is and whatever went wrong since, was logged
\* by the server before it answered.  It is what the page asks, under the case and
\* about the tenant that are entered now, or it was left by an earlier entry: the
\* keys of the cache (frontend/lib/api/query-keys.ts:46-52) name no case, and that
\* of an evidence file no tenant.  The other pages show the tenant that they name.
ShownWasLogged ==
    Shown # NoData =>
        /\ [key |-> KeyShown, ask |-> Shown] \in accessLog
        /\ \/ Shown = Ask(open, field, submitted, gate)
           \/ [key |-> KeyShown, ask |-> Shown] \in carried
        /\ open.of # "evidence" => Shown.tenant = TenantOf(open, field, submitted, gate)

\* frontend/lib/copy/messages.ts:293, over each evidence file that is shown: "Your
\* support case ID and reason code have been logged."
CaseWasLogged ==
    Shown # NoData /\ open.of = "evidence" =>
        \E access \in accessLog : access.key = KeyShown /\ access.ask.case = gate.case

=============================================================================
