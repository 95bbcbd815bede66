----------------------------- MODULE QueryCache -----------------------------
(***************************************************************************)
(* The query cache of one browser tab: TanStack Query as the front end     *)
(* configures it (frontend/app/providers.tsx): an answer is fresh for a    *)
(* minute, a failed fetch is tried once more, one fetch per key at a time. *)
(* A query is active while a page shows it; the fetch of a query that is   *)
(* no longer shown goes on, and its answer is stored all the same.         *)
(***************************************************************************)
EXTENDS Integers

CONSTANTS
    Key,            \* the query keys
    NoData          \* nothing cached yet

VARIABLES
    data,           \* data[k]: the answer cached under k
    fresh,          \* the keys whose answer is younger than staleTime and not invalidated
    fetch,          \* fetch[k]: the fetch of k that is under way
    failed          \* the keys whose last fetch failed (isError)

cacheVars == <<data, fresh, fetch, failed>>

Idle == [stage |-> "idle", answer |-> NoData]

Sent(ask) == [stage |-> "sent", answer |-> ask]

CacheInit ==
    /\ data = [k \in Key |-> NoData]
    /\ fresh = {} /\ failed = {}
    /\ fetch = [k \in Key |-> Idle]
-----------------------------------------------------------------------------
\* What becomes of the fetches when a page shows the keys ks.
FetchIfStale(ks, ask) ==
    [k \in Key |-> IF k \in ks \ fresh /\ fetch[k] = Idle THEN Sent(ask) ELSE fetch[k]]

\* refetch, and invalidateQueries for the active ones of its keys: a fetch under
\* way is cancelled and another one sent, unless there is nothing cached yet.
FetchAnew(ks, ask) ==
    [k \in Key |-> IF k \in ks /\ (data[k] # NoData \/ fetch[k] = Idle)
                   THEN Sent(ask) ELSE fetch[k]]

\* The server has answered with what it had by then.
Read(k, answer) ==
    /\ fetch[k].stage = "sent"
    /\ fetch' = [fetch EXCEPT ![k].stage = "read", ![k].answer = answer]
    /\ UNCHANGED <<data, fresh, failed>>

\* The answer arrives.
Store(k) ==
    /\ fetch[k].stage = "read"
    /\ data' = [data EXCEPT ![k] = fetch[k].answer]
    /\ fresh' = fresh \cup {k}
    /\ failed' = failed \ {k}
    /\ fetch' = [fetch EXCEPT ![k] = Idle]

\* A request or its answer is lost, or the server refuses: it is tried once more,
\* asking what the page asks by then, and then is an error.  What is cached stays.
\* The tries are not counted: a fetch that fails has failed as often as it takes.
TryAgain(k, ask) ==
    /\ fetch[k] # Idle
    /\ fetch' = [fetch EXCEPT ![k] = Sent(ask)]
    /\ UNCHANGED <<data, fresh, failed>>

Fail(k) ==
    /\ fetch[k] # Idle
    /\ fetch' = [fetch EXCEPT ![k] = Idle]
    /\ failed' = failed \cup {k}
    /\ UNCHANGED <<data, fresh>>

\* A minute passes.
Age ==
    /\ fresh # {}
    /\ fresh' = {}
    /\ UNCHANGED <<data, fetch, failed>>

=============================================================================
