------------------------ MODULE ContributionHistory ------------------------
(***************************************************************************)
(* Contributions with a history variable: whether two requests were ever   *)
(* in flight at the same time.  What the code checks and then does holds   *)
(* without overlaps and not with them.                                     *)
(***************************************************************************)
EXTENDS Contributions

VARIABLE overlapped

historyVars == <<vars, overlapped>>

HistoryInit == Init /\ overlapped = FALSE
HistoryNext == Next /\ overlapped' = (overlapped \/ Cardinality(InFlight') > 1)
HistorySpec == HistoryInit /\ [][HistoryNext]_historyVars

\* "Evidence file is already linked to another contribution": unless requests
\* overlapped, an evidence file is linked to one contribution, also within one
\* bulk and after a crash.
EvidenceLinkedOnceSerially == ~overlapped => EvidenceLinkedOnce
=============================================================================
