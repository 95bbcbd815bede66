-------------------------- MODULE MCContributions --------------------------
(***************************************************************************)
(* Small instances of Contributions: two groups, a member of each, two     *)
(* keys, one evidence file.                                                *)
(***************************************************************************)
EXTENDS ContributionReads, ContributionHistory, TLC

CONSTANTS r1, r2, r3

\* Cash in a meeting, cash outside, and a bank transfer.
MCPayload(bob, k1, k2) ==
    [m \in {"ann", "bob"} |-> [k \in {"k1", "k2"} |->
        IF m = "bob" THEN bob ELSE IF k = "k1" THEN k1 ELSE k2]]
MCModeOf == MCPayload("CASH", "CASH", "BANK_TRANSFER")
MCMeetingOf == MCPayload("m1", NoMeeting, "m1")
MCDayOf == MCPayload(1, 1, 2)

MCHome == [x \in {"ann", "bob", "photo"} |-> IF x = "bob" THEN "t2" ELSE "t1"]

Contributed(m, savings, social, file, key) ==
    [member |-> m, savings |-> savings, social |-> social,
     evidence |-> file, key |-> key]

A == Contributed("ann", 2, 1, "photo", "k1")
B == Contributed("ann", 0, 1, NoEvidence, "k2")
Foreign == Contributed("bob", 0, 1, NoEvidence, "k1")
Negative == Contributed("ann", 2, -1, NoEvidence, "k2")

Record(t, item) == [op |-> "record", tenant |-> t, items |-> <<item>>]
Bulk(t, items) == [op |-> "bulk", tenant |-> t, items |-> items]

\* One key used by both groups, a second contribution with the same file, bulks
\* of two keys, of one file twice and with an invalid second item.
MCSubmission ==
    {Record("t1", A), Record("t2", Foreign), Bulk("t1", <<B, A>>), Bulk("t1", <<B, Negative>>),
     Bulk("t1", <<[B EXCEPT !.evidence = "photo"], A>>)}

\* The clients of this instance are those of the theorem on the reports.
ASSUME MCOneContent == OneContentPerKey

Symmetry == Permutations(Request)
=============================================================================
