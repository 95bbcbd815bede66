-------------------------- MODULE MCLedgerPosting --------------------------
(***************************************************************************)
(* Small instances of LedgerPosting.                                       *)
(***************************************************************************)
EXTENDS LedgerPosting, TLC

CONSTANTS m1, r1, r2, r3

Entry(m, b, n) == [member |-> m, bucket |-> b, amount |-> n]
Pair(b, n) == <<Entry(m1, b, n), Entry(GroupAccount, b, 0 - n)>>

\* Two valid postings and one for each way that validateCommand refuses.
MCLines ==
    {Pair("SAVINGS", 2), Pair("SOCIAL_FUND", 1),
     <<>>, <<Entry(m1, "SAVINGS", 2)>>, Pair("SAVINGS", 0), Pair("OTHER", 1)}

\* Only the valid ones, for runs about what happens after validation.
MCValidLines == {Pair("SAVINGS", 2), Pair("SOCIAL_FUND", 1)}

\* Requests are interchangeable.
Symmetry == Permutations(Request)
=============================================================================
