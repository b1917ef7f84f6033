---------------------------- MODULE MCCallCenter ----------------------------
(***************************************************************************)
(* Values of the constants of CallCenter for TLC.                          *)
(***************************************************************************)
EXTENDS CallCenter, TLC

CONSTANTS c1, k1, k2

MCCodes == {<<"PAYNENT", "REFUND", "DELAY">>, <<"PAYNENT", "REFUND", "PART">>}

\* Two transcripts of one call, so that executions meet on its row.
MCCallOf == (k1 :> c1) @@ (k2 :> c1)
MCNoRetry == [t \in {"PiiGuard", "Classify", "Verify", "Persist"} |-> 0]

Symmetry == Permutations(Execs) \cup Permutations(Reviewers)
            \cup Permutations({k1, k2})
=============================================================================
