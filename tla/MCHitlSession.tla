---------------------------- MODULE MCHitlSession ----------------------------
(***************************************************************************)
(* Values of the constants of HitlSession for TLC.                         *)
(***************************************************************************)
EXTENDS HitlSession, TLC

CONSTANTS k1, k2

Good == [kid |-> k1, signer |-> "own ALB", signedBy |-> k1,
         groups |-> {"compliance", "ops"}, email |-> TRUE]

\* A good token, one of another key and group, and one flaw at a time; the key
\* that has signed in the place of the named one is the other one of the region.
MCTokens ==
    {Good,
     [Good EXCEPT !.kid = k2, !.signedBy = k2, !.groups = {"analyst"}],
     [Good EXCEPT !.kid = Absent],
     [Good EXCEPT !.signer = "other ALB"],
     [Good EXCEPT !.signedBy = k2],
     [Good EXCEPT !.email = FALSE]}

Deployed == [LOCAL_DEV |-> FALSE, crypto |-> TRUE, ALB_ARN |-> TRUE,
             AUDIT_LOG_GROUP |-> TRUE]

\* The task definition, a container built without the crypto packages, one
\* without ALB_ARN, and a desktop.
MCEnvironments ==
    {Deployed,
     [Deployed EXCEPT !.crypto = FALSE],
     [Deployed EXCEPT !.ALB_ARN = FALSE],
     [Deployed EXCEPT !.LOCAL_DEV = TRUE, !.AUDIT_LOG_GROUP = FALSE]}

Symmetry == Permutations(Sessions)
=============================================================================
