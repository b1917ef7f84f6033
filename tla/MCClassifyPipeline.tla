------------------------- MODULE MCClassifyPipeline -------------------------
(***************************************************************************)
(* Values of the constants of ClassifyPipeline for TLC.                    *)
(***************************************************************************)
EXTENDS ClassifyPipeline, TLC

CONSTANTS c1, k1

\* Two triples that differ in the last code only.
MCCodes == {<<"PAYNENT", "REFUND", "DELAY">>, <<"PAYNENT", "REFUND", "PART">>}

\* One object, whose notification may come twice: the executions share its
\* masked text and meet on the row of its call.
MCCallOf == k1 :> c1

MCOneRetry == [t \in TaskStates |-> 1]
=============================================================================
