---------------------------- MODULE MCGoldenEval ----------------------------
(***************************************************************************)
(* Values of the constants of GoldenEval for TLC.                          *)
(***************************************************************************)
EXTENDS GoldenEval

\* A tree of two top categories, and an older one without the second leaf and
\* with a category that has no code.
Node(code, level) == [code |-> code, level |-> level]
Older == {Node("PAY_NONEY", 1), Node("CHARGE", 2), Node("DELAY", 3), Node(Absent, 2)}
MCTrees == {Older \cup {Node("CARD", 1), Node("LIMIT", 3)}, Older}
MCMalformed == {Older \cup {Node("DEEP", 4)}}
MCAllTrees == MCTrees \cup MCMalformed

Delay == <<"PAY_NONEY", "CHARGE", "DELAY">>
Limit == <<"PAY_NONEY", "CHARGE", "LIMIT">>
Unlabelled == <<TBD, TBD, TBD>>

\* Five labelled samples, where the gate is met exactly by four, a golden set
\* that is partly labelled, and an empty one.
MCGoldens == {<<Delay, Delay, Delay, Delay, Delay>>, <<Limit, Unlabelled>>, <<>>}

Reply(codes) ==
    [wrapped |-> "bare", top |-> "object", complete |-> TRUE, codes |-> codes,
     further |-> FALSE, confidence |-> 90, alternatives |-> {"CHARGE", Absent}]

\* Right, right but for the leaf, of another top category, and each way to
\* be refused.
MCModelSays ==
    {Reply(Delay), [Reply(Limit) EXCEPT !.wrapped = "fenced", !.confidence = 100],
     Reply(<<"CARD", "CHARGE", "DELAY">>),
     [Reply(Delay) EXCEPT !.wrapped = "prose"],
     [Reply(Delay) EXCEPT !.top = "other"],
     [Reply(Delay) EXCEPT !.complete = FALSE],
     [Reply(Delay) EXCEPT !.codes[2] = Absent],
     [Reply(Delay) EXCEPT !.codes[3] = "REFUND"],
     [Reply(Delay) EXCEPT !.further = TRUE],
     [Reply(Delay) EXCEPT !.confidence = 101],
     [Reply(Delay) EXCEPT !.confidence = Absent],
     [Reply(Delay) EXCEPT !.alternatives = {"REFUND"}],
     [Reply(Delay) EXCEPT !.alternatives = {"no object"}]}

ASSUME ReplyCodesAssumption ==
    \A reply \in MCModelSays :
        /\ reply.codes \in [Levels -> {"PAY_NONEY", "CHARGE", "DELAY", "LIMIT", "CARD", "REFUND", Absent}]
        /\ reply.alternatives \subseteq {"CHARGE", "REFUND", "no object", Absent}
=============================================================================
