---------------------------- MODULE AnswerSchema ----------------------------
(***************************************************************************)
(* From the tree of categories to a label: the codes a prompt bundle       *)
(* offers, and which text of the model passes for a classification.        *)
(*                                                                         *)
(* Source: src/lib/{prompts,bedrock_client,output_schema}.py.              *)
(***************************************************************************)
EXTENDS Integers

CONSTANT Absent  \* no code, or a value of the wrong JSON type

Levels == 1..3

\* _serialize_taxonomy raises on a node of another level.
WellFormed(tree) == \A node \in tree : node.level \in Levels

\* valid_codes of the bundle. The level of a code is not kept.
ValidCodes(tree) == {node.code : node \in tree} \ {Absent}

\* A reply of the model as the validator sees it: how the JSON is wrapped, its
\* top-level value, whether all six keys are there, the code of each level
\* (Absent: no object with code and name), whether the three objects have
\* further keys, the confidence in percent (Absent: true, false or no number),
\* and the codes of the alternatives (Absent: an object without a code).
Replies(Codes) ==
    [wrapped : {"bare", "fenced", "prose"}, top : {"object", "other"},
     complete : BOOLEAN, codes : [Levels -> Codes \cup {Absent}],
     further : BOOLEAN, confidence : Int \cup {Absent},
     alternatives : SUBSET (Codes \cup {Absent, "no object"})]

\* parse_and_validate returns, rather than raises. What it raises is a
\* ValidationError but for further keys and alternatives that are no objects,
\* which end in a TypeError and an AttributeError.
Accepts(reply, valid_codes) ==
    /\ reply.wrapped \in {"bare", "fenced"}
    /\ reply.top = "object" /\ reply.complete
    /\ \A i \in Levels : reply.codes[i] \in valid_codes
    /\ reply.confidence # Absent /\ reply.confidence \in 0..100
    /\ reply.alternatives \subseteq valid_codes \cup {Absent}
    /\ ~reply.further

\* classify of the adapter: a label triple, or Absent for an exception.
Classified(reply, valid_codes) ==
    IF Accepts(reply, valid_codes) THEN reply.codes ELSE Absent

=============================================================================
