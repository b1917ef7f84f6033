----------------------------- MODULE CallLedger -----------------------------
(***************************************************************************)
(* What the table consult-results promises about a call, without the       *)
(* executions and the reviewers that write it: a call is recorded at most  *)
(* once under one prompt version, executions may classify it again under   *)
(* that version, and only a call that waits for review is decided by one.  *)
(***************************************************************************)
CONSTANTS Calls, PromptVersions, Absent

VARIABLE ledger  \* entry of each call, Absent before the first verdict

ModelStatus    == {"confirmed", "hitl-pending"}
ReviewerStatus == {"hitl-corrected", "hitl-skipped"}

Entries == [promptVersion : PromptVersions, status : ModelStatus \cup ReviewerStatus]

TypeOK == ledger \in [Calls -> Entries \cup {Absent}]

Init == ledger = [c \in Calls |-> Absent]

\* The first verdict of the models on call c.
Record(c) ==
    /\ ledger[c] = Absent
    /\ \E version \in PromptVersions, status \in ModelStatus :
          ledger' = [ledger EXCEPT ![c] = [promptVersion |-> version, status |-> status]]

\* Another execution for c under the prompt version of the first one. It
\* replaces the entry, a reviewer's decision included.
Reclassify(c) ==
    /\ ledger[c] # Absent
    /\ \E status \in ModelStatus : ledger' = [ledger EXCEPT ![c].status = status]

\* A reviewer corrects, confirms or skips c.
Decide(c) ==
    /\ ledger[c] # Absent
    /\ ledger[c].status = "hitl-pending"
    /\ \E status \in ReviewerStatus : ledger' = [ledger EXCEPT ![c].status = status]

Next == \E c \in Calls : Record(c) \/ Reclassify(c) \/ Decide(c)

Spec == Init /\ [][Next]_ledger

=============================================================================
