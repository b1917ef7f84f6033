----------------------------- MODULE CallCenter -----------------------------
(***************************************************************************)
(* The whole system around the table consult-results: executions of the    *)
(* classification pipeline put rows while reviewers decide them.           *)
(*                                                                         *)
(* Composes ClassifyPipeline and ReviewQueue, which share the table: each  *)
(* step is one of theirs and leaves the state of the other alone.          *)
(***************************************************************************)
EXTENDS ClassifyPipeline

CONSTANT Reviewers  \* browser sessions of users of the ops group

VARIABLES index, page, click, audit

R == INSTANCE ReviewQueue

pipeline == <<masked, state, step, tries, event, stream, classifyDlq, persistDlq>>
review == <<index, page, click, audit>>
centerVars == <<table, pipeline, review>>

\* A row as the decision of a reviewer leaves it.
ReviewedRow ==
    [key : Keys, promptVersion : PromptVersions, code : Codes,
     confidence : Confidences, verified : {"hitl-pending", "hitl-corrected"},
     status : R!ReviewerStatus, correctedBy : Reviewers, writer : Execs]

ASSUME ReviewersAssumption == Absent \notin Calls \cup Reviewers
ASSUME ReviewedRowAssumption == Absent \notin ReviewedRow

CenterInit ==
    /\ Init
    /\ index = table
    /\ R!ReviewInit

CenterNext ==
    \/ Next /\ UNCHANGED review
    \/ R!Next /\ UNCHANGED pipeline

CenterSpec == CenterInit /\ [][CenterNext]_centerVars

-----------------------------------------------------------------------------
(* Properties.                                                             *)

\* Table and index hold rows of the pipeline and of the reviewers.
CenterTypeOK ==
    /\ FlowTypeOK
    /\ table \in [Calls -> Or(Row \cup ReviewedRow)]
    /\ index \in [Calls -> Or(Row \cup ReviewedRow)]
    /\ R!TypeOK

\* A reviewer decides an item that the two models disagreed on, and changes
\* its status, codes and verification only; a skip keeps the last two.
DecidedOn(item, row) ==
    /\ item.status = "hitl-pending"
    /\ row.status \in R!ReviewerStatus
    /\ row.correctedBy \in Reviewers
    /\ row = [item EXCEPT !.status = row.status, !.code = row.code,
                          !.verified = row.verified,
                          !.correctedBy = row.correctedBy]
    /\ row.status = "hitl-skipped" =>
           row.code = item.code /\ row.verified = item.verified
    /\ row.status = "hitl-corrected" => row.verified = "hitl-corrected"

\* A row is the item of the execution that last put it, or that item with the
\* decision of one reviewer on it: nobody decides what the models agreed on,
\* and no trace of a decision survives on a row that is put again.
RowLineage ==
    \A c \in Calls : table[c] # Absent =>
        LET item == Item(table[c].writer)
        IN \/ /\ table[c] = item
              /\ VerdictFits(item, event[item.writer].verifyCode)
           \/ DecidedOn(item, table[c])

-----------------------------------------------------------------------------
(* What the documents say and the code does not do.                        *)

\* README and ADR-011: the first decision of a reviewer on a call wins and is
\* not clobbered.
DecisionIsFinal ==
    [][\A c \in Calls : table[c] # Absent =>
          (table[c].status \in R!ReviewerStatus =>
              table'[c].status = table[c].status)]_centerVars

=============================================================================
