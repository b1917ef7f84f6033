----------------------------- MODULE ReviewQueue -----------------------------
(***************************************************************************)
(* The review queue of the HITL UI: reviewers who open the Streamlit page, *)
(* pick a call that waits for review and confirm, correct or skip it, with *)
(* the conditional UpdateItem, the index the page reads and the audit log. *)
(*                                                                         *)
(* Source: src/hitl_ui/pages/1_review_queue.py and                         *)
(* src/hitl_ui/hitl_lib/{ddb_access,audit}.py.                             *)
(***************************************************************************)
EXTENDS Naturals

CONSTANTS
    Calls,      \* callIds: hash keys of the table
    Reviewers,  \* browser sessions of users of the ops group
    Codes,      \* label triples of the taxonomy
    Absent      \* no row, page, click or user

Buttons == {"confirm", "save", "skip"}
ReviewerStatus == {"hitl-corrected", "hitl-skipped"}

ASSUME ReviewAssumption ==
    Absent \notin Calls \cup Reviewers \cup Codes

VARIABLES
    table,    \* consult-results: row of each call
    index,    \* status-classifiedAt-index: the copy of each row it holds
    page,     \* what each reviewer sees: the calls on offer, the one shown
    click,    \* the button whose handler runs for each reviewer
    audit     \* records of the audit log group

review == <<index, page, click, audit>>
vars == <<table, review>>

Pages  == [options : SUBSET Calls, call : Calls]
Clicks == [button : Buttons, call : Calls, code : Codes \cup {Absent},
           shown : Calls, phase : {"update", "audit"}]

\* The action an audit record names, by the status that the action sets.
Records == [user : Reviewers, call : Calls, status : ReviewerStatus]

RowOK(row) ==
    row # Absent =>
        /\ row.code \in Codes
        /\ row.status \in {"confirmed", "hitl-pending"} \cup ReviewerStatus
        /\ row.correctedBy \in Reviewers \cup {Absent}

TypeOK ==
    /\ \A c \in Calls : RowOK(table[c]) /\ RowOK(index[c])
    /\ page \in [Reviewers -> Pages \cup {Absent}]
    /\ click \in [Reviewers -> Clicks \cup {Absent}]
    /\ audit \subseteq Records

Waits(row) == row # Absent /\ row.status = "hitl-pending"

-----------------------------------------------------------------------------
(* The page. Every interaction runs its script from the top.               *)

\* list_review_queue: an eventually consistent query of the index.
Queue == {c \in Calls : Waits(index[c])}

\* selectbox keeps its choice while its options are the same ones. With other
\* options it is a new widget that shows the first option. An empty queue
\* stops the script.
Rerun(old) ==
    IF Queue = {} THEN {Absent}
    ELSE IF old # Absent /\ old.options = Queue THEN {old}
    ELSE [options : {Queue}, call : Queue]

Open(r) ==
    /\ page[r] = Absent
    /\ Queue # {}
    /\ \E new \in Rerun(Absent) : page' = [page EXCEPT ![r] = new]
    /\ UNCHANGED <<table, index, click, audit>>

Select(r, c) ==
    /\ page[r] # Absent /\ click[r] = Absent
    /\ c \in page[r].options \ {page[r].call}
    /\ \E new \in Rerun([page[r] EXCEPT !.call = c]) :
          page' = [page EXCEPT ![r] = new]
    /\ UNCHANGED <<table, index, click, audit>>

\* Mutant of Chosen: the codes of a record of the queue, whichever is selected.
ChosenOfQueue(button, c) ==
    IF button = "confirm" THEN index[CHOOSE d \in Queue : TRUE].code ELSE Absent

\* What a button writes: "confirm" the codes of the record shown, "save" codes
\* that the flat taxonomy_tree.json leaves without a top-level code.
Chosen(button, c) == IF button = "confirm" THEN index[c].code ELSE Absent

\* A button click reruns the script, and the handler acts on the call that
\* this run shows.
Click(r, button) ==
    /\ page[r] # Absent /\ click[r] = Absent
    /\ \E new \in Rerun(page[r]) :
          /\ page' = [page EXCEPT ![r] = new]
          /\ click' = [click EXCEPT ![r] =
                IF new = Absent THEN Absent
                ELSE [button |-> button, call |-> new.call,
                      code |-> Chosen(button, new.call),
                      shown |-> page[r].call, phase |-> "update"]]
    /\ UNCHANGED <<table, index, audit>>

-----------------------------------------------------------------------------
(* update_correction and update_skip.                                      *)

Decision(r) ==
    [user |-> r, call |-> click[r].call,
     status |-> IF click[r].button = "skip" THEN "hitl-skipped" ELSE "hitl-corrected"]

Updating(r) == click[r] # Absent /\ click[r].phase = "update"

\* Mutant of MayDecide: the row only has to be there.
DecideAnyRow(c) == table[c] # Absent

\* ConditionExpression of update_item.
MayDecide(c) == Waits(table[c])

\* Mutant of Decided: a skip takes the status of its audit action.
DecidedWithStatus(r, row) ==
    [row EXCEPT !.correctedBy = r,
                !.status = IF click[r].button = "skip" THEN "hitl.skip"
                           ELSE "hitl-corrected"]

Decided(r, row) ==
    IF click[r].button = "skip"
    THEN [row EXCEPT !.status = "hitl-skipped", !.correctedBy = r]
    ELSE [row EXCEPT !.status = "hitl-corrected", !.verified = "hitl-corrected",
                     !.correctedBy = r, !.code = click[r].code]

\* UpdateItem takes effect. If its response is lost, boto3 sends it again. The
\* codes of "save" hold a NULL for the key of an index and are never accepted.
Update(r) ==
    /\ Updating(r)
    /\ click[r].button # "save"
    /\ MayDecide(click[r].call)
    /\ table' = [table EXCEPT ![click[r].call] = Decided(r, @)]
    /\ \/ click' = [click EXCEPT ![r].phase = "audit"]
       \/ UNCHANGED click
    /\ UNCHANGED <<index, page, audit>>

\* The handler is done and st.rerun starts over.
EndOfRun(r) ==
    /\ click' = [click EXCEPT ![r] = Absent]
    /\ \E new \in Rerun(page[r]) : page' = [page EXCEPT ![r] = new]

\* Mutant of Refuse: the audit record does not wait for the write to apply.
RefuseAudited(r) ==
    /\ Updating(r)
    /\ ~MayDecide(click[r].call)
    /\ audit' = audit \cup {Decision(r)}
    /\ EndOfRun(r)
    /\ UNCHANGED <<table, index>>

\* AlreadyProcessedError.
Refuse(r) ==
    /\ Updating(r)
    /\ ~MayDecide(click[r].call)
    /\ EndOfRun(r)
    /\ UNCHANGED <<table, index, audit>>

\* Any other ClientError leaves the handler with a traceback on the page.
Crash(r) ==
    /\ Updating(r)
    /\ click' = [click EXCEPT ![r] = Absent]
    /\ UNCHANGED <<table, index, page, audit>>

\* emit_audit: a record, or a line on stdout when the log group fails.
EmitAudit(r) ==
    /\ click[r] # Absent /\ click[r].phase = "audit"
    /\ audit' \in {audit, audit \cup {Decision(r)}}
    /\ EndOfRun(r)
    /\ UNCHANGED <<table, index>>

-----------------------------------------------------------------------------
(* The environment.                                                        *)

\* The global secondary index follows the table.
IndexCatchesUp(c) ==
    /\ index[c] # table[c]
    /\ index' = [index EXCEPT ![c] = table[c]]
    /\ UNCHANGED <<table, page, click, audit>>

\* The one Fargate task is replaced, with the sessions and handlers in it.
TaskRestart ==
    /\ \E r \in Reviewers : page[r] # Absent
    /\ page' = [r \in Reviewers |-> Absent]
    /\ click' = [r \in Reviewers |-> Absent]
    /\ UNCHANGED <<table, index, audit>>

-----------------------------------------------------------------------------

Waiting ==
    [code : Codes, verified : {"hitl-pending"}, status : {"hitl-pending"},
     correctedBy : {Absent}]

ReviewInit ==
    /\ page = [r \in Reviewers |-> Absent]
    /\ click = [r \in Reviewers |-> Absent]
    /\ audit = {}

Init ==
    /\ table \in [Calls -> Waiting]
    /\ index = table
    /\ ReviewInit

\* What the server does by itself once a button is clicked.
Handle(r) == Update(r) \/ Refuse(r) \/ Crash(r) \/ EmitAudit(r)

Next ==
    \/ \E r \in Reviewers :
          \/ Open(r)
          \/ \E c \in Calls : Select(r, c)
          \/ \E button \in Buttons : Click(r, button)
          \/ Handle(r)
    \/ \E c \in Calls : IndexCatchesUp(c)
    \/ TaskRestart

Spec == Init /\ [][Next]_vars

-----------------------------------------------------------------------------
(* Properties.                                                             *)

\* The first decision on a call wins: neither a second reviewer, nor a stale
\* page, nor a repeated UpdateItem changes a decided row.
FirstWriteWins ==
    [][\A c \in Calls : table[c].status \in ReviewerStatus =>
          table'[c] = table[c]]_vars

\* The trail records only effective changes: an audit record names the user
\* and the decision that the row of its call holds.
AuditedIsEffective ==
    \A a \in audit :
        /\ table[a.call].correctedBy = a.user
        /\ table[a.call].status = a.status

\* A decision writes codes of the call it is about: the record that a button
\* takes its codes from and the call that its update names stay one, however
\* the queue, the selection and the index move between page, click and update.
\* As saved codes are never accepted, no decision changes the codes of a row.
CodesOfOwnCall ==
    [][\A c \in Calls : table'[c].code = table[c].code]_vars

-----------------------------------------------------------------------------
(* What the documents say and the code does not do.                        *)

\* hitl-ui design 2.1: a reviewer picks one call, looks at it and then
\* confirms, corrects or skips that call.
DecisionOnShownCall ==
    \A r \in Reviewers : click[r] # Absent => click[r].call = click[r].shown

=============================================================================
