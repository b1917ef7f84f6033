--------------------------- MODULE ClassifyPipeline ---------------------------
(***************************************************************************)
(* The STT classification pipeline: one Step Functions Express execution   *)
(* per EventBridge notification of a raw transcript, its four Lambdas, the *)
(* DynamoDB table consult-results, the Firehose stream and the two DLQs.   *)
(*                                                                         *)
(* Source: infra/modules/classify-pipeline/main.tf (the state machine and  *)
(* its trigger), src/lambdas/{pii_guard,classify,verify,persist}/handler.py*)
(* and src/lib/persistence.py.                                             *)
(***************************************************************************)
EXTENDS Naturals

CONSTANTS
    Calls,          \* callIds: hash keys of the table
    Keys,           \* keys of the *.json objects of the raw bucket
    CallOf,         \* the callId in the payload of each raw object
    Execs,          \* executions; bounds the number of notifications
    Codes,          \* label triples <<dae, jung, so>> of the taxonomy
    Confidences,    \* confidences the model answers with, in percent
    PromptVersions, \* prompt bundles deployed over time
    MaxAttempts,    \* Retry.MaxAttempts of every Task state
    PutAttempts,    \* how often boto3 sends a put_record that gets no answer
    HasFirehose,    \* whether FIREHOSE_NAME is set
    Absent          \* an attribute or a row that does not exist

TaskStates == {"PiiGuard", "Classify", "Verify", "Persist"}
DlqStates  == {"SendToClassifyDlq", "SendToPersistDlq"}
Ended      == {"Succeeded", "Failed", "TimedOut"}
States     == {"NotNotified", "Queued", "Dropped"} \cup TaskStates \cup DlqStates \cup Ended

Threshold == 80  \* NumericLessThan = 0.80

ASSUME CallsAssumption   == CallOf \in [Keys -> Calls]
ASSUME CodesAssumption   == \A code \in Codes : code = [i \in 1..3 |-> code[i]]
ASSUME PercentAssumption == Confidences \subseteq 0..100
ASSUME RetryAssumption   == MaxAttempts \in [TaskStates -> Nat]
ASSUME PutAssumption == PutAttempts \in Nat \ {0}
ASSUME FirehoseAssumption == HasFirehose \in BOOLEAN
ASSUME AbsentAssumption  ==
    /\ Absent \notin Keys
    /\ Absent \notin Codes
    /\ Absent \notin Confidences
    /\ Absent \notin PromptVersions
    /\ Absent \notin BOOLEAN
    /\ Absent \notin {"auto-high", "auto-confirmed", "confirmed", "hitl-pending"}

VARIABLES
    masked,       \* raw keys whose masked text is in the masked bucket
    state,        \* state of each execution
    step,         \* where the Lambda that the execution invoked is
    tries,        \* retries the current Task state has used
    event,        \* JSON document each execution passes along
    table,        \* consult-results: row of each callId
    stream,       \* records each execution put into Firehose
    classifyDlq,  \* executions whose document is in classify-dlq
    persistDlq    \* executions whose document is in persist-dlq

flow == <<state, step, tries>>
dlqs == <<classifyDlq, persistDlq>>
vars == <<masked, state, step, tries, event, table, stream, classifyDlq, persistDlq>>

-----------------------------------------------------------------------------
(* Documents and rows.                                                     *)

Or(S) == S \cup {Absent}

Document ==
    [key : Or(Keys), promptVersion : Or(PromptVersions), code : Or(Codes),
     confidence : Or(Confidences), verifyCode : Or(Codes),
     verified : Or({"auto-high", "auto-confirmed", "hitl-pending"}),
     status : Or({"confirmed", "hitl-pending"}), persisted : Or(BOOLEAN)]

NoDocument ==
    [key |-> Absent, promptVersion |-> Absent, code |-> Absent,
     confidence |-> Absent, verifyCode |-> Absent, verified |-> Absent,
     status |-> Absent, persisted |-> Absent]

\* A row of the table as Persist writes it. "key" is piiMaskedTextRef;
\* correctedBy is an attribute only the review queue sets, so put_item, which
\* replaces the whole item, removes it; "writer" is no attribute: it names the
\* execution that put the row, for the properties only.
Row ==
    [key : Keys, promptVersion : PromptVersions, code : Codes,
     confidence : Confidences,
     verified : {"auto-high", "auto-confirmed", "hitl-pending"},
     status : {"confirmed", "hitl-pending"}, correctedBy : {Absent},
     writer : Execs]

ASSUME RowAssumption == Absent \notin Row

Default(value, default) == IF value = Absent THEN default ELSE value

\* build_ddb_item: the row of a document, with the defaults of event.get.
Item(e) ==
    [key           |-> event[e].key,
     promptVersion |-> Default(event[e].promptVersion, "v1.0"),
     code          |-> event[e].code,
     confidence    |-> event[e].confidence,
     verified      |-> Default(event[e].verified, "auto-high"),
     status        |-> Default(event[e].status, "confirmed"),
     correctedBy   |-> Absent,
     writer        |-> e]

CallId(e) == CallOf[event[e].key]

-----------------------------------------------------------------------------
(* The state machine around a Lambda invocation.                           *)

FirstStep ==
    [PiiGuard |-> "pii_guard", Classify |-> "classify",
     Verify |-> "verify", Persist |-> "put_item"]

Steps == {"idle", "pii_guard", "classify", "verify", "put_item", "put_record"}

\* Mutant of AfterLastRetry: the Catch of Persist swallows the error.
CatchSwallows ==
    [PiiGuard |-> "Failed", Classify |-> "SendToClassifyDlq",
     Verify |-> "Failed", Persist |-> "Succeeded"]

\* Mutant of AfterLastRetry: the Catch of Classify leads back to Classify.
CatchClassifiesAgain ==
    [PiiGuard |-> "Failed", Classify |-> "Classify",
     Verify |-> "Failed", Persist |-> "SendToPersistDlq"]

\* Where an execution goes when a Task has used its retries. Only Classify and
\* Persist have a Catch; PiiGuard and Verify fail the execution.
AfterLastRetry ==
    [PiiGuard |-> "Failed", Classify |-> "SendToClassifyDlq",
     Verify |-> "Failed", Persist |-> "SendToPersistDlq"]

StepIn(next) == IF next \in TaskStates THEN FirstStep[next] ELSE "idle"

Goto(e, next) ==
    /\ state' = [state EXCEPT ![e] = next]
    /\ step' = [step EXCEPT ![e] = StepIn(next)]
    /\ tries' = [tries EXCEPT ![e] = 0]

\* The Lambda answers. The answer of an invocation whose execution has timed
\* out goes nowhere.
Return(e, task, next, doc) ==
    \/ /\ state[e] = task
       /\ Goto(e, next)
       /\ event' = [event EXCEPT ![e] = doc]
    \/ /\ state[e] # task
       /\ step' = [step EXCEPT ![e] = "idle"]
       /\ UNCHANGED <<state, tries, event>>

\* Mutant of Fail: retries are not counted.
RetriesForEver(e) ==
    /\ step' = [step EXCEPT ![e] = StepIn(state[e])]
    /\ UNCHANGED <<state, tries, event>>

\* The invocation fails: an exception, a Lambda timeout or a lost response.
\* The state machine retries with the same input, or gives up.
Fail(e) ==
    /\ \/ /\ state[e] \in TaskStates
          /\ tries[e] < MaxAttempts[state[e]]
          /\ tries' = [tries EXCEPT ![e] = @ + 1]
          /\ step' = [step EXCEPT ![e] = FirstStep[state[e]]]
          /\ UNCHANGED state
       \/ /\ state[e] \in TaskStates
          /\ tries[e] = MaxAttempts[state[e]]
          /\ Goto(e, AfterLastRetry[state[e]])
       \/ /\ state[e] \notin TaskStates
          /\ step' = [step EXCEPT ![e] = "idle"]
          /\ UNCHANGED <<state, tries>>
    /\ UNCHANGED event

-----------------------------------------------------------------------------
(* The trigger.                                                            *)

\* EventBridge owes an execution for raw object k. It does for every upload,
\* it may deliver a notification more than once, an Express execution may be
\* run more than once, and StartExecution carries no execution name, so
\* nothing keeps two executions of k apart.
Notify(e, k) ==
    /\ state[e] = "NotNotified"
    /\ state' = [state EXCEPT ![e] = "Queued"]
    /\ event' = [event EXCEPT ![e] = [NoDocument EXCEPT !.key = k]]
    /\ UNCHANGED <<masked, step, tries, table, stream, dlqs>>

StartExecution(e) ==
    /\ state[e] = "Queued"
    /\ Goto(e, "PiiGuard")
    /\ UNCHANGED <<masked, event, table, stream, dlqs>>

\* EventBridge has not got its notification accepted in 24 hours or 185 tries.
\* The target has neither a retry policy nor a dead letter queue, so it goes.
DropNotification(e) ==
    /\ state[e] = "Queued"
    /\ state' = [state EXCEPT ![e] = "Dropped"]
    /\ UNCHANGED <<masked, step, tries, event, table, stream, dlqs>>

-----------------------------------------------------------------------------
(* The Lambdas.                                                            *)

\* pii_guard: read the raw object, put its masked text, answer. The
\* invocation may still fail once the text is there.
PiiGuard(e) ==
    /\ step[e] = "pii_guard"
    /\ masked' = masked \cup {event[e].key}
    /\ Return(e, "PiiGuard", "Classify", event[e]) \/ Fail(e)
    /\ UNCHANGED <<table, stream, dlqs>>

\* ConfidenceBranch, and MarkAutoHigh on its default branch.
Verifying(doc) == doc.confidence < Threshold

\* Mutant of MarkAutoHigh: the verdict is written to both fields.
MarkBothAutoHigh(doc) ==
    [doc EXCEPT !.verified = "auto-high", !.status = "auto-high"]

MarkAutoHigh(doc) ==
    [doc EXCEPT !.verified = "auto-high", !.status = "confirmed"]

\* classify: read the masked text and ask the primary model; the sandbox
\* answers with the prompt version it was deployed with.
Classify(e) ==
    /\ step[e] = "classify"
    /\ event[e].key \in masked
    /\ \E code \in Codes, confidence \in Confidences, version \in PromptVersions :
          LET doc == [event[e] EXCEPT !.code = code, !.confidence = confidence,
                                      !.promptVersion = version]
          IN \/ Verifying(doc) /\ Return(e, "Classify", "Verify", doc)
             \/ ~Verifying(doc) /\ Return(e, "Classify", "Persist", MarkAutoHigh(doc))
    /\ UNCHANGED <<masked, table, stream, dlqs>>

\* Mutant of SameCodes: only the top level is compared.
SameTopCode(a, b) == a[1] = b[1]

SameCodes(a, b) == \A i \in 1..3 : a[i] = b[i]

CrossVerified(doc, second) ==
    LET verdict == IF SameCodes(doc.code, second)
                   THEN [verified |-> "auto-confirmed", status |-> "confirmed"]
                   ELSE [verified |-> "hitl-pending", status |-> "hitl-pending"]
    IN [doc EXCEPT !.verifyCode = second, !.verified = verdict.verified,
                   !.status = verdict.status]

\* verify: read the masked text again and ask the second model.
Verify(e) ==
    /\ step[e] = "verify"
    /\ event[e].key \in masked
    /\ \E second \in Codes :
          Return(e, "Verify", "Persist", CrossVerified(event[e], second))
    /\ UNCHANGED <<masked, table, stream, dlqs>>

\* Mutants of MayPut: only attribute_not_exists, and the comparison turned
\* round.
PutOnce(e) == table[CallId(e)] = Absent
PutNewVersion(e) ==
    table[CallId(e)] # Absent =>
        table[CallId(e)].promptVersion # Item(e).promptVersion

\* ConditionExpression of put_item.
MayPut(e) ==
    table[CallId(e)] # Absent =>
        table[CallId(e)].promptVersion = Item(e).promptVersion

Persisted(e, outcome) == [event[e] EXCEPT !.persisted = outcome]

\* put_item: the whole item replaces the row.
PutItem(e) ==
    /\ step[e] = "put_item"
    /\ MayPut(e)
    /\ table' = [table EXCEPT ![CallId(e)] = Item(e)]
    /\ UNCHANGED <<masked, stream, dlqs>>

\* persist, up to put_item. The invocation may still fail once the row is
\* there.
PersistRow(e) ==
    /\ PutItem(e)
    /\ \/ /\ HasFirehose
          /\ step' = [step EXCEPT ![e] = "put_record"]
          /\ UNCHANGED <<state, tries, event>>
       \/ /\ ~HasFirehose
          /\ Return(e, "Persist", "Succeeded", Persisted(e, TRUE))
       \/ Fail(e)

\* The response of put_item is lost, and boto3 is going to send it again.
RepeatPut(e) ==
    /\ PutItem(e)
    /\ UNCHANGED <<flow, event>>

\* Mutant of SkipRow: the exception is passed over and persist answers as if
\* it had written.
SkipAsPersisted(e) ==
    /\ step[e] = "put_item"
    /\ ~MayPut(e)
    /\ Return(e, "Persist", "Succeeded", Persisted(e, TRUE))
    /\ UNCHANGED <<masked, table, stream, dlqs>>

\* persist, ConditionalCheckFailedException: the row of another prompt
\* version stays, the invocation answers persisted = False.
SkipRow(e) ==
    /\ step[e] = "put_item"
    /\ ~MayPut(e)
    /\ Return(e, "Persist", "Succeeded", Persisted(e, FALSE))
    /\ UNCHANGED <<masked, table, stream, dlqs>>

\* persist, put_record and the answer. While no answer comes, or a 5xx, boto3
\* sends the record again, and Firehose may have taken each of them.
PublishRow(e) ==
    /\ step[e] = "put_record"
    /\ \E taken \in 1..PutAttempts : stream' = [stream EXCEPT ![e] = @ + taken]
    /\ Return(e, "Persist", "Succeeded", Persisted(e, TRUE)) \/ Fail(e)
    /\ UNCHANGED <<masked, table, dlqs>>

\* Any invocation fails before its next effect.
LambdaFails(e) ==
    /\ step[e] # "idle"
    /\ Fail(e)
    /\ UNCHANGED <<masked, table, stream, dlqs>>

-----------------------------------------------------------------------------
(* The other ends of an execution.                                         *)

\* sqs:sendMessage, with neither Retry nor Catch. Delivered, the execution
\* succeeds, or fails when the response is lost.
SendToClassifyDlq(e) ==
    /\ state[e] = "SendToClassifyDlq"
    /\ \/ /\ classifyDlq' = classifyDlq \cup {e}
          /\ Goto(e, "Succeeded") \/ Goto(e, "Failed")
       \/ /\ Goto(e, "Failed")
          /\ UNCHANGED classifyDlq
    /\ UNCHANGED <<masked, event, table, stream, persistDlq>>

SendToPersistDlq(e) ==
    /\ state[e] = "SendToPersistDlq"
    /\ \/ /\ persistDlq' = persistDlq \cup {e}
          /\ Goto(e, "Succeeded") \/ Goto(e, "Failed")
       \/ /\ Goto(e, "Failed")
          /\ UNCHANGED persistDlq
    /\ UNCHANGED <<masked, event, table, stream, classifyDlq>>

\* The five minutes of an Express execution are over. The Lambda it invoked,
\* if any, goes on.
ExecutionTimesOut(e) ==
    /\ state[e] \in TaskStates \cup DlqStates
    /\ state' = [state EXCEPT ![e] = "TimedOut"]
    /\ UNCHANGED <<masked, step, tries, event, table, stream, dlqs>>

-----------------------------------------------------------------------------

Init ==
    /\ masked = {}
    /\ state = [e \in Execs |-> "NotNotified"]
    /\ step = [e \in Execs |-> "idle"]
    /\ tries = [e \in Execs |-> 0]
    /\ event = [e \in Execs |-> NoDocument]
    /\ table = [c \in Calls |-> Absent]
    /\ stream = [e \in Execs |-> 0]
    /\ classifyDlq = {}
    /\ persistDlq = {}

LambdaStep(e) ==
    \/ PiiGuard(e) \/ Classify(e) \/ Verify(e)
    \/ PersistRow(e) \/ SkipRow(e) \/ PublishRow(e)
    \/ LambdaFails(e)

\* What AWS carries out by itself once an execution has started.
Progress(e) ==
    \/ LambdaStep(e)
    \/ SendToClassifyDlq(e) \/ SendToPersistDlq(e)

Next ==
    \E e \in Execs :
        \/ \E k \in Keys : Notify(e, k)
        \/ StartExecution(e) \/ DropNotification(e)
        \/ Progress(e)
        \/ RepeatPut(e)
        \/ ExecutionTimesOut(e)

Spec == Init /\ [][Next]_vars

\* A Lambda ends or is killed at its own timeout, boto3 gives up repeating
\* before that, and the state machine then moves on. Nothing is assumed of
\* EventBridge.
FairSpec == Spec /\ \A e \in Execs : WF_vars(Progress(e))

-----------------------------------------------------------------------------
(* Properties.                                                             *)

\* All but the table, whose rows others may rewrite.
FlowTypeOK ==
    /\ masked \subseteq Keys
    /\ state \in [Execs -> States]
    /\ step \in [Execs -> Steps]
    /\ tries \in [Execs -> Nat]
    /\ event \in [Execs -> Document]
    /\ stream \in [Execs -> Nat]
    /\ classifyDlq \subseteq Execs
    /\ persistDlq \subseteq Execs

TypeOK ==
    /\ FlowTypeOK
    /\ table \in [Calls -> Or(Row)]

\* What a verdict must be, given the confidence of the primary model and the
\* answer of the second one.
VerdictFits(row, second) ==
    /\ row.verified = "auto-high" <=> row.confidence >= Threshold
    /\ row.verified = "auto-confirmed" <=>
           row.confidence < Threshold /\ second = row.code
    /\ row.verified = "hitl-pending" <=>
           row.confidence < Threshold /\ second # row.code
    /\ row.status = "hitl-pending" <=> row.verified = "hitl-pending"

\* Every row is the outcome of one single execution on a transcript of that
\* call, and it is confirmed without a reviewer exactly when the model was
\* sure or the second model agreed on all three codes: no retry, duplicate
\* notification or late Lambda mixes two executions or lets a default of
\* build_ddb_item confirm a call that nobody verified.
RowJustified ==
    \A c \in Calls : table[c] # Absent =>
        /\ CallOf[table[c].key] = c
        /\ table[c] = Item(table[c].writer)
        /\ VerdictFits(table[c], event[table[c].writer].verifyCode)

\* An execution that answers persisted = False has put neither the row nor an
\* analytics record in any of its attempts: a retried Persist never finds its
\* own earlier row to be a conflict.
SkipLeavesNoTrace ==
    \A e \in Execs : event[e].persisted = FALSE =>
        /\ stream[e] = 0
        /\ table[CallId(e)] # Absent
        /\ table[CallId(e)].writer # e

\* An execution that Step Functions reports as succeeded has left its call
\* in exactly one place: its document in a DLQ, or, if it answered, a row of
\* its prompt version and an analytics record, or an older row of another
\* prompt version.
SuccessAccounted ==
    \A e \in Execs : state[e] = "Succeeded" =>
        \/ /\ e \in classifyDlq \cup persistDlq
           /\ event[e].persisted = Absent
           /\ e \in classifyDlq => stream[e] = 0
        \/ /\ e \notin classifyDlq \cup persistDlq
           /\ table[CallId(e)] # Absent
           /\ event[e].persisted =
                  (table[CallId(e)].promptVersion = event[e].promptVersion)
           /\ event[e].persisted /\ HasFirehose => stream[e] > 0

\* A row that analytics never got a record of is traceable: the execution
\* that wrote it is still at Persist, or its document went to the persist
\* DLQ, or the execution failed or timed out.
UnpublishedRowTraceable ==
    HasFirehose =>
        \A c \in Calls : table[c] # Absent /\ stream[table[c].writer] = 0 =>
            \/ state[table[c].writer] \in
                   {"Persist", "SendToPersistDlq", "Failed", "TimedOut"}
            \/ table[c].writer \in persistDlq

\* Analytics gets no more records of an execution than its attempts of Persist
\* have sent, the repetitions of boto3 included: a Lambda that outlives its
\* execution does not add an attempt to those that Retry allows.
BoundedDuplicates ==
    \A e \in Execs : stream[e] <= (MaxAttempts["Persist"] + 1) * PutAttempts

\* The row of a call never changes its prompt version and never goes away:
\* the older record is preserved, whatever executions run again later.
PromptVersionPreserved ==
    [][\A c \in Calls : table[c] # Absent =>
          /\ table'[c] # Absent
          /\ table'[c].promptVersion = table[c].promptVersion]_vars

\* Every execution that has started ends, however its attempts fail and even
\* without the five minutes of Express, and leaves no Lambda that runs on.
EveryExecutionEnds ==
    \A e \in Execs :
        state[e] \in TaskStates \cup DlqStates
            ~> state[e] \in Ended /\ step[e] = "idle"

-----------------------------------------------------------------------------
(* The pipeline implements the ledger of calls.                            *)

Entry(row) ==
    IF row = Absent THEN Absent
    ELSE [promptVersion |-> row.promptVersion, status |-> row.status]

Ledger == INSTANCE CallLedger WITH ledger <- [c \in Calls |-> Entry(table[c])]

ASSUME EntryAssumption == Absent \notin Ledger!Entries

\* Seen through the prompt version and the status of its rows, the table is a
\* ledger that records a call once and then only reclassifies it under the
\* same prompt version.
ImplementsLedger == Ledger!Spec

=============================================================================
