------------------------ MODULE ClassifyPipelineProofs ------------------------
(***************************************************************************)
(* Machine-checked properties of ClassifyPipeline, for any number of       *)
(* calls, executions and retries.                                          *)
(***************************************************************************)
EXTENDS ClassifyPipeline, TLAPS

LEMMA AbsentDistinct ==
    /\ Absent \notin Keys
    /\ Absent \notin Codes
    /\ Absent \notin Confidences
    /\ Absent \notin PromptVersions
    /\ Absent # TRUE /\ Absent # FALSE
    /\ Absent \notin {"auto-high", "auto-confirmed", "confirmed", "hitl-pending"}
  BY AbsentAssumption

\* The operators of the state machine keep the types of what they change.
LEMMA GotoType ==
  ASSUME FlowTypeOK, NEW e \in Execs, NEW next \in States, Goto(e, next)
  PROVE  /\ state' \in [Execs -> States]
         /\ step' \in [Execs -> Steps]
         /\ tries' \in [Execs -> Nat]
  BY DEF FlowTypeOK, Goto, StepIn, Steps, FirstStep, TaskStates

LEMMA ReturnType ==
  ASSUME FlowTypeOK, NEW e \in Execs, NEW task, NEW next \in States,
         NEW doc \in Document, Return(e, task, next, doc)
  PROVE  /\ state' \in [Execs -> States]
         /\ step' \in [Execs -> Steps]
         /\ tries' \in [Execs -> Nat]
         /\ event' \in [Execs -> Document]
<1>1. CASE state[e] = task /\ Goto(e, next) /\ event' = [event EXCEPT ![e] = doc]
  BY <1>1, GotoType DEF FlowTypeOK
<1>2. CASE state[e] # task /\ step' = [step EXCEPT ![e] = "idle"]
           /\ UNCHANGED <<state, tries, event>>
  BY <1>2 DEF FlowTypeOK, Steps
<1>3. QED BY <1>1, <1>2 DEF Return

LEMMA FailType ==
  ASSUME FlowTypeOK, NEW e \in Execs, Fail(e)
  PROVE  /\ state' \in [Execs -> States]
         /\ step' \in [Execs -> Steps]
         /\ tries' \in [Execs -> Nat]
         /\ event' \in [Execs -> Document]
<1>1. event' \in [Execs -> Document]
  BY DEF Fail, FlowTypeOK
<1>2. CASE /\ state[e] \in TaskStates
           /\ tries' = [tries EXCEPT ![e] = @ + 1]
           /\ step' = [step EXCEPT ![e] = FirstStep[state[e]]]
           /\ UNCHANGED state
  BY <1>1, <1>2 DEF FlowTypeOK, Steps, FirstStep, TaskStates
<1>3. CASE state[e] \in TaskStates /\ Goto(e, AfterLastRetry[state[e]])
  <2>1. AfterLastRetry[state[e]] \in States
    BY <1>3 DEF AfterLastRetry, States, TaskStates, Ended, DlqStates
  <2>2. QED BY <1>1, <1>3, <2>1, GotoType
<1>4. CASE step' = [step EXCEPT ![e] = "idle"] /\ UNCHANGED <<state, tries>>
  BY <1>1, <1>4 DEF FlowTypeOK, Steps
<1>5. QED BY <1>2, <1>3, <1>4 DEF Fail

-----------------------------------------------------------------------------
(* The inductive invariant.                                                *)

Early == {"NotNotified", "Queued", "Dropped", "PiiGuard", "Classify", "Verify"}

\* Which Lambda runs in which state; only a timed-out execution has one that
\* does not belong to its state.
Owned ==
    [PiiGuard |-> {"pii_guard"}, Classify |-> {"classify"},
     Verify |-> {"verify"}, Persist |-> {"put_item", "put_record"}]

Classified(doc) ==
    /\ doc.key \in Keys
    /\ doc.code \in Codes
    /\ doc.confidence \in Confidences
    /\ doc.promptVersion \in PromptVersions

Decided(doc) ==
    /\ Classified(doc)
    /\ doc.verified # Absent
    /\ doc.status # Absent
    /\ VerdictFits(doc, doc.verifyCode)

\* The Lambda and the document of an execution at each state of the flow.
Fits(s, t, doc) ==
    /\ s \in TaskStates => t \in Owned[s]
    /\ s \notin TaskStates \cup {"TimedOut"} => t = "idle"
    /\ s # "NotNotified" => doc.key \in Keys
    /\ s = "Verify" => Classified(doc) /\ doc.confidence < Threshold
    /\ s = "Persist" \/ t \in {"put_item", "put_record"} => Decided(doc)
    /\ doc.persisted # Absent => s = "Succeeded"

FlowFits == \A e \in Execs : Fits(state[e], step[e], event[e])

\* Only calls have rows. A row belongs to an execution for its call whose
\* document no longer changes, and carries the prompt version of it.
RowsOwned ==
    /\ table = [c \in Calls |-> table[c]]
    /\ \A c \in Calls : table[c] # Absent =>
          /\ table[c].writer \in Execs
          /\ state[table[c].writer] \notin Early
          /\ Decided(event[table[c].writer])
          /\ CallId(table[c].writer) = c
          /\ table[c].promptVersion = event[table[c].writer].promptVersion

\* Whatever was published has a row of its prompt version.
PublishedHasRow ==
    \A e \in Execs :
        stream[e] > 0 \/ step[e] = "put_record" \/ event[e].persisted = TRUE =>
            /\ state[e] \notin Early
            /\ event[e].key \in Keys
            /\ table[CallId(e)] # Absent
            /\ table[CallId(e)].promptVersion = event[e].promptVersion

\* Whatever was skipped has a row of another prompt version.
SkippedHasRow ==
    \A e \in Execs : event[e].persisted = FALSE =>
        /\ table[CallId(e)] # Absent
        /\ table[CallId(e)].promptVersion # event[e].promptVersion

\* The part of the invariant that survives whoever else updates a row, as
\* long as its writer and its prompt version stay.
EInv ==
    /\ FlowTypeOK
    /\ FlowFits
    /\ RowsOwned
    /\ PublishedHasRow
    /\ SkippedHasRow

\* Without reviewers, a row is the whole item of its execution.
RowsWritten ==
    \A c \in Calls : table[c] # Absent => table[c] = Item(table[c].writer)

IInv ==
    /\ EInv
    /\ TypeOK
    /\ RowsWritten

-----------------------------------------------------------------------------
(* Type correctness.                                                       *)

LEMMA InitInv == Init => IInv
<1> SUFFICES ASSUME Init PROVE IInv
  OBVIOUS
<1>1. /\ \A e \in Execs : state[e] = "NotNotified" /\ step[e] = "idle" /\ stream[e] = 0
      /\ \A e \in Execs : event[e].persisted = Absent
      /\ \A c \in Calls : table[c] = Absent
  BY DEF Init, NoDocument
<1>2. TypeOK
  BY DEF Init, TypeOK, FlowTypeOK, States, Steps, Document, NoDocument, Or
<1>3. FlowFits /\ RowsOwned /\ RowsWritten
  <2>1. table = [c \in Calls |-> table[c]]
    BY DEF Init
  <2>2. QED BY <1>1, <2>1 DEF FlowFits, Fits, RowsOwned, RowsWritten, TaskStates
<1>4. PublishedHasRow
  <2> SUFFICES ASSUME NEW e \in Execs
               PROVE ~(stream[e] > 0 \/ step[e] = "put_record" \/ event[e].persisted = TRUE)
    BY DEF PublishedHasRow
  <2>1. stream[e] = 0 /\ step[e] = "idle" /\ event[e].persisted = Absent
    BY <1>1
  <2>2. ~(stream[e] > 0) /\ step[e] # "put_record"
    BY <2>1
  <2>3. event[e].persisted # TRUE
    BY <2>1, AbsentDistinct
  <2>4. QED BY <2>2, <2>3
<1>5. SkippedHasRow
  BY <1>1, AbsentDistinct DEF SkippedHasRow
<1>6. QED BY <1>2, <1>3, <1>4, <1>5 DEF IInv, EInv, TypeOK

\* An execution that invokes a Lambda knows its raw object.
LEMMA KeyKnown ==
  ASSUME FlowFits, NEW e \in Execs, step[e] # "idle"
  PROVE  event[e].key \in Keys
  BY DEF FlowFits, Fits, TaskStates

LEMMA ItemType ==
  ASSUME EInv, NEW e \in Execs, step[e] = "put_item"
  PROVE  Item(e) \in Row /\ CallId(e) \in Calls
<1>1. Decided(event[e]) /\ event[e] \in Document
  BY DEF EInv, FlowTypeOK, FlowFits, Fits
<1>2. /\ event[e].verified \in {"auto-high", "auto-confirmed", "hitl-pending"}
      /\ event[e].status \in {"confirmed", "hitl-pending"}
  BY <1>1 DEF Decided, Document, Or
<1>3. Item(e) \in Row
  BY <1>1, <1>2, AbsentDistinct DEF Item, Row, Decided, Classified, Default
<1>4. CallId(e) \in Calls
  BY <1>1, CallsAssumption DEF Decided, Classified, CallId
<1>5. QED BY <1>3, <1>4

LEMMA ItemNotAbsent ==
  ASSUME NEW row \in Row
  PROVE  row # Absent
  BY RowAssumption

LEMMA ClassifyType ==
  ASSUME FlowTypeOK, NEW e \in Execs, NEW code \in Codes, NEW confidence \in Confidences,
         NEW version \in PromptVersions
  PROVE  LET doc == [event[e] EXCEPT !.code = code, !.confidence = confidence,
                                     !.promptVersion = version]
         IN doc \in Document /\ MarkAutoHigh(doc) \in Document
  BY DEF FlowTypeOK, Document, Or, MarkAutoHigh

LEMMA VerifyType ==
  ASSUME FlowTypeOK, NEW e \in Execs, NEW second \in Codes
  PROVE  CrossVerified(event[e], second) \in Document
<1>1. event[e] \in Document
  BY DEF FlowTypeOK
<1>2. CASE SameCodes(event[e].code, second)
  BY <1>1, <1>2 DEF Document, Or, CrossVerified
<1>3. CASE ~SameCodes(event[e].code, second)
  BY <1>1, <1>3 DEF Document, Or, CrossVerified
<1>4. QED BY <1>2, <1>3

LEMMA PersistedType ==
  ASSUME FlowTypeOK, NEW e \in Execs, NEW outcome \in BOOLEAN
  PROVE  Persisted(e, outcome) \in Document
  BY DEF FlowTypeOK, Document, Or, Persisted

LEMMA FlowTypeStep == EInv /\ [Next]_vars => FlowTypeOK'
<1> SUFFICES ASSUME EInv, [Next]_vars PROVE FlowTypeOK'
  OBVIOUS
<1>t. FlowTypeOK
  BY DEF EInv
<1>s. TaskStates \cup Ended \cup DlqStates \subseteq States
  BY DEF States
<1>1. ASSUME NEW e \in Execs, NEW k \in Keys, Notify(e, k) PROVE FlowTypeOK'
  BY <1>1, <1>t DEF FlowTypeOK, Notify, dlqs, States, Document, NoDocument, Or
<1>2. ASSUME NEW e \in Execs, StartExecution(e) PROVE FlowTypeOK'
  <2>1. "PiiGuard" \in States
    BY DEF States, TaskStates
  <2>2. QED BY <1>2, <1>t, <2>1, GotoType DEF FlowTypeOK, StartExecution, dlqs
<1>3. ASSUME NEW e \in Execs, PiiGuard(e) PROVE FlowTypeOK'
  <2>1. "Classify" \in States /\ event[e] \in Document
    BY <1>t DEF States, TaskStates, FlowTypeOK
  <2>2. masked' \subseteq Keys
    BY <1>3, <1>t, KeyKnown DEF EInv, PiiGuard, FlowTypeOK
  <2>3. QED BY <1>3, <1>t, <2>1, <2>2, ReturnType, FailType DEF FlowTypeOK, PiiGuard, dlqs
<1>4. ASSUME NEW e \in Execs, Classify(e) PROVE FlowTypeOK'
  <2>1. {"Verify", "Persist"} \subseteq States
    BY DEF States, TaskStates
  <2>2. PICK code \in Codes, confidence \in Confidences, version \in PromptVersions :
           LET doc == [event[e] EXCEPT !.code = code, !.confidence = confidence,
                                       !.promptVersion = version]
           IN \/ Return(e, "Classify", "Verify", doc)
              \/ Return(e, "Classify", "Persist", MarkAutoHigh(doc))
    BY <1>4 DEF Classify
  <2>3. QED BY <1>4, <1>t, <2>1, <2>2, ReturnType, ClassifyType DEF FlowTypeOK, Classify, dlqs
<1>5. ASSUME NEW e \in Execs, Verify(e) PROVE FlowTypeOK'
  <2>1. "Persist" \in States
    BY DEF States, TaskStates
  <2>2. QED BY <1>5, <1>t, <2>1, ReturnType, VerifyType DEF FlowTypeOK, Verify, dlqs
<1>6. ASSUME NEW e \in Execs, PersistRow(e) PROVE FlowTypeOK'
  <2>1. "Succeeded" \in States
    BY DEF States, Ended
  <2>2. CASE step' = [step EXCEPT ![e] = "put_record"] /\ UNCHANGED <<state, tries, event>>
    BY <1>6, <1>t, <2>2 DEF FlowTypeOK, PersistRow, PutItem, dlqs, Steps
  <2>3. CASE Return(e, "Persist", "Succeeded", Persisted(e, TRUE)) \/ Fail(e)
    BY <1>6, <1>t, <2>1, <2>3, PersistedType, ReturnType, FailType
       DEF FlowTypeOK, PersistRow, PutItem, dlqs
  <2>4. QED BY <1>6, <2>2, <2>3 DEF PersistRow
<1>7. ASSUME NEW e \in Execs, SkipRow(e) PROVE FlowTypeOK'
  <2>1. "Succeeded" \in States
    BY DEF States, Ended
  <2>2. QED BY <1>7, <1>t, <2>1, PersistedType, ReturnType DEF FlowTypeOK, SkipRow, dlqs
<1>8. ASSUME NEW e \in Execs, PublishRow(e) PROVE FlowTypeOK'
  <2>1. "Succeeded" \in States
    BY DEF States, Ended
  <2>2. stream' \in [Execs -> Nat]
    <3>1. PICK taken \in 1..PutAttempts : stream' = [stream EXCEPT ![e] = @ + taken]
      BY <1>8 DEF PublishRow
    <3>2. taken \in Nat
      BY PutAssumption
    <3>3. QED BY <1>t, <3>1, <3>2 DEF FlowTypeOK
  <2>3. QED BY <1>8, <1>t, <2>1, <2>2, PersistedType, ReturnType, FailType
               DEF FlowTypeOK, PublishRow, dlqs
<1>9. ASSUME NEW e \in Execs, LambdaFails(e) PROVE FlowTypeOK'
  BY <1>9, <1>t, FailType DEF FlowTypeOK, LambdaFails, dlqs
<1>10. ASSUME NEW e \in Execs, SendToClassifyDlq(e) \/ SendToPersistDlq(e) PROVE FlowTypeOK'
  <2>1. {"Succeeded", "Failed"} \subseteq States
    BY DEF States, Ended
  <2>2. Goto(e, "Succeeded") \/ Goto(e, "Failed")
    BY <1>10 DEF SendToClassifyDlq, SendToPersistDlq
  <2>3. QED BY <1>10, <1>t, <2>1, <2>2, GotoType
               DEF FlowTypeOK, SendToClassifyDlq, SendToPersistDlq
<1>11. ASSUME NEW e \in Execs, ExecutionTimesOut(e) PROVE FlowTypeOK'
  BY <1>11, <1>t DEF FlowTypeOK, ExecutionTimesOut, dlqs, States, Ended
<1>12. ASSUME NEW e \in Execs, DropNotification(e) \/ RepeatPut(e) PROVE FlowTypeOK'
  BY <1>12, <1>t DEF FlowTypeOK, DropNotification, RepeatPut, PutItem, flow, dlqs, States
<1>13. CASE UNCHANGED vars
  BY <1>13, <1>t DEF FlowTypeOK, vars
<1>14. QED
  BY <1>1, <1>2, <1>3, <1>4, <1>5, <1>6, <1>7, <1>8, <1>9, <1>10, <1>11, <1>12, <1>13
  DEF Next, Progress, LambdaStep

-----------------------------------------------------------------------------
(* The flow of an execution.                                               *)

\* The documents of one execution before and after its Persist answers.
SameVerdict(old, new) ==
    /\ old.key = new.key
    /\ old.promptVersion = new.promptVersion
    /\ old.code = new.code
    /\ old.confidence = new.confidence
    /\ old.verifyCode = new.verifyCode
    /\ old.verified = new.verified
    /\ old.status = new.status

\* What a step does to one execution: it stays in the flow, and past Early
\* its document is frozen.
Flows(e) ==
    /\ Fits(state'[e], step'[e], event'[e])
    /\ state[e] \notin Early =>
          state'[e] \notin Early /\ SameVerdict(event[e], event'[e])

LEMMA GotoFlows ==
  ASSUME FlowTypeOK, NEW e \in Execs, NEW next \in States, Goto(e, next),
         Fits(next, StepIn(next), event'[e]),
         state[e] \notin Early =>
             next \notin Early /\ SameVerdict(event[e], event'[e])
  PROVE  Flows(e)
  BY DEF FlowTypeOK, Goto, Flows

\* An invocation that is not its execution's current Task is a late one.
LEMMA LateInvocation ==
  ASSUME FlowFits, NEW e \in Execs, NEW task \in TaskStates,
         step[e] \in Owned[task], state[e] # task
  PROVE  state[e] = "TimedOut"
  BY DEF FlowFits, Fits, Owned, TaskStates

LEMMA LateFlows ==
  ASSUME FlowTypeOK, FlowFits, NEW e \in Execs, state[e] = "TimedOut",
         step' = [step EXCEPT ![e] = "idle"], UNCHANGED <<state, event>>
  PROVE  Flows(e)
<1>1. state'[e] = "TimedOut" /\ step'[e] = "idle" /\ event'[e] = event[e]
  BY DEF FlowTypeOK
<1>2. Fits("TimedOut", "idle", event[e])
  BY DEF FlowFits, Fits, TaskStates
<1>3. QED BY <1>1, <1>2 DEF Flows, SameVerdict

LEMMA ReturnFlows ==
  ASSUME FlowTypeOK, FlowFits, NEW e \in Execs, NEW task \in TaskStates,
         NEW next \in States, NEW doc, Return(e, task, next, doc),
         step[e] \in Owned[task],
         state[e] = task => Fits(next, StepIn(next), doc),
         state[e] = task /\ task \notin Early =>
             next \notin Early /\ SameVerdict(event[e], doc)
  PROVE  Flows(e)
<1>1. CASE state[e] = task /\ Goto(e, next) /\ event' = [event EXCEPT ![e] = doc]
  <2>1. event'[e] = doc
    BY <1>1 DEF FlowTypeOK
  <2>2. QED BY <1>1, <2>1, GotoFlows
<1>2. CASE /\ state[e] # task
           /\ step' = [step EXCEPT ![e] = "idle"]
           /\ UNCHANGED <<state, event>>
  BY <1>2, LateInvocation, LateFlows
<1>3. QED BY <1>1, <1>2 DEF Return

LEMMA FailFlows ==
  ASSUME FlowTypeOK, FlowFits, NEW e \in Execs, Fail(e), step[e] # "idle"
  PROVE  Flows(e)
<1>1. /\ Fits(state[e], step[e], event[e])
      /\ event'[e] = event[e]
      /\ event[e].key \in Keys
  BY KeyKnown DEF FlowFits, Fail
<1>2. CASE /\ state[e] \in TaskStates
           /\ step' = [step EXCEPT ![e] = FirstStep[state[e]]]
           /\ UNCHANGED state
  <2>1. state'[e] = state[e] /\ step'[e] = FirstStep[state[e]]
    BY <1>2 DEF FlowTypeOK
  <2>2. FirstStep[state[e]] \in Owned[state[e]]
    BY <1>2 DEF FirstStep, Owned, TaskStates
  <2>3. Fits(state[e], FirstStep[state[e]], event[e])
    BY <1>1, <1>2, <2>2 DEF Fits, FirstStep, TaskStates
  <2>4. QED BY <1>1, <2>1, <2>3 DEF Flows, SameVerdict
<1>3. CASE state[e] \in TaskStates /\ Goto(e, AfterLastRetry[state[e]])
  <2> DEFINE next == AfterLastRetry[state[e]]
  <2>1. /\ next \in {"Failed", "SendToClassifyDlq", "SendToPersistDlq"}
        /\ next \in States
        /\ next \notin Early
        /\ StepIn(next) = "idle"
    BY <1>3 DEF AfterLastRetry, States, TaskStates, Ended, DlqStates, Early, StepIn
  <2>2. event[e].persisted = Absent
    BY <1>1, <1>3 DEF Fits, TaskStates
  <2>3. Fits(next, StepIn(next), event'[e])
    BY <1>1, <2>1, <2>2 DEF Fits, TaskStates
  <2>4. QED BY <1>1, <1>3, <2>1, <2>3, GotoFlows DEF SameVerdict
<1>4. CASE state[e] \notin TaskStates /\ step' = [step EXCEPT ![e] = "idle"]
           /\ UNCHANGED state
  <2>1. state[e] = "TimedOut"
    BY <1>1, <1>4 DEF Fits
  <2>2. QED BY <1>4, <2>1, LateFlows DEF Fail
<1>5. QED BY <1>2, <1>3, <1>4 DEF Fail

\* The verdicts that ConfidenceBranch and verify write fit.
LEMMA AutoHighDecided ==
  ASSUME NEW doc \in Document, Classified(doc), ~Verifying(doc)
  PROVE  Decided(MarkAutoHigh(doc))
<1>1. doc.confidence \in 0..100
  BY PercentAssumption DEF Classified
<1>2. /\ MarkAutoHigh(doc).confidence = doc.confidence
      /\ MarkAutoHigh(doc).verified = "auto-high"
      /\ MarkAutoHigh(doc).status = "confirmed"
      /\ Classified(MarkAutoHigh(doc))
  BY DEF MarkAutoHigh, Document, Classified
<1>3. doc.confidence >= Threshold /\ ~(doc.confidence < Threshold)
  BY <1>1 DEF Verifying, Threshold
<1>4. QED BY <1>2, <1>3, AbsentDistinct DEF Decided, VerdictFits

LEMMA SameCodesEqual ==
  ASSUME NEW a \in Codes, NEW b \in Codes
  PROVE  SameCodes(a, b) <=> a = b
<1>1. a = [i \in 1..3 |-> a[i]] /\ b = [i \in 1..3 |-> b[i]]
  BY CodesAssumption
<1>2. QED BY <1>1 DEF SameCodes

LEMMA CrossVerifiedDecided ==
  ASSUME NEW doc \in Document, Classified(doc), doc.confidence < Threshold,
         NEW second \in Codes
  PROVE  Decided(CrossVerified(doc, second))
<1> DEFINE new == CrossVerified(doc, second)
<1>0. doc.confidence \in 0..100
  BY PercentAssumption DEF Classified
<1>1. ~(doc.confidence >= Threshold)
  BY <1>0 DEF Threshold
<1>2. SameCodes(doc.code, second) <=> doc.code = second
  BY SameCodesEqual DEF Classified
<1>3. CASE doc.code = second
  <2>1. /\ new.verified = "auto-confirmed" /\ new.status = "confirmed"
        /\ new.verifyCode = second /\ new.code = doc.code
        /\ new.confidence = doc.confidence /\ Classified(new)
    BY <1>2, <1>3 DEF CrossVerified, Document, Classified
  <2>2. QED BY <1>1, <1>3, <2>1, AbsentDistinct DEF Decided, VerdictFits
<1>4. CASE doc.code # second
  <2>1. /\ new.verified = "hitl-pending" /\ new.status = "hitl-pending"
        /\ new.verifyCode = second /\ new.code = doc.code
        /\ new.confidence = doc.confidence /\ Classified(new)
    BY <1>2, <1>4 DEF CrossVerified, Document, Classified
  <2>2. QED BY <1>1, <1>4, <2>1, AbsentDistinct DEF Decided, VerdictFits
<1>5. QED BY <1>3, <1>4

\* Each action keeps the execution it belongs to in the flow.
LEMMA LambdaFlows ==
  ASSUME FlowTypeOK, FlowFits, NEW e \in Execs, LambdaStep(e)
  PROVE  Flows(e)
<1> DEFINE doc == event[e]
<1>1. /\ doc \in Document
      /\ Fits(state[e], step[e], doc)
      /\ {"Classify", "Verify", "Persist", "Succeeded"} \subseteq States
      /\ {"PiiGuard", "Classify", "Verify", "Persist"} \subseteq TaskStates
  BY DEF FlowTypeOK, FlowFits, States, TaskStates, Ended
<1>2. ASSUME step[e] # "idle", Fail(e) PROVE Flows(e)
  BY <1>2, FailFlows
<1>3. ASSUME step[e] = "pii_guard", Return(e, "PiiGuard", "Classify", doc)
      PROVE  Flows(e)
  <2>1. state[e] = "PiiGuard" => Fits("Classify", StepIn("Classify"), doc)
    BY <1>1 DEF Fits, StepIn, FirstStep, Owned, TaskStates
  <2>2. step[e] \in Owned["PiiGuard"] /\ "PiiGuard" \in Early
    BY <1>3 DEF Owned, Early
  <2>3. QED BY <1>1, <1>3, <2>1, <2>2, ReturnFlows
<1>4. ASSUME Classify(e) PROVE Flows(e)
  <2>1. PICK code \in Codes, confidence \in Confidences, version \in PromptVersions :
           LET new == [doc EXCEPT !.code = code, !.confidence = confidence,
                                  !.promptVersion = version]
           IN \/ Verifying(new) /\ Return(e, "Classify", "Verify", new)
              \/ ~Verifying(new) /\ Return(e, "Classify", "Persist", MarkAutoHigh(new))
    BY <1>4 DEF Classify
  <2> DEFINE new == [doc EXCEPT !.code = code, !.confidence = confidence,
                                !.promptVersion = version]
  <2>2. /\ step[e] = "classify" /\ step[e] \in Owned["Classify"]
        /\ "Classify" \in Early
        /\ doc.key \in Keys
    BY <1>4, KeyKnown DEF Classify, Owned, Early
  <2>3. /\ new \in Document
        /\ Classified(new)
        /\ new.persisted = doc.persisted
    BY <1>1, <2>2 DEF Document, Or, Classified
  <2>4. CASE Verifying(new) /\ Return(e, "Classify", "Verify", new)
    <3>1. state[e] = "Classify" => Fits("Verify", StepIn("Verify"), new)
      <4> SUFFICES ASSUME state[e] = "Classify"
                   PROVE  Fits("Verify", StepIn("Verify"), new)
        OBVIOUS
      <4>1. new.persisted = Absent
        BY <1>1, <2>3 DEF Fits
      <4>2. new.confidence < Threshold /\ new.key \in Keys
        BY <2>3, <2>4 DEF Verifying, Classified
      <4>3. QED BY <2>3, <4>1, <4>2 DEF Fits, StepIn, FirstStep, Owned, TaskStates
    <3>2. QED BY <1>1, <2>2, <2>4, <3>1, ReturnFlows
  <2>5. CASE ~Verifying(new) /\ Return(e, "Classify", "Persist", MarkAutoHigh(new))
    <3>1. state[e] = "Classify" => Fits("Persist", StepIn("Persist"), MarkAutoHigh(new))
      <4> SUFFICES ASSUME state[e] = "Classify"
                   PROVE  Fits("Persist", StepIn("Persist"), MarkAutoHigh(new))
        OBVIOUS
      <4>1. MarkAutoHigh(new).persisted = Absent
        BY <1>1, <2>3 DEF Fits, MarkAutoHigh, Document
      <4>2. Decided(MarkAutoHigh(new)) /\ MarkAutoHigh(new).key \in Keys
        BY <2>3, <2>5, AutoHighDecided DEF Decided, Classified
      <4>3. QED BY <4>1, <4>2 DEF Fits, StepIn, FirstStep, Owned, TaskStates
    <3>2. QED BY <1>1, <2>2, <2>5, <3>1, ReturnFlows
  <2>6. QED BY <2>1, <2>4, <2>5
<1>5. ASSUME Verify(e) PROVE Flows(e)
  <2>1. PICK second \in Codes :
           Return(e, "Verify", "Persist", CrossVerified(doc, second))
    BY <1>5 DEF Verify
  <2> DEFINE new == CrossVerified(doc, second)
  <2>2. step[e] \in Owned["Verify"] /\ "Verify" \in Early
    BY <1>5 DEF Verify, Owned, Early
  <2>3. state[e] = "Verify" => Fits("Persist", StepIn("Persist"), new)
    <3> SUFFICES ASSUME state[e] = "Verify"
                 PROVE  Fits("Persist", StepIn("Persist"), new)
      OBVIOUS
    <3>1. Classified(doc) /\ doc.confidence < Threshold /\ doc.persisted = Absent
      BY <1>1 DEF Fits
    <3>2. Decided(new) /\ new.key \in Keys
      BY <1>1, <3>1, CrossVerifiedDecided DEF Decided, Classified
    <3>3. new.persisted = Absent
      BY <1>1, <3>1 DEF CrossVerified, Document
    <3>4. QED BY <3>2, <3>3 DEF Fits, StepIn, FirstStep, Owned, TaskStates
  <2>4. QED BY <1>1, <2>1, <2>2, <2>3, ReturnFlows
<1>6. ASSUME NEW outcome, step[e] \in Owned["Persist"],
             Return(e, "Persist", "Succeeded", Persisted(e, outcome))
      PROVE  Flows(e)
  <2> DEFINE new == Persisted(e, outcome)
  <2>1. SameVerdict(doc, new)
    BY <1>1 DEF SameVerdict, Persisted, Document
  <2>2. state[e] = "Persist" => Fits("Succeeded", StepIn("Succeeded"), new)
    BY <1>1, <2>1 DEF Fits, SameVerdict, StepIn, TaskStates
  <2>3. "Succeeded" \notin Early
    BY DEF Early
  <2>4. QED BY <1>1, <1>6, <2>1, <2>2, <2>3, ReturnFlows
<1>7. ASSUME step[e] = "put_item", step' = [step EXCEPT ![e] = "put_record"],
             UNCHANGED <<state, event>>
      PROVE  Flows(e)
  <2>1. state'[e] = state[e] /\ step'[e] = "put_record" /\ event'[e] = doc
    BY <1>7 DEF FlowTypeOK
  <2>2. state[e] \in {"Persist", "TimedOut"}
    BY <1>1, <1>7 DEF Fits, Owned, TaskStates
  <2>3. Fits(state[e], "put_record", doc)
    BY <1>1, <1>7, <2>2 DEF Fits, Owned, TaskStates
  <2>4. QED BY <2>1, <2>3 DEF Flows, SameVerdict
<1>8. CASE PiiGuard(e)
  BY <1>2, <1>3, <1>8 DEF PiiGuard
<1>9. CASE PersistRow(e)
  BY <1>2, <1>6, <1>7, <1>9 DEF PersistRow, PutItem, Owned
<1>10. CASE SkipRow(e) \/ PublishRow(e)
  BY <1>2, <1>6, <1>10 DEF SkipRow, PublishRow, Owned
<1>11. CASE LambdaFails(e)
  BY <1>2, <1>11 DEF LambdaFails
<1>12. QED BY <1>4, <1>5, <1>8, <1>9, <1>10, <1>11 DEF LambdaStep

\* A step belongs to one execution.
Acts(e) ==
    \/ \E k \in Keys : Notify(e, k)
    \/ StartExecution(e) \/ DropNotification(e)
    \/ Progress(e)
    \/ RepeatPut(e)
    \/ ExecutionTimesOut(e)

LEMMA ActorFlows ==
  ASSUME FlowTypeOK, FlowFits, NEW e \in Execs, Acts(e)
  PROVE  Flows(e)
<1>1. /\ event[e] \in Document
      /\ Fits(state[e], step[e], event[e])
      /\ {"PiiGuard", "Queued", "Succeeded", "Failed"} \subseteq States
  BY DEF FlowTypeOK, FlowFits, States, TaskStates, Ended
<1>2. ASSUME NEW k \in Keys, Notify(e, k) PROVE Flows(e)
  <2> DEFINE new == [NoDocument EXCEPT !.key = k]
  <2>1. /\ state[e] = "NotNotified" /\ state'[e] = "Queued"
        /\ step'[e] = step[e] /\ event'[e] = new
    BY <1>2 DEF Notify, FlowTypeOK
  <2>2. step[e] = "idle" /\ new.key = k /\ new.persisted = Absent
    BY <1>1, <2>1 DEF Fits, TaskStates, NoDocument
  <2>3. Fits("Queued", "idle", new)
    BY <1>2, <2>2 DEF Fits, TaskStates
  <2>4. QED BY <2>1, <2>2, <2>3 DEF Flows, Early
<1>3. ASSUME StartExecution(e) PROVE Flows(e)
  <2>1. state[e] = "Queued" /\ Goto(e, "PiiGuard") /\ event'[e] = event[e]
    BY <1>3 DEF StartExecution
  <2>2. Fits("PiiGuard", StepIn("PiiGuard"), event[e])
    BY <1>1, <2>1 DEF Fits, StepIn, FirstStep, Owned, TaskStates
  <2>3. state[e] \in Early
    BY <2>1 DEF Early
  <2>4. QED BY <1>1, <2>1, <2>2, <2>3, GotoFlows
<1>4. ASSUME SendToClassifyDlq(e) \/ SendToPersistDlq(e) PROVE Flows(e)
  <2>1. /\ state[e] \in DlqStates
        /\ Goto(e, "Succeeded") \/ Goto(e, "Failed")
        /\ event'[e] = event[e]
    BY <1>4 DEF SendToClassifyDlq, SendToPersistDlq, DlqStates
  <2>2. ASSUME NEW next \in {"Succeeded", "Failed"}
        PROVE  Fits(next, StepIn(next), event[e]) /\ next \notin Early
    BY <1>1, <2>1 DEF Fits, StepIn, TaskStates, DlqStates, Early
  <2>3. SameVerdict(event[e], event[e])
    BY DEF SameVerdict
  <2>4. QED BY <1>1, <2>1, <2>2, <2>3, GotoFlows
<1>5. ASSUME ExecutionTimesOut(e) PROVE Flows(e)
  <2>1. /\ state[e] \in TaskStates \cup DlqStates /\ state'[e] = "TimedOut"
        /\ step'[e] = step[e] /\ event'[e] = event[e]
    BY <1>5 DEF ExecutionTimesOut, FlowTypeOK
  <2>2. Fits("TimedOut", step[e], event[e])
    BY <1>1, <2>1 DEF Fits, TaskStates, DlqStates
  <2>3. QED BY <2>1, <2>2 DEF Flows, SameVerdict, Early
<1>6. ASSUME DropNotification(e) PROVE Flows(e)
  <2>1. /\ state[e] = "Queued" /\ state'[e] = "Dropped"
        /\ step'[e] = step[e] /\ event'[e] = event[e]
    BY <1>6 DEF DropNotification, FlowTypeOK
  <2>2. Fits("Dropped", step[e], event[e])
    BY <1>1, <2>1 DEF Fits, TaskStates
  <2>3. QED BY <2>1, <2>2 DEF Flows, Early
<1>7. ASSUME RepeatPut(e) PROVE Flows(e)
  BY <1>1, <1>7 DEF RepeatPut, flow, Flows, SameVerdict
<1>8. QED BY <1>2, <1>3, <1>4, <1>5, <1>6, <1>7, LambdaFlows DEF Acts, Progress

LEMMA OthersStay ==
  ASSUME FlowTypeOK, NEW e \in Execs, NEW f \in Execs, f # e, Acts(e)
  PROVE  /\ state'[f] = state[f] /\ step'[f] = step[f]
         /\ event'[f] = event[f] /\ stream'[f] = stream[f]
<1>1. ASSUME NEW next, Goto(e, next)
      PROVE  state'[f] = state[f] /\ step'[f] = step[f]
  BY <1>1 DEF FlowTypeOK, Goto
<1>2. ASSUME NEW task, NEW next, NEW doc, Return(e, task, next, doc)
      PROVE  state'[f] = state[f] /\ step'[f] = step[f] /\ event'[f] = event[f]
  BY <1>1, <1>2 DEF FlowTypeOK, Return
<1>3. ASSUME Fail(e)
      PROVE  state'[f] = state[f] /\ step'[f] = step[f] /\ event'[f] = event[f]
  BY <1>1, <1>3 DEF FlowTypeOK, Fail
<1>4. CASE \E k \in Keys : Notify(e, k)
  BY <1>4 DEF FlowTypeOK, Notify
<1>5. CASE StartExecution(e) \/ SendToClassifyDlq(e) \/ SendToPersistDlq(e)
  BY <1>1, <1>5 DEF StartExecution, SendToClassifyDlq, SendToPersistDlq
<1>6. CASE ExecutionTimesOut(e) \/ DropNotification(e) \/ RepeatPut(e)
  BY <1>6 DEF FlowTypeOK, ExecutionTimesOut, DropNotification, RepeatPut, PutItem, flow
<1>7. CASE PiiGuard(e) \/ SkipRow(e) \/ LambdaFails(e)
  BY <1>2, <1>3, <1>7 DEF PiiGuard, SkipRow, LambdaFails
<1>8. CASE Classify(e)
  BY <1>2, <1>8 DEF Classify
<1>9. CASE Verify(e)
  BY <1>2, <1>9 DEF Verify
<1>10. CASE PersistRow(e)
  BY <1>2, <1>3, <1>10 DEF PersistRow, PutItem, FlowTypeOK
<1>11. CASE PublishRow(e)
  BY <1>2, <1>3, <1>11 DEF PublishRow, FlowTypeOK
<1>12. QED
  BY <1>4, <1>5, <1>6, <1>7, <1>8, <1>9, <1>10, <1>11 DEF Acts, Progress, LambdaStep

LEMMA FlowStep ==
  ASSUME FlowTypeOK, FlowFits, [Next]_vars
  PROVE  \A f \in Execs : Flows(f)
<1> TAKE f \in Execs
<1>1. ASSUME /\ state'[f] = state[f] /\ step'[f] = step[f]
             /\ event'[f] = event[f]
      PROVE  Flows(f)
  BY <1>1 DEF FlowFits, Flows, SameVerdict
<1>2. CASE UNCHANGED vars
  BY <1>1, <1>2 DEF vars
<1>3. ASSUME NEW e \in Execs, Acts(e) PROVE Flows(f)
  BY <1>1, <1>3, ActorFlows, OthersStay
<1>4. QED BY <1>2, <1>3 DEF Next, Acts

-----------------------------------------------------------------------------
(* The effects of Persist.                                                 *)

LEMMA GotoStep ==
  ASSUME FlowTypeOK, NEW e \in Execs, NEW next, Goto(e, next)
  PROVE  step'[e] # "put_record"
  BY DEF FlowTypeOK, Goto, StepIn, FirstStep, TaskStates

LEMMA FailStep ==
  ASSUME FlowTypeOK, NEW e \in Execs, Fail(e)
  PROVE  step'[e] # "put_record" /\ event'[e] = event[e]
<1>1. CASE state[e] \in TaskStates /\ step' = [step EXCEPT ![e] = FirstStep[state[e]]]
  BY <1>1 DEF FlowTypeOK, FirstStep, TaskStates, Fail
<1>2. CASE Goto(e, AfterLastRetry[state[e]])
  BY <1>2, GotoStep DEF Fail
<1>3. CASE step' = [step EXCEPT ![e] = "idle"]
  BY <1>3 DEF FlowTypeOK, Fail
<1>4. QED BY <1>1, <1>2, <1>3 DEF Fail

LEMMA ReturnStep ==
  ASSUME FlowTypeOK, NEW e \in Execs, NEW task, NEW next, NEW doc, Return(e, task, next, doc)
  PROVE  step'[e] # "put_record" /\ event'[e] \in {event[e], doc}
<1>1. CASE Goto(e, next) /\ event' = [event EXCEPT ![e] = doc]
  BY <1>1, GotoStep DEF FlowTypeOK
<1>2. CASE step' = [step EXCEPT ![e] = "idle"] /\ UNCHANGED event
  BY <1>2 DEF FlowTypeOK
<1>3. QED BY <1>1, <1>2 DEF Return

\* What a step of e adds to the evidence that Persist leaves.
Leaves(e) ==
    /\ step'[e] = "put_record" => step[e] = "put_record" \/ PutItem(e)
    /\ stream'[e] # stream[e] => step[e] = "put_record"
    /\ event'[e].persisted = TRUE =>
          event[e].persisted = TRUE \/ step[e] = "put_record" \/ PutItem(e)
    /\ event'[e].persisted = FALSE =>
          event[e].persisted = FALSE \/ SkipRow(e)

LEMMA LambdaLeaves ==
  ASSUME FlowTypeOK, NEW e \in Execs, LambdaStep(e)
  PROVE  Leaves(e)
<1>1. event[e] \in Document
  BY DEF FlowTypeOK
<1>2. CASE PiiGuard(e) \/ LambdaFails(e)
  BY <1>2, ReturnStep, FailStep DEF PiiGuard, LambdaFails, Leaves
<1>3. CASE Classify(e)
  <2>1. PICK code \in Codes, confidence \in Confidences, version \in PromptVersions :
           LET new == [event[e] EXCEPT !.code = code, !.confidence = confidence,
                                       !.promptVersion = version]
           IN \/ Return(e, "Classify", "Verify", new)
              \/ Return(e, "Classify", "Persist", MarkAutoHigh(new))
    BY <1>3 DEF Classify
  <2> DEFINE new == [event[e] EXCEPT !.code = code, !.confidence = confidence,
                                     !.promptVersion = version]
  <2>2. /\ new.persisted = event[e].persisted
        /\ MarkAutoHigh(new).persisted = event[e].persisted
    BY <1>1 DEF Document, MarkAutoHigh
  <2>3. /\ step'[e] # "put_record"
        /\ event'[e] \in {event[e], new, MarkAutoHigh(new)}
    BY <2>1, ReturnStep
  <2>4. stream' = stream
    BY <1>3 DEF Classify
  <2>5. QED BY <2>2, <2>3, <2>4 DEF Leaves
<1>4. CASE Verify(e)
  <2>1. PICK second \in Codes :
           Return(e, "Verify", "Persist", CrossVerified(event[e], second))
    BY <1>4 DEF Verify
  <2>2. CrossVerified(event[e], second).persisted = event[e].persisted
    BY <1>1 DEF Document, CrossVerified
  <2>3. /\ step'[e] # "put_record"
        /\ event'[e] \in {event[e], CrossVerified(event[e], second)}
    BY <2>1, ReturnStep
  <2>4. stream' = stream
    BY <1>4 DEF Verify
  <2>5. QED BY <2>2, <2>3, <2>4 DEF Leaves
<1>5. Persisted(e, TRUE).persisted = TRUE /\ Persisted(e, FALSE).persisted = FALSE
  BY <1>1 DEF Persisted, Document
<1>6. CASE PersistRow(e)
  <2>1. stream' = stream /\ PutItem(e)
    BY <1>6 DEF PersistRow, PutItem
  <2>2. event'[e].persisted = FALSE => event[e].persisted = FALSE
    BY <1>5, <1>6, ReturnStep, FailStep DEF PersistRow
  <2>3. QED BY <2>1, <2>2 DEF Leaves
<1>7. CASE SkipRow(e)
  <2>1. stream' = stream /\ Return(e, "Persist", "Succeeded", Persisted(e, FALSE))
    BY <1>7 DEF SkipRow
  <2>2. event'[e].persisted = TRUE => event[e].persisted = TRUE
    BY <1>5, <2>1, ReturnStep
  <2>3. QED BY <1>7, <2>1, <2>2, ReturnStep DEF Leaves
<1>8. CASE PublishRow(e)
  <2>1. /\ step[e] = "put_record"
        /\ Return(e, "Persist", "Succeeded", Persisted(e, TRUE)) \/ Fail(e)
    BY <1>8 DEF PublishRow
  <2>2. step'[e] # "put_record"
    BY <2>1, ReturnStep, FailStep
  <2>3. event'[e].persisted = FALSE => event[e].persisted = FALSE
    BY <1>5, <2>1, ReturnStep, FailStep
  <2>4. QED BY <2>1, <2>2, <2>3 DEF Leaves
<1>9. QED BY <1>2, <1>3, <1>4, <1>6, <1>7, <1>8 DEF LambdaStep

LEMMA ActorLeaves ==
  ASSUME FlowTypeOK, FlowFits, NEW e \in Execs, Acts(e)
  PROVE  Leaves(e)
<1>1. CASE \E k \in Keys : Notify(e, k)
  <2>1. PICK k \in Keys : Notify(e, k)
    BY <1>1
  <2>2. /\ event'[e].persisted = Absent
        /\ stream' = stream
        /\ step' = step
    BY <2>1 DEF Notify, FlowTypeOK, NoDocument
  <2>3. QED BY <2>2, AbsentDistinct DEF Leaves
<1>2. CASE StartExecution(e) \/ SendToClassifyDlq(e) \/ SendToPersistDlq(e)
  BY <1>2, GotoStep DEF StartExecution, SendToClassifyDlq, SendToPersistDlq, Leaves
<1>3. CASE ExecutionTimesOut(e) \/ DropNotification(e) \/ RepeatPut(e)
  BY <1>3 DEF ExecutionTimesOut, DropNotification, RepeatPut, PutItem, flow, Leaves
<1>4. CASE LambdaStep(e)
  BY <1>4, LambdaLeaves
<1>5. QED BY <1>1, <1>2, <1>3, <1>4 DEF Acts, Progress

LEMMA OnlyPutItem ==
  ASSUME [Next]_vars
  PROVE  UNCHANGED table \/ \E e \in Execs : PutItem(e)
<1>1. ASSUME NEW e \in Execs, Acts(e) PROVE UNCHANGED table \/ PutItem(e)
  BY <1>1 DEF Acts, Notify, Progress, StartExecution, DropNotification, LambdaStep,
              PiiGuard, Classify, Verify, PersistRow, RepeatPut, SkipRow, PublishRow, LambdaFails,
              SendToClassifyDlq, SendToPersistDlq, ExecutionTimesOut
<1>2. QED BY <1>1 DEF Next, Acts, vars

\* The only write to the table is put_item under its condition.
LEMMA TableStep ==
  ASSUME EInv, [Next]_vars, NEW c \in Calls
  PROVE  \/ table'[c] = table[c]
         \/ \E e \in Execs :
               PutItem(e) /\ CallId(e) = c /\ table'[c] = Item(e)
<1>1. CASE UNCHANGED table
  BY <1>1
<1>2. ASSUME NEW e \in Execs, PutItem(e), table'[c] # table[c]
      PROVE  CallId(e) = c /\ table'[c] = Item(e)
  BY <1>2, ItemType DEF PutItem, EInv, RowsOwned
<1>3. QED BY <1>1, <1>2, OnlyPutItem

\* A write keeps the prompt version of the row it replaces.
LEMMA RowKept ==
  ASSUME EInv, [Next]_vars, NEW c \in Calls, table[c] # Absent
  PROVE  table'[c] # Absent /\ table'[c].promptVersion = table[c].promptVersion
<1>1. CASE table'[c] = table[c]
  BY <1>1
<1>2. ASSUME NEW e \in Execs, PutItem(e), CallId(e) = c, table'[c] = Item(e)
      PROVE  table'[c] # Absent /\ table'[c].promptVersion = table[c].promptVersion
  <2>1. Item(e) \in Row
    BY <1>2, ItemType DEF PutItem
  <2>2. Item(e) # Absent
    BY <2>1, ItemNotAbsent
  <2>3. QED BY <1>2, <2>2 DEF PutItem, MayPut
<1>3. QED BY <1>1, <1>2, TableStep

\* An execution that is about to put its item is past Early.
LEMMA AtPutItem ==
  ASSUME EInv, NEW f \in Execs, step[f] \in {"put_item", "put_record"}
  PROVE  /\ state[f] \in {"Persist", "TimedOut"}
         /\ Decided(event[f])
         /\ event[f].key \in Keys
         /\ CallId(f) \in Calls
         /\ Item(f).promptVersion = event[f].promptVersion
<1>1. Fits(state[f], step[f], event[f])
  BY DEF EInv, FlowFits
<1>2. state[f] \in {"Persist", "TimedOut"} /\ Decided(event[f])
  BY <1>1 DEF Fits, Owned, TaskStates
<1>3. event[f].key \in Keys /\ CallId(f) \in Calls
  BY <1>2, CallsAssumption DEF Decided, Classified, CallId
<1>4. Item(f).promptVersion = event[f].promptVersion
  BY <1>2, AbsentDistinct DEF Decided, Classified, Item, Default
<1>5. QED BY <1>2, <1>3, <1>4

\* The writer of a row after a step: that of the row before it, or the
\* execution that has just put the row. Its item stays what it is.
LEMMA WriterStep ==
  ASSUME EInv, [Next]_vars, NEW c \in Calls, table'[c] # Absent, NEW w, w = table'[c].writer
  PROVE  /\ w \in Execs
         /\ state'[w] \notin Early
         /\ Decided(event'[w])
         /\ CallOf[event'[w].key] = c
         /\ table'[c].promptVersion = event'[w].promptVersion
         /\ Item(w)' = Item(w)
         /\ table'[c] = table[c] \/ table'[c] = Item(w)
<1>1. FlowTypeOK /\ FlowFits /\ \A f \in Execs : Flows(f)
  BY FlowStep DEF EInv
<1>2. /\ w \in Execs
      /\ state[w] \notin Early
      /\ Decided(event[w])
      /\ CallOf[event[w].key] = c
      /\ table'[c].promptVersion = event[w].promptVersion
      /\ table'[c] = table[c] \/ table'[c] = Item(w)
  <2>1. CASE table'[c] = table[c]
    BY <2>1 DEF EInv, RowsOwned, CallId
  <2>2. ASSUME NEW e \in Execs, PutItem(e), CallId(e) = c, table'[c] = Item(e)
        PROVE  /\ e = w
               /\ state[e] \notin Early
               /\ Decided(event[e])
               /\ Item(e).promptVersion = event[e].promptVersion
    <3>1. step[e] = "put_item" /\ Item(e).writer = e
      BY <2>2 DEF PutItem, Item
    <3>2. QED BY <2>2, <3>1, AtPutItem DEF Early
  <2>3. QED BY <2>1, <2>2, TableStep DEF CallId
<1>3. state'[w] \notin Early /\ SameVerdict(event[w], event'[w])
  BY <1>1, <1>2 DEF Flows
<1>4. Item(w)' = Item(w)
  BY <1>3 DEF Item, SameVerdict
<1>5. Decided(event'[w])
  BY <1>2, <1>3 DEF Decided, Classified, VerdictFits, SameVerdict
<1>6. QED BY <1>2, <1>3, <1>4, <1>5 DEF SameVerdict

LEMMA RowsStep ==
  ASSUME EInv, [Next]_vars
  PROVE  RowsOwned'
<1>1. table' = [c \in Calls |-> table'[c]]
  <2>1. CASE UNCHANGED table
    BY <2>1 DEF EInv, RowsOwned
  <2>2. ASSUME NEW e \in Execs, PutItem(e)
        PROVE  table' = [c \in Calls |-> table'[c]]
    BY <2>2 DEF PutItem, EInv, RowsOwned
  <2>3. QED BY <2>1, <2>2, OnlyPutItem
<1>2. QED BY <1>1, WriterStep DEF RowsOwned, CallId

LEMMA EvidenceStep ==
  ASSUME EInv, [Next]_vars, NEW f \in Execs
  PROVE  Leaves(f)
<1>1. FlowTypeOK /\ FlowFits
  BY DEF EInv
<1>2. ASSUME step'[f] = step[f], event'[f] = event[f], stream'[f] = stream[f]
      PROVE  Leaves(f)
  BY <1>2 DEF Leaves
<1>3. CASE UNCHANGED vars
  BY <1>2, <1>3 DEF vars
<1>4. ASSUME NEW e \in Execs, Acts(e) PROVE Leaves(f)
  BY <1>1, <1>2, <1>4, ActorLeaves, OthersStay
<1>5. QED BY <1>3, <1>4 DEF Next, Acts

\* A row of the call of f outlives the step, while f stays the same.
LEMMA EvidenceKept ==
  ASSUME EInv, [Next]_vars, NEW f \in Execs, state[f] \notin Early,
         event[f].key \in Keys, table[CallId(f)] # Absent
  PROVE  /\ state'[f] \notin Early
         /\ event'[f].key \in Keys
         /\ CallOf[event'[f].key] = CallId(f)
         /\ event'[f].promptVersion = event[f].promptVersion
         /\ table'[CallId(f)] # Absent
         /\ table'[CallId(f)].promptVersion = table[CallId(f)].promptVersion
<1>1. state'[f] \notin Early /\ SameVerdict(event[f], event'[f])
  BY FlowStep DEF EInv, Flows
<1>2. CallId(f) \in Calls
  BY CallsAssumption DEF CallId
<1>3. QED BY <1>1, <1>2, RowKept DEF SameVerdict, CallId

LEMMA PublishedStep ==
  ASSUME EInv, [Next]_vars
  PROVE  PublishedHasRow'
<1> SUFFICES ASSUME NEW f \in Execs,
                    \/ stream'[f] > 0
                    \/ step'[f] = "put_record"
                    \/ event'[f].persisted = TRUE
             PROVE  /\ state'[f] \notin Early
                    /\ event'[f].key \in Keys
                    /\ table'[CallOf[event'[f].key]] # Absent
                    /\ table'[CallOf[event'[f].key]].promptVersion
                          = event'[f].promptVersion
  BY DEF PublishedHasRow, CallId
<1>1. Leaves(f)
  BY EvidenceStep
<1>2. CASE \/ stream[f] > 0
           \/ step[f] = "put_record"
           \/ event[f].persisted = TRUE
  BY <1>2, EvidenceKept DEF EInv, PublishedHasRow
<1>3. CASE PutItem(f)
  <2>1. /\ step[f] = "put_item"
        /\ table' = [table EXCEPT ![CallId(f)] = Item(f)]
        /\ Item(f) # Absent
    BY <1>3, ItemType, ItemNotAbsent DEF PutItem
  <2>2. state[f] \notin Early
    BY <2>1, AtPutItem DEF Early
  <2>3. state'[f] \notin Early /\ SameVerdict(event[f], event'[f])
    BY <2>2, FlowStep DEF EInv, Flows
  <2>4. table'[CallId(f)] = Item(f)
    BY <2>1, AtPutItem DEF EInv, RowsOwned
  <2>5. QED BY <2>1, <2>3, <2>4, AtPutItem DEF SameVerdict, CallId
<1>4. QED BY <1>1, <1>2, <1>3 DEF Leaves

LEMMA SkippedStep ==
  ASSUME EInv, [Next]_vars
  PROVE  SkippedHasRow'
<1> SUFFICES ASSUME NEW f \in Execs, event'[f].persisted = FALSE
             PROVE  /\ table'[CallOf[event'[f].key]] # Absent
                    /\ table'[CallOf[event'[f].key]].promptVersion
                          # event'[f].promptVersion
  BY DEF SkippedHasRow, CallId
<1>1. Leaves(f)
  BY EvidenceStep
<1>2. /\ table[CallId(f)] # Absent
      /\ table[CallId(f)].promptVersion # event[f].promptVersion
      /\ state[f] \notin Early
      /\ event[f].key \in Keys
  <2>1. CASE event[f].persisted = FALSE
    <3>1. Fits(state[f], step[f], event[f]) /\ event[f].persisted # Absent
      BY <2>1, AbsentDistinct DEF EInv, FlowFits
    <3>2. state[f] \notin Early /\ event[f].key \in Keys
      BY <3>1 DEF Fits, Early
    <3>3. QED BY <2>1, <3>2 DEF EInv, SkippedHasRow
  <2>2. CASE SkipRow(f)
    BY <2>2, AtPutItem DEF SkipRow, MayPut, Early
  <2>3. QED BY <1>1, <2>1, <2>2 DEF Leaves
<1>3. QED BY <1>2, EvidenceKept

LEMMA EInvStep == EInv /\ [Next]_vars => EInv'
<1> SUFFICES ASSUME EInv, [Next]_vars PROVE EInv'
  OBVIOUS
<1>1. FlowFits'
  <2>1. \A f \in Execs : Flows(f)
    BY FlowStep DEF EInv
  <2>2. QED BY <2>1 DEF FlowFits, Flows
<1>2. QED BY <1>1, FlowTypeStep, RowsStep, PublishedStep, SkippedStep DEF EInv

LEMMA InvStep == IInv /\ [Next]_vars => IInv'
<1> SUFFICES ASSUME IInv, [Next]_vars PROVE IInv'
  OBVIOUS
<1>1. EInv /\ EInv'
  BY EInvStep DEF IInv
<1>2. RowsWritten'
  <2> SUFFICES ASSUME NEW c \in Calls, table'[c] # Absent, NEW w, w = table'[c].writer
               PROVE  table'[c] = Item(w)'
    BY DEF RowsWritten
  <2>1. Item(w)' = Item(w) /\ (table'[c] = table[c] \/ table'[c] = Item(w))
    BY <1>1, WriterStep
  <2>2. QED BY <2>1 DEF IInv, RowsWritten
<1>3. table' \in [Calls -> Or(Row)]
  <2>1. ASSUME NEW e \in Execs, PutItem(e)
        PROVE  table' \in [Calls -> Or(Row)]
    BY <1>1, <2>1, ItemType DEF PutItem, IInv, TypeOK, Or
  <2>2. CASE UNCHANGED table
    BY <2>2 DEF IInv, TypeOK
  <2>3. QED BY <2>1, <2>2, OnlyPutItem
<1>4. QED BY <1>1, <1>2, <1>3 DEF IInv, TypeOK, EInv

-----------------------------------------------------------------------------
(* What the invariant says of skips.                                       *)

LEMMA SkipsUntraced == EInv => SkipLeavesNoTrace
<1> SUFFICES ASSUME EInv, NEW e \in Execs, event[e].persisted = FALSE
             PROVE  /\ stream[e] = 0
                    /\ table[CallId(e)] # Absent
                    /\ table[CallId(e)].writer # e
  BY DEF SkipLeavesNoTrace
<1>1. /\ table[CallId(e)] # Absent
      /\ table[CallId(e)].promptVersion # event[e].promptVersion
  BY DEF EInv, SkippedHasRow
<1>2. stream[e] = 0
  <2>1. stream[e] \in Nat /\ ~(stream[e] > 0)
    BY <1>1 DEF EInv, FlowTypeOK, PublishedHasRow
  <2>2. QED BY <2>1
<1>3. CallId(e) \in Calls
  <2>1. Fits(state[e], step[e], event[e]) /\ event[e].persisted # Absent
    BY AbsentDistinct DEF EInv, FlowFits
  <2>2. event[e].key \in Keys
    BY <2>1 DEF Fits
  <2>3. QED BY <2>2, CallsAssumption DEF CallId
<1>4. ASSUME table[CallId(e)].writer = e PROVE FALSE
  <2>1. table[CallId(e)].promptVersion = event[e].promptVersion
    BY <1>1, <1>3, <1>4 DEF EInv, RowsOwned
  <2>2. QED BY <1>1, <2>1
<1>5. QED BY <1>1, <1>2, <1>4

-----------------------------------------------------------------------------
(* The steps of the ledger.                                                *)

LEMMA EntryUpdate ==
  ASSUME NEW version, NEW old, NEW new
  PROVE  [[promptVersion |-> version, status |-> old] EXCEPT !.status = new]
           = [promptVersion |-> version, status |-> new]
  OBVIOUS

\* Each row has a status of the models or of the reviewers.
StatusOK ==
    \A c \in Calls : table[c] # Absent =>
        table[c].status \in Ledger!ModelStatus \cup Ledger!ReviewerStatus

LEMMA EntryKnown ==
  ASSUME EInv, StatusOK, NEW c \in Calls, table[c] # Absent
  PROVE  /\ Entry(table[c]) = [promptVersion |-> table[c].promptVersion,
                               status |-> table[c].status]
         /\ Entry(table[c]) # Absent
<1>1. table[c].promptVersion \in PromptVersions
  BY DEF EInv, RowsOwned, Decided, Classified
<1>2. Entry(table[c]) = [promptVersion |-> table[c].promptVersion,
                         status |-> table[c].status]
  BY DEF Entry
<1>3. Entry(table[c]) \in Ledger!Entries
  BY <1>1, <1>2 DEF StatusOK, Ledger!Entries
<1>4. QED BY <1>2, <1>3, EntryAssumption

\* A row that replaces another one of its prompt version changes the status
\* of the entry and nothing else.
LEMMA EntryReplaced ==
  ASSUME EInv, StatusOK, NEW c \in Calls, table[c] # Absent,
         NEW row, row # Absent, row.promptVersion = table[c].promptVersion
  PROVE  Entry(row) = [Entry(table[c]) EXCEPT !.status = row.status]
<1>1. Entry(table[c]) = [promptVersion |-> table[c].promptVersion, status |-> table[c].status]
  BY EntryKnown
<1>2. Entry(row) = [promptVersion |-> table[c].promptVersion, status |-> row.status]
  BY DEF Entry
<1>3. QED BY <1>1, <1>2, EntryUpdate

\* put_item records the first verdict on a call, or classifies it again under
\* the prompt version it has, whatever status it has come to meanwhile.
LEMMA LedgerStep ==
  ASSUME EInv, StatusOK, [Next]_vars
  PROVE  UNCHANGED table \/ Ledger!Next
<1> SUFFICES ASSUME NEW e \in Execs, PutItem(e) PROVE Ledger!Next
  BY OnlyPutItem
<1> DEFINE ledger == [d \in Calls |-> Entry(table[d])]
<1>1. PICK c : c = CallId(e)
  OBVIOUS
<1>2. PICK item : item = Item(e)
  OBVIOUS
<1>3. /\ c \in Calls
      /\ item \in Row
      /\ item # Absent
      /\ table' = [table EXCEPT ![c] = item]
  BY <1>1, <1>2, ItemType, ItemNotAbsent DEF PutItem
<1>4. item.promptVersion \in PromptVersions /\ item.status \in Ledger!ModelStatus
  BY <1>3 DEF Row, Ledger!ModelStatus
<1>5. CASE table[c] = Absent
  <2>1. ledger[c] = Absent
    BY <1>3, <1>5 DEF Entry
  <2>2. ledger' = [ledger EXCEPT ![c] = [promptVersion |-> item.promptVersion,
                                         status |-> item.status]]
    BY <1>3 DEF Entry, EInv, RowsOwned
  <2>3. Ledger!Record(c)
    BY <1>4, <2>1, <2>2 DEF Ledger!Record
  <2>4. QED BY <1>3, <2>3 DEF Ledger!Next
<1>6. CASE table[c] # Absent
  <2>1. item.promptVersion = table[c].promptVersion
    BY <1>1, <1>2, <1>6 DEF PutItem, MayPut
  <2>2. ledger[c] # Absent /\ ledger[c] = Entry(table[c])
    BY <1>3, <1>6, EntryKnown
  <2>3. ledger' = [ledger EXCEPT ![c].status = item.status]
    <3>1. ledger' = [ledger EXCEPT ![c] = Entry(item)]
      BY <1>3 DEF Entry, EInv, RowsOwned
    <3>2. Entry(item) = [Entry(table[c]) EXCEPT !.status = item.status]
      BY <1>3, <1>6, <2>1, EntryReplaced
    <3> HIDE DEF ledger
    <3>3. QED BY <2>2, <3>1, <3>2
  <2>4. Ledger!Reclassify(c)
    BY <1>4, <2>2, <2>3 DEF Ledger!Reclassify
  <2>5. QED BY <1>3, <2>4 DEF Ledger!Next
<1>7. QED BY <1>5, <1>6

-----------------------------------------------------------------------------
(* The theorems.                                                           *)

\* In every reachable state the invariant above holds, whatever the calls,
\* the executions, the retries and the prompt versions: the flow of every
\* execution and the rows and records it has left fit together.
THEOREM Invariance == Spec => []IInv
<1>1. QED BY InitInv, InvStep, PTL DEF Spec

\* State machine, documents, table, stream and queues keep their types: no
\* interleaving of retries, late Lambdas and timeouts leads an execution out
\* of the states of main.tf or puts a row with a missing attribute.
THEOREM TypeCorrect == Spec => []TypeOK
<1>1. IInv => TypeOK
  BY DEF IInv
<1>2. QED BY <1>1, Invariance, PTL

\* Every row is the item of one execution on a transcript of its call, and
\* it is confirmed without a reviewer exactly when the primary model was sure
\* or the second one agreed: Persist never stores a mix of two executions,
\* nor a default of build_ddb_item in the place of a verdict.
THEOREM RowsJustified == Spec => []RowJustified
<1>1. IInv => RowJustified
  <2> SUFFICES ASSUME IInv, NEW c \in Calls, table[c] # Absent
               PROVE  /\ CallOf[table[c].key] = c
                      /\ table[c] = Item(table[c].writer)
                      /\ VerdictFits(table[c], event[table[c].writer].verifyCode)
    BY DEF RowJustified
  <2> DEFINE w == table[c].writer
  <2>1. /\ Decided(event[w])
        /\ table[c] = Item(w)
        /\ CallOf[event[w].key] = c
    BY DEF IInv, EInv, RowsOwned, RowsWritten, CallId
  <2>2. /\ table[c].key = event[w].key
        /\ table[c].code = event[w].code
        /\ table[c].confidence = event[w].confidence
        /\ table[c].verified = event[w].verified
        /\ table[c].status = event[w].status
    BY <2>1 DEF Item, Decided, Default
  <2>3. VerdictFits(event[w], event[w].verifyCode)
    BY <2>1 DEF Decided
  <2>4. QED BY <2>1, <2>2, <2>3 DEF VerdictFits
<1>2. QED BY <1>1, Invariance, PTL

\* An execution that answers persisted = False has put neither the row nor a
\* record in any attempt: a retry of persist never takes its own earlier row
\* for a conflict and never reports a skip of what it did publish.
THEOREM SkipsLeaveNoTrace == Spec => []SkipLeavesNoTrace
<1>1. IInv => SkipLeavesNoTrace
  BY SkipsUntraced DEF IInv
<1>2. QED BY <1>1, Invariance, PTL

\* Once a call has a row it always has one, under the prompt version of the
\* first: the condition of put_item holds through every later execution.
THEOREM PromptVersionsPreserved == Spec => PromptVersionPreserved
<1>1. IInv /\ [Next]_vars =>
        [\A c \in Calls : table[c] # Absent =>
            /\ table'[c] # Absent
            /\ table'[c].promptVersion = table[c].promptVersion]_vars
  BY RowKept DEF IInv
<1>2. QED BY <1>1, Invariance, PTL DEF Spec, PromptVersionPreserved

-----------------------------------------------------------------------------
(* Where the executions leave their calls: what a success accounts for,    *)
(* which rows have no analytics record, and how often one is repeated.     *)

\* A document that classify has not answered yet.
Unclassified(doc) == doc.code = Absent /\ doc.promptVersion = Absent

Before == {"Queued", "PiiGuard", "Classify", "SendToClassifyDlq"}
Persisting == {"put_item", "put_record"}
InDlq(e) == e \in classifyDlq \cup persistDlq

\* The classify DLQ takes unclassified documents, a message is sent by the
\* last state of an execution, and a success has an answer or a message.
MessagesFit(e) ==
    /\ state[e] \in Before \/ e \in classifyDlq => Unclassified(event[e])
    /\ InDlq(e) => state[e] \in {"Succeeded", "Failed"} /\ event[e].persisted = Absent
    /\ state[e] = "Succeeded" => InDlq(e) \/ event[e].persisted # Absent

\* An answer that says persisted has been published, and every attempt of
\* persist has published at most as often as boto3 sends a record.
RecordsFit(e) ==
    /\ HasFirehose /\ event[e].persisted = TRUE => stream[e] > 0
    /\ step[e] \in Persisting =>
          stream[e] <= tries[e] * PutAttempts /\ tries[e] <= MaxAttempts["Persist"]
    /\ stream[e] <= (MaxAttempts["Persist"] + 1) * PutAttempts

Account(e) == MessagesFit(e) /\ RecordsFit(e)

AInv == \A e \in Execs : Account(e)

-----------------------------------------------------------------------------
(* What the operators of the state machine do to their execution.          *)

LEMMA Attempts ==
    /\ MaxAttempts["Persist"] \in Nat
    /\ \A s \in TaskStates : MaxAttempts[s] \in Nat
  BY RetryAssumption DEF TaskStates

\* One attempt more sends as many records more.
LEMMA OneAttemptMore ==
  ASSUME NEW a \in Nat, NEW b \in Nat, a <= b
  PROVE  /\ (a + 1) * PutAttempts = a * PutAttempts + PutAttempts
         /\ (a + 1) * PutAttempts <= (b + 1) * PutAttempts
         /\ a * PutAttempts \in Nat /\ (b + 1) * PutAttempts \in Nat
<1>1. PutAttempts \in Nat
  BY PutAssumption
<1>2. PICK d \in Nat : b = a + d
  <2>1. b - a \in Nat /\ b = a + (b - a)
    OBVIOUS
  <2>2. QED BY <2>1
<1>3. PICK p \in Nat : p = PutAttempts
  BY <1>1
<1>4. (a + 1) * p = a * p + p
  OBVIOUS
<1>5. (a + d + 1) * p = (a + 1) * p + d * p
  OBVIOUS
<1>6. a * p \in Nat /\ d * p \in Nat
  OBVIOUS
<1>7. QED BY <1>2, <1>3, <1>4, <1>5, <1>6

LEMMA GotoDoes ==
  ASSUME FlowTypeOK, NEW e \in Execs, NEW next, Goto(e, next)
  PROVE  state'[e] = next /\ step'[e] = StepIn(next) /\ tries'[e] = 0
  BY DEF FlowTypeOK, Goto

\* An invocation that is still awaited, or was awaited when it began, leaves
\* an execution that has sent no message.
LEMMA RunningHasNoMessage ==
  ASSUME EInv, NEW e \in Execs, Account(e), step[e] # "idle"
  PROVE  ~InDlq(e) /\ state[e] # "Succeeded" /\ event[e].persisted = Absent
<1>1. Fits(state[e], step[e], event[e])
  BY DEF EInv, FlowFits
<1>2. state[e] \notin {"Succeeded", "Failed"}
  BY <1>1 DEF Fits, TaskStates
<1>3. QED BY <1>1, <1>2 DEF Account, MessagesFit, Fits

\* The records after a step of the Lambda: those of one attempt more if it has
\* published.
Published(e) ==
    \/ stream'[e] = stream[e]
    \/ /\ step[e] = "put_record"
       /\ \E taken \in 1..PutAttempts : stream'[e] = stream[e] + taken

LEMMA PublishedBound ==
  ASSUME EInv, NEW e \in Execs, Account(e), Published(e)
  PROVE  /\ stream[e] \in Nat /\ stream'[e] \in Nat /\ tries[e] \in Nat
         /\ stream'[e] >= stream[e]
         /\ stream'[e] <= (MaxAttempts["Persist"] + 1) * PutAttempts
         /\ step[e] \in Persisting => stream'[e] <= (tries[e] + 1) * PutAttempts
<1>1. stream[e] \in Nat /\ tries[e] \in Nat
  BY DEF EInv, FlowTypeOK
<1>2. /\ stream[e] <= (MaxAttempts["Persist"] + 1) * PutAttempts
      /\ step[e] \in Persisting =>
            stream[e] <= tries[e] * PutAttempts /\ tries[e] <= MaxAttempts["Persist"]
  BY DEF Account, RecordsFit
<1>3. PICK limit : limit = (MaxAttempts["Persist"] + 1) * PutAttempts
  OBVIOUS
<1>4. PICK before : before = tries[e] * PutAttempts
  OBVIOUS
<1>5. PICK after : after = (tries[e] + 1) * PutAttempts
  OBVIOUS
<1>6. /\ limit \in Nat /\ before \in Nat /\ after = before + PutAttempts
      /\ step[e] \in Persisting => after <= limit
      /\ PutAttempts \in Nat
  <2>1. limit \in Nat
    BY <1>3, OneAttemptMore, Attempts
  <2>2. before \in Nat /\ after = before + PutAttempts
    BY <1>1, <1>4, <1>5, OneAttemptMore
  <2>3. ASSUME step[e] \in Persisting PROVE after <= limit
    BY <1>1, <1>2, <1>3, <1>5, <2>3, OneAttemptMore, Attempts
  <2>4. QED BY <2>1, <2>2, <2>3, PutAssumption
<1>7. CASE stream'[e] = stream[e]
  BY <1>1, <1>2, <1>3, <1>4, <1>5, <1>6, <1>7
<1>8. CASE /\ step[e] = "put_record"
           /\ \E taken \in 1..PutAttempts : stream'[e] = stream[e] + taken
  <2>1. PICK taken \in 1..PutAttempts : stream'[e] = stream[e] + taken
    BY <1>8
  <2>2. taken \in Nat /\ taken <= PutAttempts
    BY <1>6, <2>1
  <2>3. step[e] \in Persisting
    BY <1>8 DEF Persisting
  <2>4. stream[e] <= before /\ after <= limit
    BY <1>2, <1>4, <1>6, <2>3
  <2>5. stream'[e] \in Nat /\ stream'[e] >= stream[e] /\ stream'[e] <= after
    BY <1>1, <1>6, <2>1, <2>2, <2>4
  <2>6. stream'[e] <= limit
    BY <1>6, <2>4, <2>5
  <2>7. QED BY <1>1, <1>3, <1>5, <2>5, <2>6
<1>9. QED BY <1>7, <1>8 DEF Published

LEMMA FailAccount ==
  ASSUME EInv, NEW e \in Execs, Account(e), Fail(e), step[e] # "idle",
         Published(e), UNCHANGED dlqs
  PROVE  Account(e)'
<1>1. /\ ~InDlq(e)' /\ e \notin classifyDlq'
      /\ state[e] # "Succeeded" /\ event[e].persisted = Absent
  BY RunningHasNoMessage DEF InDlq, dlqs
<1>2. event' = event
  BY DEF Fail
<1>3. /\ stream[e] \in Nat /\ stream'[e] \in Nat /\ tries[e] \in Nat
      /\ stream'[e] <= (MaxAttempts["Persist"] + 1) * PutAttempts
      /\ step[e] \in Persisting => stream'[e] <= (tries[e] + 1) * PutAttempts
  BY PublishedBound
<1>4. event'[e].persisted # TRUE
  BY <1>1, <1>2, AbsentDistinct
<1>5. CASE /\ state[e] \in TaskStates /\ tries[e] < MaxAttempts[state[e]]
           /\ tries' = [tries EXCEPT ![e] = @ + 1]
           /\ step' = [step EXCEPT ![e] = FirstStep[state[e]]]
           /\ UNCHANGED state
  <2>1. tries'[e] = tries[e] + 1 /\ step'[e] = FirstStep[state[e]] /\ state'[e] = state[e]
    BY <1>5 DEF EInv, FlowTypeOK
  <2>2. MessagesFit(e)'
    BY <1>1, <1>2, <2>1 DEF Account, MessagesFit
  <2>3. ASSUME step'[e] \in Persisting
        PROVE  stream'[e] <= tries'[e] * PutAttempts /\ tries'[e] <= MaxAttempts["Persist"]
    <3>1. state[e] = "Persist"
      BY <1>5, <2>1, <2>3 DEF FirstStep, TaskStates, Persisting
    <3>2. step[e] \in Persisting
      BY <3>1 DEF EInv, FlowFits, Fits, Owned, TaskStates, Persisting
    <3>3. stream'[e] <= tries'[e] * PutAttempts
      BY <1>3, <2>1, <3>2
    <3>4. QED BY <1>3, <1>5, <2>1, <3>1, <3>3, Attempts
  <2>4. QED BY <1>3, <1>4, <2>2, <2>3 DEF Account, RecordsFit
<1>6. CASE state[e] \in TaskStates /\ Goto(e, AfterLastRetry[state[e]])
  <2>1. /\ state'[e] = AfterLastRetry[state[e]]
        /\ step'[e] = StepIn(AfterLastRetry[state[e]])
    BY <1>6, GotoDoes DEF EInv
  <2>2. /\ state'[e] \in {"Failed", "SendToClassifyDlq", "SendToPersistDlq"}
        /\ state'[e] = "SendToClassifyDlq" => state[e] = "Classify"
    BY <1>6, <2>1 DEF AfterLastRetry, TaskStates
  <2>3. step'[e] = "idle"
    BY <2>1, <2>2 DEF StepIn, TaskStates
  <2>4. MessagesFit(e)'
    BY <1>1, <1>2, <2>2 DEF Account, MessagesFit, Before
  <2>5. QED BY <1>3, <1>4, <2>3, <2>4 DEF Account, RecordsFit, Persisting
<1>7. CASE step' = [step EXCEPT ![e] = "idle"] /\ UNCHANGED <<state, tries>>
  <2>1. step'[e] = "idle" /\ state'[e] = state[e]
    BY <1>7 DEF EInv, FlowTypeOK
  <2>2. MessagesFit(e)'
    BY <1>1, <1>2, <2>1 DEF Account, MessagesFit
  <2>3. QED BY <1>3, <1>4, <2>1, <2>2 DEF Account, RecordsFit, Persisting
<1>8. QED BY <1>5, <1>6, <1>7 DEF Fail

LEMMA ReturnAccount ==
  ASSUME EInv, NEW e \in Execs, Account(e), NEW task \in TaskStates, NEW next, NEW doc,
         Return(e, task, next, doc), step[e] \in Owned[task],
         Published(e), UNCHANGED dlqs,
         state[e] = task =>
             /\ next \in Before => Unclassified(doc)
             /\ next = "Succeeded" => doc.persisted # Absent
             /\ HasFirehose /\ doc.persisted = TRUE => stream'[e] > 0
             /\ next = "Persist" => stream'[e] = 0
  PROVE  Account(e)'
<1>1. step[e] # "idle"
  BY DEF Owned, TaskStates
<1>2. /\ ~InDlq(e)' /\ e \notin classifyDlq'
      /\ state[e] # "Succeeded" /\ event[e].persisted = Absent
  BY <1>1, RunningHasNoMessage DEF InDlq, dlqs
<1>3. stream'[e] \in Nat /\ stream'[e] <= (MaxAttempts["Persist"] + 1) * PutAttempts
  BY PublishedBound
<1>4. CASE state[e] = task /\ Goto(e, next) /\ event' = [event EXCEPT ![e] = doc]
  <2>1. state'[e] = next /\ step'[e] = StepIn(next) /\ tries'[e] = 0 /\ event'[e] = doc
    BY <1>4, GotoDoes DEF EInv, FlowTypeOK
  <2>2. MessagesFit(e)'
    BY <1>2, <1>4, <2>1 DEF MessagesFit
  <2>3. step'[e] \in Persisting => next = "Persist"
    BY <2>1 DEF StepIn, FirstStep, TaskStates, Persisting
  <2>4. ASSUME step'[e] \in Persisting
        PROVE  /\ stream'[e] <= tries'[e] * PutAttempts
               /\ tries'[e] <= MaxAttempts["Persist"]
    <3>1. stream'[e] = 0 /\ tries'[e] = 0
      BY <1>4, <2>1, <2>3, <2>4
    <3>2. 0 * PutAttempts = 0
      BY PutAssumption
    <3>3. QED BY <3>1, <3>2, Attempts
  <2>5. HasFirehose /\ event'[e].persisted = TRUE => stream'[e] > 0
    BY <1>4, <2>1
  <2>6. RecordsFit(e)'
    BY <1>3, <2>4, <2>5 DEF RecordsFit
  <2>7. QED BY <2>2, <2>6 DEF Account
<1>5. CASE step' = [step EXCEPT ![e] = "idle"] /\ UNCHANGED <<state, tries, event>>
  <2>1. step'[e] = "idle" /\ state'[e] = state[e] /\ event'[e] = event[e]
    BY <1>5 DEF EInv, FlowTypeOK
  <2>2. MessagesFit(e)'
    BY <1>2, <2>1 DEF Account, MessagesFit
  <2>3. RecordsFit(e)'
    BY <1>2, <1>3, <2>1, AbsentDistinct DEF RecordsFit, Persisting
  <2>4. QED BY <2>2, <2>3 DEF Account
<1>6. QED BY <1>4, <1>5 DEF Return

-----------------------------------------------------------------------------
(* What a step does to the execution it belongs to.                        *)

\* Nothing is published before Persist.
LEMMA EarlyUnpublished ==
  ASSUME EInv, NEW e \in Execs, state[e] \in Early
  PROVE  stream[e] = 0
<1>1. stream[e] \in Nat /\ ~(stream[e] > 0)
  BY DEF EInv, FlowTypeOK, PublishedHasRow
<1>2. QED BY <1>1

LEMMA LambdaAccount ==
  ASSUME EInv, NEW e \in Execs, Account(e), LambdaStep(e)
  PROVE  Account(e)'
<1>1. /\ FlowTypeOK /\ event[e] \in Document
      /\ Fits(state[e], step[e], event[e])
  BY DEF EInv, FlowTypeOK, FlowFits
<1>2. CASE PiiGuard(e)
  <2>1. /\ step[e] = "pii_guard" /\ UNCHANGED dlqs /\ stream'[e] = stream[e]
        /\ Return(e, "PiiGuard", "Classify", event[e]) \/ Fail(e)
    BY <1>2 DEF PiiGuard
  <2>2. state[e] = "PiiGuard" =>
          Unclassified(event[e]) /\ event[e].persisted # TRUE
    BY <1>1, AbsentDistinct DEF Account, MessagesFit, Before, Fits
  <2>3. step[e] \in Owned["PiiGuard"] /\ "PiiGuard" \in TaskStates
    BY <2>1 DEF Owned, TaskStates
  <2>4. Published(e)
    BY <2>1 DEF Published
  <2>5. QED BY <2>1, <2>2, <2>3, <2>4, ReturnAccount, FailAccount
<1>3. CASE Classify(e)
  <2>1. PICK code \in Codes, confidence \in Confidences, version \in PromptVersions :
           LET doc == [event[e] EXCEPT !.code = code, !.confidence = confidence,
                                       !.promptVersion = version]
           IN \/ Return(e, "Classify", "Verify", doc)
              \/ Return(e, "Classify", "Persist", MarkAutoHigh(doc))
    BY <1>3 DEF Classify
  <2> DEFINE doc == [event[e] EXCEPT !.code = code, !.confidence = confidence,
                                     !.promptVersion = version]
  <2>2. doc.persisted = event[e].persisted /\ MarkAutoHigh(doc).persisted = event[e].persisted
    BY <1>1 DEF Document, MarkAutoHigh
  <2> HIDE DEF doc
  <2>3. /\ step[e] \in Owned["Classify"] /\ "Classify" \in TaskStates
        /\ UNCHANGED dlqs /\ Published(e) /\ stream'[e] = stream[e]
    BY <1>3 DEF Classify, Owned, TaskStates, Published
  <2>4. state[e] = "Classify" => stream[e] = 0 /\ event[e].persisted # TRUE
    BY <1>1, EarlyUnpublished, AbsentDistinct DEF Early, Fits
  <2>5. "Verify" \notin Before /\ "Persist" \notin Before
    BY DEF Before
  <2>6. CASE Return(e, "Classify", "Verify", doc)
    BY <2>2, <2>3, <2>4, <2>5, <2>6, ReturnAccount
  <2>7. CASE Return(e, "Classify", "Persist", MarkAutoHigh(doc))
    BY <2>2, <2>3, <2>4, <2>5, <2>7, ReturnAccount
  <2>8. QED BY <2>1, <2>6, <2>7 DEF doc
<1>4. CASE Verify(e)
  <2>1. PICK second \in Codes :
           Return(e, "Verify", "Persist", CrossVerified(event[e], second))
    BY <1>4 DEF Verify
  <2> DEFINE doc == CrossVerified(event[e], second)
  <2>2. doc.persisted = event[e].persisted
    BY <1>1 DEF Document, CrossVerified
  <2> HIDE DEF doc
  <2>3. /\ step[e] \in Owned["Verify"] /\ "Verify" \in TaskStates
        /\ UNCHANGED dlqs /\ Published(e) /\ stream'[e] = stream[e]
    BY <1>4 DEF Verify, Owned, TaskStates, Published
  <2>4. state[e] = "Verify" => stream[e] = 0 /\ event[e].persisted # TRUE
    BY <1>1, EarlyUnpublished, AbsentDistinct DEF Early, Fits
  <2>5. Return(e, "Verify", "Persist", doc)
    BY <2>1 DEF doc
  <2>6. "Persist" \notin Before
    BY DEF Before
  <2>7. QED BY <2>2, <2>3, <2>4, <2>5, <2>6, ReturnAccount
<1>5. /\ Persisted(e, TRUE).persisted = TRUE /\ Persisted(e, FALSE).persisted = FALSE
      /\ Persisted(e, TRUE).persisted # Absent /\ Persisted(e, FALSE).persisted # Absent
      /\ "Succeeded" \notin Before /\ "Persist" \in TaskStates
  BY <1>1, AbsentDistinct DEF Persisted, Document, Before, TaskStates
<1>6. CASE PersistRow(e)
  <2>1. /\ step[e] \in Owned["Persist"] /\ step[e] \in Persisting
        /\ UNCHANGED dlqs /\ Published(e) /\ stream' = stream
    BY <1>6 DEF PersistRow, PutItem, Owned, Published, Persisting
  <2>2. CASE step' = [step EXCEPT ![e] = "put_record"] /\ UNCHANGED <<state, tries, event>>
    <3>1. UNCHANGED <<classifyDlq, persistDlq>>
      BY <2>1 DEF dlqs
    <3>2. MessagesFit(e)'
      BY <2>2, <3>1 DEF Account, MessagesFit, InDlq
    <3>3. RecordsFit(e)'
      BY <2>1, <2>2 DEF Account, RecordsFit
    <3>4. QED BY <3>2, <3>3 DEF Account
  <2>3. CASE ~HasFirehose /\ Return(e, "Persist", "Succeeded", Persisted(e, TRUE))
    BY <1>5, <2>1, <2>3, ReturnAccount
  <2>4. CASE Fail(e)
    BY <2>1, <2>4, FailAccount DEF Persisting
  <2>5. QED BY <1>6, <2>2, <2>3, <2>4 DEF PersistRow
<1>7. CASE SkipRow(e)
  <2>1. /\ step[e] \in Owned["Persist"] /\ UNCHANGED dlqs /\ Published(e)
        /\ Return(e, "Persist", "Succeeded", Persisted(e, FALSE))
    BY <1>7 DEF SkipRow, Owned, Published
  <2>2. QED BY <1>5, <2>1, ReturnAccount
<1>8. CASE PublishRow(e)
  <2>1. /\ step[e] \in Owned["Persist"] /\ step[e] = "put_record" /\ UNCHANGED dlqs
        /\ Return(e, "Persist", "Succeeded", Persisted(e, TRUE)) \/ Fail(e)
    BY <1>8 DEF PublishRow, Owned
  <2>2. PICK taken \in 1..PutAttempts : stream' = [stream EXCEPT ![e] = @ + taken]
    BY <1>8 DEF PublishRow
  <2>3. stream[e] \in Nat /\ stream'[e] = stream[e] + taken
    BY <1>1, <2>2 DEF FlowTypeOK
  <2>4. Published(e)
    BY <2>1, <2>3 DEF Published
  <2>5. stream'[e] > 0
    BY <2>3, PutAssumption
  <2>6. QED BY <1>5, <2>1, <2>4, <2>5, ReturnAccount, FailAccount
<1>9. CASE LambdaFails(e)
  BY <1>9, FailAccount DEF LambdaFails, Published
<1>10. QED BY <1>2, <1>3, <1>4, <1>6, <1>7, <1>8, <1>9 DEF LambdaStep

\* A step that leaves Lambda and records alone and ends no success.
LEMMA MoveAccount ==
  ASSUME EInv, NEW e \in Execs, Account(e),
         stream' = stream,
         step'[e] \in Persisting => tries'[e] = tries[e] /\ step'[e] = step[e],
         HasFirehose /\ event'[e].persisted = TRUE => stream[e] > 0
  PROVE  RecordsFit(e)'
  BY DEF Account, RecordsFit

LEMMA ActorAccount ==
  ASSUME EInv, NEW e \in Execs, Account(e), Acts(e)
  PROVE  Account(e)'
<1>1. FlowTypeOK /\ Fits(state[e], step[e], event[e])
  BY DEF EInv, FlowFits
<1>2. CASE LambdaStep(e)
  BY <1>2, LambdaAccount
<1>3. CASE \E k \in Keys : Notify(e, k)
  <2>1. PICK k \in Keys : Notify(e, k)
    BY <1>3
  <2>2. /\ state[e] = "NotNotified" /\ state'[e] = "Queued" /\ step' = step
        /\ tries' = tries /\ stream' = stream /\ UNCHANGED dlqs
        /\ event'[e] = [NoDocument EXCEPT !.key = k]
    BY <1>1, <2>1 DEF Notify, FlowTypeOK
  <2>3. Unclassified(event'[e]) /\ event'[e].persisted # TRUE
    BY <2>2, AbsentDistinct DEF Unclassified, NoDocument
  <2>4. ~InDlq(e)'
    BY <2>2 DEF Account, MessagesFit, InDlq, dlqs
  <2>5. MessagesFit(e)'
    BY <2>2, <2>3, <2>4 DEF MessagesFit, InDlq
  <2>6. QED BY <2>2, <2>3, <2>5, MoveAccount DEF Account
<1>4. CASE StartExecution(e)
  <2>1. /\ state[e] = "Queued" /\ state'[e] = "PiiGuard" /\ step'[e] = "pii_guard"
        /\ stream' = stream /\ event' = event /\ UNCHANGED dlqs
    BY <1>1, <1>4, GotoDoes DEF StartExecution, StepIn, FirstStep, TaskStates
  <2>2. ~InDlq(e)' /\ Unclassified(event'[e]) /\ event'[e].persisted # TRUE
    BY <1>1, <2>1, AbsentDistinct DEF Account, MessagesFit, InDlq, dlqs, Before, Fits
  <2>3. MessagesFit(e)'
    BY <2>1, <2>2 DEF MessagesFit, InDlq
  <2>4. step'[e] \notin Persisting
    BY <2>1 DEF Persisting
  <2>5. RecordsFit(e)'
    BY <2>1, <2>2, <2>4, MoveAccount
  <2>6. QED BY <2>3, <2>5 DEF Account
<1>5. CASE SendToClassifyDlq(e) \/ SendToPersistDlq(e)
  <2>1. /\ state[e] \in DlqStates /\ stream' = stream /\ event' = event
        /\ Goto(e, "Succeeded") \/ Goto(e, "Failed")
        /\ Goto(e, "Succeeded") => InDlq(e)'
        /\ e \in classifyDlq' => e \in classifyDlq \/ state[e] = "SendToClassifyDlq"
    <3>1. CASE Goto(e, "Succeeded")
      <4>1. ~Goto(e, "Failed")
        BY <1>1, <3>1, GotoDoes
      <4>2. QED BY <1>5, <3>1, <4>1 DEF SendToClassifyDlq, SendToPersistDlq, DlqStates, InDlq
    <3>2. CASE ~Goto(e, "Succeeded")
      BY <1>5, <3>2 DEF SendToClassifyDlq, SendToPersistDlq, DlqStates, InDlq
    <3>3. QED BY <3>1, <3>2
  <2>2. /\ state'[e] \in {"Succeeded", "Failed"} /\ step'[e] = "idle"
        /\ state'[e] = "Succeeded" => InDlq(e)'
    <3>1. ASSUME NEW next \in {"Succeeded", "Failed"}, Goto(e, next)
          PROVE  state'[e] = next /\ step'[e] = "idle"
      BY <1>1, <3>1, GotoDoes DEF StepIn, TaskStates
    <3>2. QED BY <2>1, <3>1
  <2>3. event'[e] = event[e] /\ event[e].persisted = Absent
    BY <1>1, <2>1 DEF Fits, DlqStates
  <2>4. e \in classifyDlq' => Unclassified(event[e])
    BY <2>1 DEF Account, MessagesFit, Before
  <2>5. MessagesFit(e)'
    BY <2>2, <2>3, <2>4 DEF MessagesFit, Before, InDlq
  <2>6. step'[e] \notin Persisting /\ event'[e].persisted # TRUE
    BY <2>2, <2>3, AbsentDistinct DEF Persisting
  <2>7. RecordsFit(e)'
    BY <2>1, <2>6, MoveAccount
  <2>8. QED BY <2>5, <2>7 DEF Account
<1>6. CASE ExecutionTimesOut(e)
  <2>1. /\ state[e] \in TaskStates \cup DlqStates /\ state'[e] = "TimedOut"
        /\ step' = step /\ tries' = tries /\ stream' = stream /\ event' = event
        /\ UNCHANGED dlqs
    BY <1>1, <1>6 DEF ExecutionTimesOut, FlowTypeOK
  <2>2. ~InDlq(e)'
    BY <2>1 DEF Account, MessagesFit, InDlq, dlqs, TaskStates, DlqStates
  <2>3. MessagesFit(e)'
    BY <2>1, <2>2 DEF MessagesFit, InDlq, Before
  <2>4. HasFirehose /\ event'[e].persisted = TRUE => stream[e] > 0
    BY <2>1 DEF Account, RecordsFit
  <2>5. QED BY <2>1, <2>3, <2>4, MoveAccount DEF Account
<1>7. CASE DropNotification(e)
  <2>1. /\ state[e] = "Queued" /\ state'[e] = "Dropped"
        /\ step' = step /\ tries' = tries /\ stream' = stream /\ event' = event
        /\ UNCHANGED dlqs
    BY <1>1, <1>7 DEF DropNotification, FlowTypeOK
  <2>2. ~InDlq(e)'
    BY <2>1 DEF Account, MessagesFit, InDlq, dlqs
  <2>3. MessagesFit(e)'
    BY <2>1, <2>2 DEF MessagesFit, InDlq, Before
  <2>4. HasFirehose /\ event'[e].persisted = TRUE => stream[e] > 0
    BY <2>1 DEF Account, RecordsFit
  <2>5. QED BY <2>1, <2>3, <2>4, MoveAccount DEF Account
<1>8. CASE RepeatPut(e)
  BY <1>8 DEF RepeatPut, PutItem, flow, dlqs, Account, MessagesFit, RecordsFit, InDlq
<1>9. QED BY <1>2, <1>3, <1>4, <1>5, <1>6, <1>7, <1>8 DEF Acts, Progress

\* A step of one execution leaves the messages and the retries of the others.
LEMMA OthersAccount ==
  ASSUME EInv, NEW e \in Execs, NEW f \in Execs, f # e, Acts(e), Account(f)
  PROVE  Account(f)'
<1>1. FlowTypeOK
  BY DEF EInv
<1>2. /\ state'[f] = state[f] /\ step'[f] = step[f]
      /\ event'[f] = event[f] /\ stream'[f] = stream[f]
  BY <1>1, OthersStay
<1>3. tries'[f] = tries[f]
  <2>1. ASSUME NEW next, Goto(e, next) PROVE tries'[f] = tries[f]
    BY <1>1, <2>1 DEF FlowTypeOK, Goto
  <2>2. ASSUME NEW task, NEW next, NEW doc, Return(e, task, next, doc)
        PROVE  tries'[f] = tries[f]
    BY <2>1, <2>2 DEF Return
  <2>3. ASSUME Fail(e) PROVE tries'[f] = tries[f]
    BY <1>1, <2>1, <2>3 DEF FlowTypeOK, Fail
  <2>4. CASE \/ \E k \in Keys : Notify(e, k)
             \/ ExecutionTimesOut(e) \/ DropNotification(e) \/ RepeatPut(e)
    BY <2>4 DEF Notify, ExecutionTimesOut, DropNotification, RepeatPut, flow
  <2>5. CASE StartExecution(e) \/ SendToClassifyDlq(e) \/ SendToPersistDlq(e)
    BY <2>1, <2>5 DEF StartExecution, SendToClassifyDlq, SendToPersistDlq
  <2>6. CASE PiiGuard(e) \/ SkipRow(e) \/ LambdaFails(e)
    BY <2>2, <2>3, <2>6 DEF PiiGuard, SkipRow, LambdaFails
  <2>7. CASE Classify(e)
    BY <2>2, <2>7 DEF Classify
  <2>8. CASE Verify(e)
    BY <2>2, <2>8 DEF Verify
  <2>9. CASE PersistRow(e)
    BY <2>2, <2>3, <2>9 DEF PersistRow
  <2>10. CASE PublishRow(e)
    BY <2>2, <2>3, <2>10 DEF PublishRow
  <2>11. QED
    BY <2>4, <2>5, <2>6, <2>7, <2>8, <2>9, <2>10 DEF Acts, Progress, LambdaStep
<1>4. /\ f \in classifyDlq' <=> f \in classifyDlq
      /\ f \in persistDlq' <=> f \in persistDlq
  <2>1. CASE SendToClassifyDlq(e) \/ SendToPersistDlq(e)
    BY <2>1 DEF SendToClassifyDlq, SendToPersistDlq
  <2>2. CASE UNCHANGED dlqs
    BY <2>2 DEF dlqs
  <2>3. CASE LambdaStep(e)
    <3>1. UNCHANGED dlqs
      BY <2>3 DEF LambdaStep, PiiGuard, Classify, Verify, PersistRow, PutItem, SkipRow,
                  PublishRow, LambdaFails
    <3>2. QED BY <2>2, <3>1
  <2>4. CASE \/ \E k \in Keys : Notify(e, k)
             \/ StartExecution(e) \/ ExecutionTimesOut(e)
             \/ DropNotification(e) \/ RepeatPut(e)
    <3>1. UNCHANGED dlqs
      BY <2>4 DEF Notify, StartExecution, ExecutionTimesOut, DropNotification,
                  RepeatPut, PutItem
    <3>2. QED BY <2>2, <3>1
  <2>5. QED BY <2>1, <2>3, <2>4 DEF Acts, Progress
<1>5. MessagesFit(f)'
  BY <1>2, <1>4 DEF Account, MessagesFit, InDlq
<1>6. RecordsFit(f)'
  BY <1>2, <1>3 DEF Account, RecordsFit
<1>7. QED BY <1>5, <1>6 DEF Account

-----------------------------------------------------------------------------
(* The invariant.                                                          *)

LEMMA InitAccount == Init => AInv
<1> SUFFICES ASSUME Init, NEW e \in Execs PROVE Account(e)
  BY DEF AInv
<1>1. /\ state[e] = "NotNotified" /\ step[e] = "idle" /\ stream[e] = 0
      /\ event[e] = NoDocument /\ classifyDlq = {} /\ persistDlq = {}
  BY DEF Init
<1>2. MessagesFit(e)
  BY <1>1 DEF MessagesFit, InDlq, Before
<1>3. event[e].persisted # TRUE /\ step[e] \notin Persisting
  <2>1. event[e].persisted = Absent
    BY <1>1 DEF NoDocument
  <2>2. QED BY <1>1, <2>1, AbsentDistinct DEF Persisting
<1>4. stream[e] <= (MaxAttempts["Persist"] + 1) * PutAttempts
  <2>1. (MaxAttempts["Persist"] + 1) * PutAttempts \in Nat /\ stream[e] = 0
    BY <1>1, Attempts, OneAttemptMore
  <2>2. QED BY <2>1
<1>5. RecordsFit(e)
  BY <1>3, <1>4 DEF RecordsFit
<1>6. QED BY <1>2, <1>5 DEF Account

LEMMA AccountStep == EInv /\ AInv /\ [Next]_vars => AInv'
<1> SUFFICES ASSUME EInv, AInv, [Next]_vars, NEW f \in Execs PROVE Account(f)'
  BY DEF AInv
<1>1. Account(f)
  BY DEF AInv
<1>2. CASE UNCHANGED vars
  BY <1>1, <1>2 DEF vars, dlqs, Account, MessagesFit, RecordsFit, InDlq
<1>3. ASSUME NEW e \in Execs, Acts(e) PROVE Account(f)'
  BY <1>1, <1>3, ActorAccount, OthersAccount
<1>4. QED BY <1>2, <1>3 DEF Next, Acts

-----------------------------------------------------------------------------
(* What the invariant says of rows and of successes.                       *)

LEMMA RowsTraced == EInv /\ AInv => UnpublishedRowTraceable
<1> SUFFICES ASSUME EInv, AInv, HasFirehose, NEW c \in Calls,
                    table[c] # Absent, stream[table[c].writer] = 0
             PROVE  \/ state[table[c].writer] \in
                           {"Persist", "SendToPersistDlq", "Failed", "TimedOut"}
                    \/ table[c].writer \in persistDlq
  BY DEF UnpublishedRowTraceable
<1> DEFINE w == table[c].writer
<1>1. /\ state[w] \notin Early /\ Decided(event[w])
      /\ table[c].promptVersion = event[w].promptVersion
      /\ CallId(w) = c
  BY DEF EInv, RowsOwned
<1>2. w \in Execs /\ state[w] \in States /\ event[w] \in Document
  BY DEF EInv, RowsOwned, FlowTypeOK
<1>3. Account(w) /\ stream[w] = 0
  BY <1>2 DEF AInv
<1> HIDE DEF w
<1>4. ~Unclassified(event[w])
  BY <1>1, AbsentDistinct DEF Decided, Classified, Unclassified
<1>5. w \notin classifyDlq /\ state[w] # "SendToClassifyDlq"
  BY <1>3, <1>4 DEF Account, MessagesFit, Before
<1>6. event[w].persisted # TRUE
  <2>1. ~(stream[w] > 0)
    BY <1>3
  <2>2. QED BY <1>3, <2>1 DEF Account, RecordsFit
<1>7. event[w].persisted # FALSE
  BY <1>1, <1>2 DEF EInv, SkippedHasRow, w
<1>8. event[w].persisted = Absent
  BY <1>2, <1>6, <1>7 DEF Document, Or
<1>9. state[w] = "Succeeded" => w \in persistDlq
  BY <1>3, <1>5, <1>8 DEF Account, MessagesFit, InDlq
<1>10. state[w] \in {"Persist", "SendToPersistDlq", "Succeeded", "Failed", "TimedOut"}
  BY <1>1, <1>2, <1>5 DEF States, Early, TaskStates, DlqStates, Ended
<1>11. QED BY <1>9, <1>10 DEF w

LEMMA SuccessesTraced == EInv /\ AInv => SuccessAccounted
<1> SUFFICES ASSUME EInv, AInv, NEW e \in Execs, state[e] = "Succeeded"
             PROVE  \/ /\ e \in classifyDlq \cup persistDlq
                       /\ event[e].persisted = Absent
                       /\ e \in classifyDlq => stream[e] = 0
                    \/ /\ e \notin classifyDlq \cup persistDlq
                       /\ table[CallId(e)] # Absent
                       /\ event[e].persisted =
                             (table[CallId(e)].promptVersion = event[e].promptVersion)
                       /\ event[e].persisted /\ HasFirehose => stream[e] > 0
  BY DEF SuccessAccounted
<1>1. /\ Account(e) /\ event[e] \in Document /\ stream[e] \in Nat
      /\ event[e].key \in Keys
  BY DEF AInv, EInv, FlowTypeOK, FlowFits, Fits
<1>2. CallId(e) \in Calls
  BY <1>1, CallsAssumption DEF CallId
<1>3. CASE InDlq(e)
  <2>1. event[e].persisted = Absent
    BY <1>1, <1>3 DEF Account, MessagesFit
  <2>2. ASSUME e \in classifyDlq, stream[e] > 0 PROVE FALSE
    <3>1. event[e].promptVersion = Absent
      BY <1>1, <2>2 DEF Account, MessagesFit, Unclassified
    <3>2. /\ table[CallId(e)] # Absent
          /\ table[CallId(e)].promptVersion = Absent
      BY <2>2, <3>1 DEF EInv, PublishedHasRow
    <3>3. table[CallId(e)].promptVersion \in PromptVersions
      BY <1>2, <3>2 DEF EInv, RowsOwned, Decided, Classified
    <3>4. QED BY <3>2, <3>3, AbsentDistinct
  <2>3. e \in classifyDlq => stream[e] = 0
    BY <1>1, <2>2
  <2>4. QED BY <1>3, <2>1, <2>3 DEF InDlq
<1>4. CASE ~InDlq(e)
  <2>1. event[e].persisted = TRUE \/ event[e].persisted = FALSE
    BY <1>1, <1>4 DEF Account, MessagesFit, Document, Or
  <2>2. CASE event[e].persisted = TRUE
    <3>1. /\ table[CallId(e)] # Absent
          /\ table[CallId(e)].promptVersion = event[e].promptVersion
      BY <2>2 DEF EInv, PublishedHasRow
    <3>2. HasFirehose => stream[e] > 0
      BY <1>1, <2>2 DEF Account, RecordsFit
    <3>3. QED BY <1>4, <2>2, <3>1, <3>2 DEF InDlq
  <2>3. CASE event[e].persisted = FALSE
    <3>1. /\ table[CallId(e)] # Absent
          /\ table[CallId(e)].promptVersion # event[e].promptVersion
      BY <2>3 DEF EInv, SkippedHasRow
    <3>2. QED BY <1>4, <2>3, <3>1 DEF InDlq
  <2>4. QED BY <2>1, <2>2, <2>3
<1>5. QED BY <1>3, <1>4

-----------------------------------------------------------------------------
(* The theorems.                                                           *)

\* In every reachable state the messages, records and retries of every
\* execution fit its place in the flow.
THEOREM Accounting == Spec => [](EInv /\ AInv)
<1>1. EInv /\ AInv /\ [Next]_vars => (EInv /\ AInv)'
  BY EInvStep, AccountStep
<1>2. Init => EInv /\ AInv
  BY InitInv, InitAccount DEF IInv
<1>3. QED BY <1>1, <1>2, PTL DEF Spec

\* However often persist is retried, and whether or not a Lambda outlives its
\* execution, Firehose gets no more records than the attempts that the Retry of
\* main.tf allows send, each of them with the repetitions of boto3.
THEOREM DuplicatesBounded == Spec => []BoundedDuplicates
<1>1. EInv /\ AInv => BoundedDuplicates
  BY DEF AInv, Account, RecordsFit, BoundedDuplicates
<1>2. QED BY <1>1, Accounting, PTL

\* A row that analytics has no record of belongs to an execution that is
\* still at Persist, whose document is in the persist DLQ, or that failed or
\* timed out: no row is lost to analytics behind an answer that says it was
\* persisted.
THEOREM UnpublishedRowsTraceable == Spec => []UnpublishedRowTraceable
<1>1. EInv /\ AInv => UnpublishedRowTraceable
  BY RowsTraced
<1>2. QED BY <1>1, Accounting, PTL

\* An execution reported as succeeded has left its call in exactly one place:
\* in a DLQ and without an answer, or in the table and with an answer that
\* says whether the row there is of its own prompt version.
THEOREM SuccessesAccounted == Spec => []SuccessAccounted
<1>1. EInv /\ AInv => SuccessAccounted
  BY SuccessesTraced
<1>2. QED BY <1>1, Accounting, PTL

================================================================================
