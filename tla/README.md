# Formal models of call-center-admin

The repository classifies call-centre transcripts. A transcript lands in an S3
bucket, a Step Functions Express execution masks it, has a model label it with
a triple of codes (대/중/소), has a second model check a label the first was not
sure of, and writes a row of the DynamoDB table `consult-results`. Rows on which
the models disagree wait for a reviewer in a Streamlit page (the HITL UI), who
confirms, corrects or skips them.

This directory holds TLA+ models of that system and of the tools around it, the
TLC configurations that check them, and TLAPS proofs about the eight that are state
machines of the code.
Paths below are relative to the root of the repository.

## 1. Inventory

| Component | State | Operations | Talks to |
|---|---|---|---|
| Classification state machine, `infra/modules/classify-pipeline/main.tf` | state, retries and document of each execution | `PiiGuard`, `Classify`, `ConfidenceBranch`, `MarkAutoHigh`, `Verify`, `Persist`, the two `SendTo…Dlq` states, Retry, Catch, the five-minute limit | started by EventBridge, invokes the Lambdas, sends to SQS |
| `pii_guard` Lambda, `src/lambdas/pii_guard` | masked bucket | read, mask, put | S3 |
| `classify` Lambda, `src/lambdas/classify` | none | read masked text, ask the primary model | S3, Bedrock |
| `verify` Lambda, `src/lambdas/verify` | none | read masked text, ask the second model, compare three codes | S3, Bedrock |
| `persist` Lambda, `src/lambdas/persist`, `src/lib/persistence.py` | table row, Firehose record | conditional `put_item`, `put_record`, silent skip | DynamoDB, Firehose |
| Table `consult-results`, `infra/modules/storage/main.tf` | rows, three indexes, TTL | conditional writes, lagging index | pipeline and HITL UI |
| Review queue, `src/hitl_ui/pages/1_review_queue.py`, `hitl_lib/ddb_access.py` | page, selection and pending click of each session | open, select, three buttons, conditional `UpdateItem` | table, index, audit log |
| Audit trail, `hitl_lib/audit.py` | log stream and flag of the task | `emit_audit`, `_ensure_stream`, fallback to stdout | CloudWatch Logs |
| Authentication, `hitl_lib/auth.py` | cache of ALB keys, shared by the threads | signer, signature, expiry and group checks | ALB, key endpoint |
| Search and compliance pages, `streamlit_app.py` | script run of each session | group gate, queries, presigned URL | table, S3, audit |
| Taxonomy, `src/lib/taxonomy.py`, `scripts/parse_taxonomy.py` | list and current categories of the parser, JSON file | parse the workbook into a tree | prompt bundle, UI |
| PII patterns, `src/lib/pii_regex.py` | none | four substitutions in order, checksum | `pii_guard`, `persist` |
| Model output, `src/lib/{prompts,output_schema,bedrock_client,inference_adapter}.py` | none | offered codes; extract and validate the answer | `classify`, `verify`, evaluation |
| Prompt evaluation, `scripts/eval_prompt.py` | counters of a run, two CSV files | accuracy gate, label stability over repeated runs | Bedrock |
| AI review panel, `scripts/pr-review/*.sh`, `.github/workflows/pr-review.yml` | slots, responded list, flags, review file | parallel reviewers, retries, chair with fallback, verdict gate | CI |
| Cache warmer, smoke test, metrics, dashboards, alarms, analytics, network, CI | none of their own | declarations and stateless calls | AWS |

### What is hard about it

* **At-least-once triggers.** EventBridge may deliver a notification twice and
  `StartExecution` gives no execution name, so two executions can classify one
  call independently and meet on one row (`main.tf:657`).
* **Notifications that go.** EventBridge gives a notification up after a day or 185
  tries, and its target has neither a retry policy nor a dead letter queue.
* **Partial effects.** `put_item` and `put_record` are two effects of one Lambda.
  Either may have happened when the invocation fails and Step Functions retries.
* **Lambdas that outlive their execution.** An Express execution is cut off after
  five minutes; the Lambda it invoked still writes its row.
* **Uncaught states.** `PiiGuard` and `Verify` have Retry but no Catch.
* **Defaults.** `build_ddb_item` fills a missing verdict with `auto-high` and
  `confirmed` (`persistence.py:49`).
* **Two writers of one table.** `put_item` replaces a whole row while reviewers
  update it under a different condition.
* **Script reruns.** Every click runs the Streamlit page from the top, with a new
  query of an eventually consistent index, before the handler acts.
* **Lost responses.** boto3 repeats an `UpdateItem` whose response was lost, and
  the repeated call fails on the condition its own first effect has broken. It repeats
  `put_item` and `put_record` as well, so one attempt of `persist` can deliver several
  records (`persist/handler.py:57`).
* **The task stops** between a write and its audit record.
* **Shared process state.** The script threads of one Fargate task share the key
  cache and the flag of the log stream, without a lock around what they test.
* **One token, verified twice.** The gate and the audit record verify the header of
  the websocket's handshake separately, and it can expire in between. The gate asks for
  groups, the record for an email that the user pool does not require (`auth.py:168`).
* **Substitutions in a row.** Each PII pattern sees what the ones before have left,
  and a span that fails the checksum is passed over whole.
* **Failed calls in a measurement**, and processes killed between creating a file
  and writing its header.

What makes each part correct is in section 4, next to the run that checks it; the
hazards, each at its line, are in `PROJECT.json`.

## 2. Modules

| Module | Models | Role |
|---|---|---|
| `CallLedger` | what the table promises of a call | abstract specification |
| `ClassifyPipeline` | trigger, state machine, four Lambdas, table, Firehose, DLQs | core |
| `ReviewQueue` | page, index, conditional `UpdateItem`, audit log | component |
| `CallCenter` | `ClassifyPipeline` and `ReviewQueue` on one table | composition |
| `HitlSession` | sessions, token, gate, key cache, compliance page, log stream | component |
| `Taxonomy` | workbook parser, JSON file, select boxes of a correction | component |
| `AnswerSchema` | offered codes, and the replies taken for a classification | operators |
| `GoldenEval` | invocations of the prompt evaluation, on `AnswerSchema` | component |
| `PiiMask` | `mask()`, one replacement at a time | algorithm |
| `ReviewPanel` | the AI review of pull requests: matrix, chair, gate | component |
| `ClassifyPipelineProofs`, `ReviewQueueProofs`, `CallCenterProofs`, `HitlSessionProofs`, `GoldenEvalProofs`, `PiiMaskProofs`, `TaxonomyProofs`, `ReviewPanelProofs` | | theorems about the module of that name |
| `MC…` | | constants for TLC |

### `ClassifyPipeline`

`state[e]` is the state of execution `e` in the Amazon States Language
definition, `event[e]` the JSON document it passes on, `tries[e]` the retries the
current Task has used. `step[e]` says where the invoked Lambda is. It differs from
`state[e]` because a Lambda can go on after its execution has timed out.

* `Notify`, `StartExecution`, `DropNotification`: the EventBridge rule and its target.
  `Notify` may choose one key for several executions: that is a duplicate delivery, an
  Express execution that is run twice, and a second upload. A notification that is
  never accepted is dropped.
* `PiiGuard`, `Classify`, `Verify`: one action per Lambda, with `ConfidenceBranch`
  and `MarkAutoHigh` in `Classify`, since a Choice and a Pass state do nothing
  else. A Lambda that has had its effect either answers (`Return`) or fails
  (`Fail`: exception, Lambda timeout or lost response).
* `PersistRow`, `SkipRow`, `PublishRow`: `persist` up to `put_item`, its
  `ConditionalCheckFailedException` branch, and `put_record` with the answer.
  `PutItem` is the effect of `put_item` by itself. `RepeatPut` is that effect with its
  response lost, after which boto3 sends the item again; `PublishRow` delivers the record
  as often as boto3 has sent it, `PutAttempts` times at most.
* `LambdaFails`: failure before the next effect.
* `SendToClassifyDlq`, `SendToPersistDlq`: these states have neither Retry nor
  Catch, so a failed send fails the execution even if the message is delivered.
* `ExecutionTimesOut`: the limit of an Express execution, in any Task or DLQ state.

The masked text is one value per raw object. A model's answer is any triple, any
confidence and any prompt version of the constants; an answer the schema rejects
is a failing invocation. `writer` in a row is no attribute of the table: it names
the execution that put the row, so that properties can speak of it. The row's
`reason` and its second PII sweep are left out, no property depends on them.

### `ReviewQueue`

`table` and `index` are the rows and the copies the status index holds;
`IndexCatchesUp` lets the index jump to the present row of a call at any later
time, or never. `page[r]` is what the session of reviewer `r` shows, and `Rerun`
is a run of the script: the selectbox keeps its choice while its options are the
same, and is a new widget showing the first option when they changed. Which option
is first is left open, and so is the page limit of 20. `Click` reruns the script
and then starts the handler on the call that this rerun shows, with the codes of
the index copy. `Update` is a successful conditional `UpdateItem`, after which
the response arrives (phase `audit`) or is lost and boto3 tries again (phase
`update`); `Refuse` is `AlreadyProcessedError`, `Crash` any other error, `EmitAudit`
the record or its loss. `TaskRestart` replaces the Fargate task and every session
in it.

The button "교정 저장" never has its write accepted in the model. The generated
`prompts/v1.0/taxonomy_tree.json` is a flat list, `_walk` of the page expects
children and sets every `parent_code` to `None`, so the only top-level node with
children to offer is the one whose own code is `None`, and `UpdateItem` refuses a
NULL for the key of an index. `Taxonomy` shows the mismatch itself.

### `CallCenter`

Each step is a step of the pipeline or of the page and leaves the other's
variables alone; the table is common. `put_item` removes `correctedBy`, as it
replaces the item.

### `CallLedger`

A call is recorded at most once under a prompt version; it may be reclassified
under the same version; a reviewer decides it only while it waits. `CallCenter`
implements it, with `ledger <- [c \in Calls |-> Entry(table[c])]`.

### `HitlSession`

`run[s]` is the script run of session `s`: its page, the place it has reached, and
whether it waits for a public key. A key goes by the kid it belongs to, so that the
cache may in principle hold it under another one, and `signedBy` of a token names the
key that has signed it. `token` is the header of the handshake, which
Streamlit keeps as long as the websocket lives, `expired` the sessions whose token
has passed its `exp`. `cache`, `flag` and `stream` belong to the task and are shared;
`failed` is a history variable. `env` says which environment variables are set.

* `Connect`, `TokenExpires`, `Visit`: a new websocket, the passing of time, a rerun.
* `Verify` is `_verify_signature` up to the answer of the `lru_cache`, at each place
  that calls it: caption of the home page, gate, user name of the audit record and
  of the page. `Fetch` is the call behind the cache, so that two threads can fetch
  one key at once; a URLError and a text that is no key are cached as `None`, another
  exception is not. The order in which a full cache gives entries up is left open.
* `Lookup`, `Emit`, `EnsureStream`, `Put`: the compliance page between gate and link,
  with the test of the flag and the creation of the stream as separate steps, and
  responses that get lost.
* `TaskRestart`: a new task with a stream name, a flag and a cache of its own. One
  task at a time, as `desired_count` is 1.

Which `kid`, signature, groups and email a token has is data; the decoding of base64
and JSON is not modelled further. A verified token without an email is let in by
its groups, and its user is `unknown`. The unverified decoding under `LOCAL_DEV` is not
reached, since `current_user` and `current_groups` return before it.

### `AnswerSchema`, `GoldenEval`

`AnswerSchema` has the codes that a prompt bundle offers (`ValidCodes`), the trees it
refuses, and `Accepts`, which replies `parse_and_validate` returns; everything else
raises. The level of a code is not part of the check, as in the code: a middle code
in the place of a top one passes.

`GoldenEval` runs one invocation of `eval_prompt.py` after the other on files that
stay. `Invoke` reads arguments, golden set and tree, `Call` is one call of the model
with what the accuracy loop or `measure_row` makes of it, `OpenFile` and `WriteReport`
or `WriteHistory` the append to a CSV file with its header, `Kill` the end of the
process at any moment. Until a file is closed its lines are in a buffer, so a kill
after `OpenFile` leaves a file without them. `answers` is the history the properties
compare counters and lines with.

### `PiiMask`

Characters are digits, space, dash and any other. `Replace` is one call of a
replacement function on the leftmost longest match, `NextPattern` the next of the
four `sub` calls. `Card`, `Rrn`, `Phone` and `Account` say when a span matches; `pos`
is where the search goes on, while the lookarounds still see the whole text. A mask
is one character that is no digit. The
operators agree with the real `mask()` on some six hundred random texts of digits,
separators and letters.

### `Taxonomy`

`parse_xlsx` as one action per kind of row (`ParseTop`, `ParseMiddle`, `ParseLeaf`;
`ParseFails` is either of its assertions), with the list it builds and the two
nodes it carries from row to row. Codes and descriptions are named by the position
of their node, since no two of the 184 coded entries of `prompts/v1.0/taxonomy_tree.json`
share a code; both may
be missing, as 22 nodes below the top level of the real file have a parent without a
code. `WriteJson` is `to_json`, and `Choose` one pass through the select boxes of
the review page over that file. The reference for the parsed tree is `Parent`, the
nearest row before a node that is of a higher rank.

### `ReviewPanel`

One pull request through `run-panel.sh`, `synthesize.sh` and the gate step. A cell
is a model and a lens; `slot[c]` says whether its slot file has output, `cell[c]`
where its background process is, with the `.agentfail` and `.quota` markers as ways
to end, and `tries[c]` the attempts of `try_panel`. `flags` are the `*.flag` files.

* `Start` empties the slots, `responded.txt` and the flags of a work directory that
  an earlier run may have left full; `Abort` is every `exit 1`.
* `Preflight` sends the canary prompt to one Kiro model (the roster's order is left
  open) and `Launch` starts the cells whose CLI may run.
* `TryPanel` is one attempt of one cell: an answer, the agent fallback, the quota, a
  failure with or without output. Output that a failed last attempt has left stays
  in the slot, and `record_result` counts it: it never reads the `.rc` file.
* `Aggregate` is what follows `wait`: responded cells, degraded models and lenses,
  the severe flag.
* `RunPrimary`, `RunFallback`: a chair leaves any file, of which the last line and
  the number of `VERDICT:` lines matter. Primary and fallback are taken to be
  different models, as they are by default. `Banners` and `Gate` follow.

Banners that no property can tell apart (degraded models, degraded lenses) are left
out of `review`: no banner starts a line with `VERDICT:`.

## 3. Fairness

`FairSpec` of the pipeline has weak fairness on `Progress(e)` for each execution that
has started: a Lambda ends or is killed at its timeout, boto3 gives up repeating a put
before that (`RepeatPut` is not part of `Progress`), and Step Functions then moves on.
Nothing is assumed of EventBridge, which may drop a notification or keep it for ever, nor
of `ExecutionTimesOut`: an execution ends by its retries and catches alone. None of the
branches of a Lambda (answering, failing) is favoured. `FairSpec` of the panel has weak fairness on `Next`: every call of a CLI
runs under `timeout`, and the scripts go on. Which way an attempt ends is open.
`FairSpec` of the evaluation has weak fairness on the work of an invocation: boto3
gives up on a call after its timeouts, and the script goes on. Nobody has to invoke
it again, and nothing is assumed of `Kill`. `ReviewQueue` and `HitlSession` assume no
fairness: people need not act and the index need not catch up.

## 4. Runs

| Run | Result | What it shows |
|---|---|---|
| `pipeline_safety` | holds | A row is the outcome of one execution on its own call with the verdict its confidence and codes call for (`RowJustified`); a skip leaves neither row nor record (`SkipLeavesNoTrace`); a succeeded execution has its call in a DLQ, in a row of its version, or behind an older row (`SuccessAccounted`); an unpublished row is traceable (`UnpublishedRowTraceable`); an execution has no more records in analytics than its attempts of `persist` have sent, the repetitions of boto3 included (`BoundedDuplicates`); a row keeps its prompt version (`PromptVersionPreserved`); an execution that has started ends and leaves no Lambda that runs on (`EveryExecutionEnds`) |
| `review_safety` | holds | The first decision on a call wins (`FirstWriteWins`); every audit record names the user and decision the row holds (`AuditedIsEffective`); a decision writes codes of the call it is about, however queue, selection and index have moved (`CodesOfOwnCall`) |
| `center_safety` | holds | A row is the item of its execution, or that item with one reviewer's decision on it where the models disagreed (`RowLineage`); pipeline and reviewers together implement the ledger (`ImplementsLedger`) |
| `hitl_session` | holds | Nobody is past a gate without a token of a group of the page that is signed by the very key it names, whatever the shared cache has kept (`GateHolds`); an entitled user is refused only for an expired token or a failed fetch of its own key (`RefusalHasCause`); no link is shown before its record, which names its user unless the token carries no email, has expired, or its key is gone since the gate (`LinkIsOnRecord`); the shared flag never promises a stream that is not there (`FlagMeansStream`) |
| `golden_eval` | holds | The accuracy gate opens at four of five right answers, failed calls counted as wrong (`GateIsEarned`); a variance run passes only with one and the same answer to every call about a sample (`StabilityIsEarned`); a line of the report has the numbers of its own sample (`ReportIsObserved`); one header per file, unless a process was killed before it (`HeaderFirst`); an invocation ends (`EvaluationEnds`) |
| `pii_left` | holds | No resident number, phone number or account number is left in the output, neither beside a mask nor across what a later pattern replaced (`NothingLeft`); a card number with a valid checksum that no separator joins to another number is masked whole and as a card, whatever stands around it (`LoneCardMasked`) |
| `taxonomy_tree` | holds | The parsed tree is that of the sheet (`TreeIsOfSheet`); a missing description is the nearest one above (`InheritsNearest`); the two directions of an edge in the file agree (`LinksAgree`) |
| `panel` | holds | A pass takes an answer for every lens, two models, every Kiro model through the preflight and no agent fallback (`PassIsEarned`); no Kiro model sees the diff before all passed the preflight (`DiffWithheld`); flags of an earlier run never count and each flag has its cause (`FlagsAreOfThisRun`); the gate finds a verdict in whatever the chair's script leaves (`GateFindsVerdict`); a review ends (`ReviewEnds`) |
| `review_shown_call` | violated | A click acts on a call the reviewer was not looking at |
| `center_decision` | violated | An execution puts a reviewer's decision away. The lines it is held against promise that no second reviewer does; the put of the pipeline goes past the same lock |
| `pii_card` | violated | A short number before a card number keeps the card number from being masked |
| `taxonomy_cascade` | violated | Below a top category with a code the select boxes offer nothing |

The violated runs each state what a document, a comment or a test of the repository
says; `PROJECT.json` quotes it under "findings".

Smaller things met on the way, which no run is spent on: executions carry no name,
so a duplicate notification gives a call a second verdict under one prompt version,
where the classification design (line 665) counts on one; `PiiGuard` and `Verify`
have no Catch, so their last failure fails the execution where ADR-007 (lines 40 and
38) sends it on; the DLQ states end the execution as a success where ADR-007 (lines
65 and 66) lets it fail; with dashes the card number of `pii_card` comes out as
`1 [MASKED_ACCOUNT]-0366`, its last group in the clear; of the five samples of the
golden set only the first is labelled; a failed fetch of a public key stays in the cache
for as long as the task lives, so one bad moment refuses every later token of that key;
a reviewer whose
`UpdateItem` lost its response, or whose page still shows a row it has decided, is
told that another reviewer was first; a token that expires while the compliance page is
open, a key that cannot be fetched again or a token without an email makes the record of a link name `unknown`,
where ADR-012 lists the user among its fields (`LinkIsOnRecord` says when); a task that stops between a write and
`emit_audit` leaves a decision without a record, as does a failing log group; the
flow chart of ADR-011 draws `emit_audit` before the `UpdateItem` while the code emits after it;
`ExecutionsFailed` counts neither the executions that end in a DLQ state nor those
that time out, so the alarm on it sees neither (the DLQs have alarms of their own); `st.warning` is followed by
`st.rerun`, so its text is gone at once; the HITL backlog runbook says 0.85 where
`main.tf` has 0.80; the daily job of design 7.1 that runs calls without a row again
is not in the code; the runbook `pr-review-panel.md` takes each of its three banners
to mean that the Kiro half of the matrix has stopped contributing (line 14), while
one cell out of quota is enough for the banner and the others still count, in a
review that may pass; the header of `pr-review.yml` counts 4 models and 16 cells
where the roster has three models.

### Bounds, and why they are enough

* *Two executions* (`Execs`): what goes wrong between executions goes wrong between
  two writers of one row; the proofs of section 5 cover any number.
* *One raw object* in `pipeline_safety`, so that both executions meet on its row: a
  duplicate delivery and a second upload alike. In `center_safety` *two raw objects of
  one call*, so that they also meet with different transcripts.
* *Two attempts of boto3* (`PutAttempts`) in `pipeline_safety`, where the client's default
  is five: one record per attempt and more than one. `RepeatPut` has no bound, as the row
  is the same each time. The `center` runs publish nothing, and have one.
* *Codes*: two triples that differ in the last code only, which a comparison of
  the upper levels would not tell apart.
* *Confidences* 79 and 80: the two sides of the strict threshold 0.80.
* *Two prompt versions* in `pipeline_safety`, so that the condition of `put_item`
  both succeeds and fails on an existing row.
* *One retry* of each Task in `pipeline_safety`: it gives every Task a first
  attempt, a retry and a last failure. `main.tf` has three retries, five for `Classify`.
* `HasFirehose` is TRUE in `pipeline_safety`, so that the gap between the two
  effects of `persist` exists, and FALSE in the `center` runs, where `persist` answers
  at `put_item`: the two values between them take every branch.
* *Two reviewers and two calls* in `review_safety`: a race on one call, and a queue
  that changes under an open page. `center_safety` has one reviewer and no retries: its
  races are between two executions and a reviewer, and those of two reviewers are in
  `review_safety`. The theorems about `CallCenter` hold for any number.
* *Two sessions, two keys and a cache of one* in `hitl_session`: two threads fetch one
  key or two keys at once, and each new key drives the other out, where the code's
  cache of 64 needs 65 keys for it. The six tokens are a good one, one of another
  key and group, one for each check that can refuse it (the wrong signature is that of
  the other key), and one without an email; the environments are the
  deployed one and one for each variable the code looks at.
* *Six calls* (`MaxCalls`) over all invocations and *three runs* (`MaxRuns`) in
  `golden_eval`: five samples, of which four right answers are exactly the bound of
  0.80, in one invocation, or a variance run of two samples with three calls each, and
  shorter invocations after one another on the same files. The replies have one for
  every reason to refuse one, and codes of one tree that the other does not have.
* *Five rows* in `taxonomy_tree`: enough for two top categories with a middle one each
  and a leaf, in every order, and for a leaf that follows a new top category.
* *Three models, two lenses, two attempts* in `panel`: the roster and the default of
  `PANEL_RETRIES`, and the fewest lenses of which one can be left out while every
  model answers. The diff is over `KIRO_DIFF_CAP`, so that its flag is set.
* *Three pieces* in `pii_left`: two numbers of any two kinds with a gap between them,
  or three side by side, so that every mask meets every kind of number on each side,
  matches that begin in one number and end in the next included. The card numbers have
  16 and 19 digits, the latter the most that the pattern takes.
* `pii_card` takes the card number of the unit test in three notations, with and
  without a short number or a word before it.
* Expiry of rows after 365 days lies beyond every behaviour of the runs.

Symmetry over calls, reviewers, sessions, executions and raw objects is used in
`review_safety`, `center_safety` and `hitl_session`, which check invariants and action
properties only, never with a liveness property. Deadlock is checked in `hitl_session`,
where a user can always connect again, and nowhere else: when every notification the
bound allows has ended, every call is decided or the file is written, the system
rightly stops.

## 5. Proofs

`ClassifyPipelineProofs` proves, for any sets of calls, raw objects, executions,
codes, confidences and prompt versions and any number of retries:

* `TypeCorrect`: `Spec => []TypeOK`
* `RowsJustified`: `Spec => []RowJustified`
* `SkipsLeaveNoTrace`: `Spec => []SkipLeavesNoTrace`
* `PromptVersionsPreserved`: `Spec => PromptVersionPreserved`

**Argument.** `RowJustified` speaks of a row and of the document of its writer,
and is not inductive: nothing in it says that a document which reaches `put_item`
carries a verdict, nor that the writer's document stays as it is. The inductive
invariant `IInv` adds

* `FlowFits`: for each execution, state, step and document fit together (an
  execution at `Verify` has a classified document below the threshold, one at
  `Persist` a decided one, an ended one has a Lambda only if it timed out);
* `RowsWritten`: a row is the item its writer's document still describes, and the
  verdict fits the document;
* `RowsOwned`: the writer of a row has decided, is past `put_item`, and gave the row its
  prompt version;
* `PublishedHasRow`: an execution that has published or has answered "persisted"
  finds a row of its own prompt version;
* `SkippedHasRow`: one that has answered "skipped" finds a row of another version.

All but `TypeOK` and `RowsWritten` make up `EInv`, which speaks of a row only by its
writer and its prompt version: it survives anybody who updates other attributes.
`SkipLeavesNoTrace` follows from the last two, since a row keeps its prompt
version. Each kind of step is handled by one lemma; the lemmas about `Goto`,
`Return` and `Fail` carry what the Lambdas have in common. `LedgerStep`, which the
theorem about the whole system uses, maps a `PutItem` to `Record` on an absent row and
to `Reclassify` on a present one, and every other step to a stutter.

From there the module goes on to what the executions account for:

* `SuccessesAccounted`: `Spec => []SuccessAccounted`
* `UnpublishedRowsTraceable`: `Spec => []UnpublishedRowTraceable`
* `DuplicatesBounded`: `Spec => []BoundedDuplicates`

Its invariant `AInv` says of each execution which messages it can have sent
(`MessagesFit`: only an unclassified document is in the classify DLQ, and a success
has an answer or a message) and how many records it has published (`RecordsFit`: at
most `PutAttempts` for each of its retries while an attempt runs, and for one attempt
more when it has ended). The second is what makes the bound inductive: a retry counts
before the attempt that publishes.

`ReviewQueueProofs` proves, for any sets of calls, reviewers and codes:

* `ReviewTypeCorrect`: `Spec => []TypeOK`
* `FirstDecisionWins`: `Spec => FirstWriteWins`
* `AuditTrailEffective`: `Spec => []AuditedIsEffective`
* `DecisionsKeepCodes`: `Spec => CodesOfOwnCall`

`AuditedIsEffective` is not inductive: nothing in it says that a handler about to
emit its record has a decision that holds. `DecisionHeld` adds that, and `RowsFit`
that table and index hold rows and that a confirmation carries codes. The heart is
`UpdateStep`: an accepted write meets a waiting row, so it is no row that a record
or another handler speaks of. For `CodesOfOwnCall`, `CodesFit` follows the codes from the
row over the index copy to the click.

`CallCenterProofs` proves, for any number of executions and reviewers on one table:

* `CenterTypeCorrect`, `LineageHolds`: `CenterSpec => []` of `CenterTypeOK` and
  `RowLineage`
* `CenterIsLedger`: `CenterSpec => ImplementsLedger`

A decided row is not the item of its writer, so `IInv` does not hold here. `EInv` and
`AInv` do, because a reviewer changes neither writer nor prompt version, and the
pipeline's lemmas are stated about them; `CInv` adds `RowLineage`, the types, and what
the pages hold: a confirmation carries codes (`ConfirmHasCode`) and a page shows a call
it offers (`PagesOffer`). `WaitingRow` is the heart: a row that a reviewer may decide is
an untouched item, so one decision never lands on another. `LineageKept` shows that
`put_item` begins a lineage without a reviewer, and the refinement maps an accepted
`UpdateItem` to `Decide`.

`HitlSessionProofs` proves, for any number of sessions, keys and tokens, any
environments and any size of the cache:

* `TypeCorrect`, `GateAlwaysHolds`, `RefusalsHaveCauses`, `LinksAreOnRecord`,
  `FlagsMeanStreams`: `Spec => []` of `TypeOK`, `GateHolds`, `RefusalHasCause`,
  `LinkIsOnRecord` and `FlagMeansStream`

The strengthening is about what the threads share: `FetchOf` says that a thread waits
for a key only for a token that nothing but the key can refuse any more, which is what
its test before the fetch still means after others have moved on; `CacheInv` that a key
is kept under its own kid and that one cached as missing has had a failed fetch;
`NamedOf` that a run which is about to write its record has a name or the cause for
having none.

`ReviewPanelProofs` proves, for any roster and lenses, any number of attempts and
whatever flags, slots and answers an earlier run has left:

* `PanelTypeCorrect`, `DiffsWithheld`, `GateFindsVerdicts`, `PassesAreEarned`,
  `FlagsAreCaused`: `Spec => []` of `TypeOK`, `DiffWithheld`, `GateFindsVerdict`,
  `PassIsEarned` and `FlagsAreOfThisRun`

`PInv` follows the run from script to script: an attempt of a Kiro cell means a complete
preflight (`CellsFit`), a flag means its cause once the work directory is clean
(`FlagsFit`), the responded cells are those with output when the chair starts
(`CountsFit`), and a severe run has FAIL in its last line from the banners on
(`ReviewFits`). `FloorIs` of the proof turns the counts of the coverage floor into
cells, with the library's facts about finite sets.

`GoldenEvalProofs` proves, for any golden sets, trees and replies, any number of samples
and runs, and invocations that are killed anywhere:

* `EvalTypeCorrect`, `GatesAreEarned`, `StabilitiesAreEarned`, `ReportsAreObserved`,
  `HeadersComeFirst`: `Spec => []` of `TypeOK`, `GateIsEarned`, `StabilityIsEarned`,
  `ReportIsObserved` and `HeaderFirst`

The properties compare the counters with all calls at once, the code counts one call
after the other. `GInv` closes the gap: `Tally` says what a Counter and its errors are of
a stretch of the calls, `RowsTally` that the rows cut the calls into stretches of `runs`
each with the rest in the present Counter, `Compared` that an accuracy run has counted
the samples answered so far, `Judged` that the exit code is that of the rows, `FilesFit`
what a file lacks while it is open. One call extends a stretch by one answer (the
lemmas on `Hits` and `Units`), and the last of a sample closes it; the rest is the
arithmetic of `runs * Len(rows)`.

`PiiMaskProofs` proves, for texts of any length:

* `MaskTypeCorrect`, `NothingIsLeft`: `Spec => []` of `TypeOK` and `NothingLeft`
* `LoneCardsMasked`: `Spec => LoneCardMasked`

`NothingLeft` says nothing of the text that is being put together. `MInv` adds that what
is put out is already without numbers of the pattern at work and of those before it
(`OutClean`), and that the search goes on behind a mask and in front of no digit
(`Border`). The heart is `SewnNumber`: output, a piece of the text and a mask are sewn
together, and a number in the result lies in the output or in the piece, because it
has neither masks nor letters in it, and at each seam the lookarounds see what they saw
in the text. `NumberMoved` carries it back: a copy of a number that stands alone is a
number of the same kind, with as many digits and its separators at the same places.
The argument fails for cards, which have no lookahead, and so does the property
(`pii_card`). `LoneCardMasked` follows from the pattern alone: a match that begins before
the number would have to cross a gap that the pattern does not allow (`EndsBefore`), and
one that begins with it cannot go on behind it (`EndsWith`).

`TaxonomyProofs` proves, for workbooks of any length:

* `TreeTypeCorrect`, `TreesAreOfSheets`, `InheritanceIsNearest`, `LinksAlwaysAgree`:
  `Spec => []` of `TypeOK`, `TreeIsOfSheet`, `InheritsNearest` and `LinksAgree`

`TInv` ties the two categories that the parser carries from row to row to the list
(`CurrentFits`: the top one is the last of its rank, and the middle one comes after it)
and says of each node what it owes to the nearest one above it (`NodeFits`).
`NewNodeFits` is the heart: a node at the end of the list leaves what is above every
other node alone. `InheritedIsEffective` shows that the two levels at which a leaf
looks for a description are all there are.

**Assumptions** are the named ASSUMEs of the modules. `ClassifyPipeline`: `CallOf` maps
keys to calls, codes are triples, confidences are percentages, retries are natural
numbers, boto3 sends at least once, and `Absent` differs from every value it stands in for. `CallCenter`: `Absent`
is no call, no reviewer and no decided row. `GoldenEval`: bounds are natural numbers,
`Absent` is no expected code and not the empty file, the codes of a reply are a function
on the levels, and leaving unlabelled samples out of a golden set gives a sequence of
its labels; the last is true of every set, but `SelectSeq` is recursive and beyond the
provers. `PiiMask`: a text is a sequence of characters. `HitlSession`: the shape of
tokens and environments, a cache of at least one entry, and neither `Absent` nor `"none"` is a key.
`ReviewPanel`: finitely many Kiro models, the tool model is none of them, at least one
attempt. `Taxonomy`: `MaxRows` is a natural number. `ReviewQueueProofs` uses none.

**Only model-checked**: liveness (`EveryExecutionEnds`, `ReviewEnds`,
`EvaluationEnds`), which is outside what TLAPS proves, as are ENABLED, facts by induction
over data and RECURSIVE operators; no module declares one. Every invariant, every
action property and the refinements that the passing runs check are theorems.

## 6. Not modelled

* *Cache warmer* and `warm()`: a scheduled call to the model that keeps no state; its
  failure changes none either.
* *Metrics, dashboards, alarms, analytics, networks, IAM, CI, `e2e_smoke.py`*:
  declarations, or a script that only looks at what others have done.
* *The queries of the search page and the agent and category indexes*: they read and
  show. Rows expire after 365 days, beyond every behaviour modelled.
* *The text of prompts*, the markdown of the tree and the search for the workbook by
  its name; of the review panel the wording of the prompts, the scrubbing of secrets
  and the upsert of the comment.
* *The second PII sweep of `persist`* changes only the reason, which no property tells
  apart; the counts of `MaskStats` are not kept.

Four hazards have no property. A transcript that is uploaded again between `classify`
and `verify` gives each model another text (`verify/handler.py:62`), and no document
says that both have to judge the same one. A task that stops between a decision and its
audit record (`ddb_access.py:135`) leaves none, as `emit_audit` is best effort by its
docstring. What a timed-out last attempt of a panel cell has written counts as its
answer (`lib.sh:24`), and nothing says that an answer has to be complete. A
notification that EventBridge drops (`main.tf:657`) leaves its transcript unclassified,
which the code cannot keep it from and no document rules out. The models
have the last three as steps, the first not: they keep one masked text per raw object.

## 7. Plan

Done: the pipeline with its ledger, the reviewers and the table both write, sessions
and audit trail, taxonomy, answers and evaluation, masking, review panel, and the proofs
of section 5, which cover every safety property of the passing runs. What is left, in
order of what it is worth: versions of a transcript, so that the texts of `classify` and
`verify` can differ; an abstract specification of the review queue (one decision per
waiting row, and its record) that `ReviewQueue` and `CallCenter` both implement.
