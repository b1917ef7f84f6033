----------------------------- MODULE GoldenEval -----------------------------
(***************************************************************************)
(* The evaluation of a prompt on the golden set: one invocation of         *)
(* eval_prompt.py after the other, each with its arguments, the replies of *)
(* the model it counts, its exit code and the line or lines it appends to  *)
(* a CSV file. With runs = 1 it measures accuracy, with more it measures   *)
(* whether the labels of a sample stay the same.                           *)
(*                                                                         *)
(* Source: scripts/eval_prompt.py, with AnswerSchema for the model's       *)
(* replies.                                                                *)
(***************************************************************************)
EXTENDS AnswerSchema, Sequences, FiniteSetsExt

CONSTANTS
    Goldens,     \* golden files: sequences of expected label triples
    Trees,       \* taxonomy trees of the prompt directories
    ModelSays,   \* replies of the model
    TBD,         \* the code of a sample that nobody has labelled
    MaxRuns,     \* bound: argument --runs
    MaxCalls     \* bound: calls of the model over all invocations

Expected == UNION {{golden[i] : i \in DOMAIN golden} : golden \in Goldens}

\* The samples, and with --skip-tbd only those that somebody has labelled.
Labelled(golden, skip_tbd) ==
    IF skip_tbd THEN SelectSeq(golden, LAMBDA expected : expected[1] # TBD) ELSE golden

ASSUME BoundsAssumption == MaxRuns \in Nat /\ MaxCalls \in Nat
ASSUME AbsentAssumption == Absent # <<>>
ASSUME GoldensAssumption ==
    /\ \A golden \in Goldens, skip_tbd \in BOOLEAN :
          Labelled(golden, skip_tbd) \in Seq(Expected)
    /\ \A expected \in Expected : Absent \notin {expected[k] : k \in Levels}
ASSUME RepliesAssumption ==
    \A reply \in ModelSays : reply.codes = [k \in Levels |-> reply.codes[k]]

VARIABLES
    phase,    \* where the invocation is
    runs,     \* argument --runs
    tree,     \* taxonomy_tree.json of argument --prompt-dir
    samples,  \* the golden set, after --skip-tbd
    counts,   \* measure_row: the Counter of the present sample
    errors,   \* measure_row: its failed calls
    rows,     \* RowStability of the samples measured so far
    correct,  \* right codes at each level
    header,   \* write_header
    exit,     \* exit code
    history,  \* eval-history.csv: its lines, or Absent
    report,   \* variance-report.csv
    answers,  \* history variable: what every call has come to
    calls,    \* history variable: calls of all invocations, for MaxCalls
    cut       \* history variable: an invocation was killed before its header

counters == <<counts, errors, rows, correct>>
files == <<history, report>>
arguments == <<runs, tree, samples>>
vars == <<phase, arguments, counters, header, exit, files, answers, calls, cut>>

Measuring == runs > 1
Triples == [Levels -> ValidCodes(tree)]
NoCounts == [t \in {} |-> 0]

\* The answers that a Counter has counted, one by one, and their number.
Units(f) == UNION {{t} \X (1..f[t]) : t \in DOMAIN f}
Sum(f) == Cardinality(Units(f))

-----------------------------------------------------------------------------
(* RowStability.                                                           *)

Distinct(row) == Cardinality(DOMAIN row.counts)
Modal(row) == IF DOMAIN row.counts = {} THEN 0 ELSE Max({row.counts[t] : t \in DOMAIN row.counts})

\* Mutant of Stable: failed calls are not looked at.
StableWhenAnswered(row) == Distinct(row) = 1

Stable(row) == row.errors = 0 /\ Distinct(row) = 1

\* Columns of a line of the report.
Columns(row) ==
    [distinct |-> Distinct(row), modal |-> Modal(row), errors |-> row.errors,
     successful |-> Sum(row.counts), stable |-> Stable(row)]

\* A line of a CSV file: the header, a line of the report, or one of the history.
HeaderLine == [columns |-> "names"]
Line ==
    {HeaderLine}
    \cup [distinct : Nat, modal : Nat, errors : Nat, successful : Nat, stable : BOOLEAN]
    \cup [n : Nat, correct : [Levels -> Nat]]

-----------------------------------------------------------------------------
(* main, up to the first call.                                             *)

TypeOK ==
    /\ phase \in {"ended", "calling", "writing"}
    /\ runs \in 0..MaxRuns /\ tree \in Trees
    /\ samples \in Seq(Expected)
    /\ \A t \in DOMAIN counts : t \in Triples /\ counts[t] \in 1..runs
    /\ errors \in 0..runs /\ Len(rows) <= Len(samples)
    /\ correct \in [Levels -> 0..Len(samples)]
    /\ header \in BOOLEAN /\ exit \in {Absent, 0, 1, 2}
    /\ calls \in 0..MaxCalls /\ cut \in BOOLEAN
    /\ Len(answers) <= runs * Len(samples)
    /\ history \in {Absent} \cup Seq(Line) /\ report \in {Absent} \cup Seq(Line)

NothingCounted ==
    /\ counts' = NoCounts /\ errors' = 0 /\ rows' = <<>>
    /\ correct' = [k \in Levels |-> 0]
    /\ answers' = <<>>

\* A bad number of runs ends the invocation before any file is read.
BadRuns ==
    /\ phase = "ended"
    /\ runs' = 0 /\ exit' = 2
    /\ NothingCounted
    /\ UNCHANGED <<phase, tree, samples, header, files, calls, cut>>

\* The golden set is read, and if there is something to evaluate the tree. A
\* malformed tree is an exception, so exit code 1.
Invoke(golden, skip_tbd) ==
    /\ phase = "ended"
    /\ runs' \in 1..MaxRuns
    /\ samples' = Labelled(golden, skip_tbd)
    /\ calls + runs' * Len(samples') <= MaxCalls
    /\ \/ samples' = <<>> /\ UNCHANGED <<phase, tree>> /\ exit' = 0
       \/ /\ samples' # <<>> /\ tree' \in Trees
          /\ \/ ~WellFormed(tree') /\ UNCHANGED phase /\ exit' = 1
             \/ WellFormed(tree') /\ phase' = "calling" /\ exit' = Absent
    /\ NothingCounted
    /\ UNCHANGED <<header, files, calls, cut>>

-----------------------------------------------------------------------------
(* The calls of the model.                                                 *)

\* The sample that the next call is about.
Present == IF Measuring THEN Len(rows) + 1 ELSE Len(answers) + 1

Times(t) == IF t \in DOMAIN counts THEN counts[t] ELSE 0

\* Mutant of Count: labels that differ in the lowest code only are one label.
CountTopTwo(answer) ==
    LET label == CHOOSE u \in DOMAIN counts \cup {answer} : \A k \in 1..2 : u[k] = answer[k]
    IN [t \in DOMAIN counts \cup {label} |-> Times(t) + (IF t = label THEN 1 ELSE 0)]

Count(answer) ==
    [t \in DOMAIN counts \cup {answer} |-> Times(t) + (IF t = answer THEN 1 ELSE 0)]

\* Mutant of Measure: the Counter is shared by the rows.
MeasureShared(answer) ==
    LET row == [counts |-> IF answer = Absent THEN counts ELSE Count(answer),
                errors |-> IF answer = Absent THEN errors + 1 ELSE errors]
        last == Len(answers) + 1 = runs * (Len(rows) + 1)
    IN /\ rows' = IF last THEN Append(rows, row) ELSE rows
       /\ counts' = row.counts
       /\ errors' = IF last THEN 0 ELSE row.errors
       /\ UNCHANGED correct

\* measure_row: one of its calls, and with the last one of the runs a row.
Measure(answer) ==
    LET row == [counts |-> IF answer = Absent THEN counts ELSE Count(answer),
                errors |-> IF answer = Absent THEN errors + 1 ELSE errors]
        last == Len(answers) + 1 = runs * (Len(rows) + 1)
    IN /\ rows' = IF last THEN Append(rows, row) ELSE rows
       /\ counts' = IF last THEN NoCounts ELSE row.counts
       /\ errors' = IF last THEN 0 ELSE row.errors
       /\ UNCHANGED correct

\* The accuracy loop: a failed call is right at no level.
Compare(answer) ==
    /\ correct' = [k \in Levels |->
          IF answer # Absent /\ answer[k] = samples[Present][k] THEN correct[k] + 1
          ELSE correct[k]]
    /\ UNCHANGED <<counts, errors, rows>>

\* Mutant of Call: after a call that fails everything is measured again.
CallAgain ==
    /\ phase = "calling" /\ Len(answers) < runs * Len(samples)
    /\ \E reply \in ModelSays :
          LET answer == Classified(reply, ValidCodes(tree))
          IN IF answer = Absent THEN NothingCounted /\ calls' = calls - Len(answers)
             ELSE /\ IF Measuring THEN Measure(answer) ELSE Compare(answer)
                  /\ answers' = Append(answers, answer)
                  /\ calls' = calls + 1
    /\ UNCHANGED <<phase, arguments, header, exit, files, cut>>

\* adapter.classify. A call that raises on its way fails like a bad reply.
Call ==
    /\ phase = "calling" /\ Len(answers) < runs * Len(samples)
    /\ \E reply \in ModelSays :
          LET answer == Classified(reply, ValidCodes(tree))
          IN /\ IF Measuring THEN Measure(answer) ELSE Compare(answer)
             /\ answers' = Append(answers, answer)
    /\ calls' = calls + 1
    /\ UNCHANGED <<phase, arguments, header, exit, files, cut>>

-----------------------------------------------------------------------------
(* The CSV files and the exit code.                                        *)

Opened(file) == IF file = Absent THEN <<>> ELSE file
Lines(file, new) == file \o (IF header THEN <<HeaderLine>> ELSE <<>>) \o new

\* Mutant of OpenFile: a file that is there already is taken for a new one.
OpenAfresh ==
    /\ phase = "calling" /\ Len(answers) = runs * Len(samples)
    /\ phase' = "writing"
    /\ header' = TRUE
    /\ report' = IF Measuring THEN Opened(report) ELSE report
    /\ history' = IF Measuring THEN history ELSE Opened(history)
    /\ UNCHANGED <<arguments, counters, exit, answers, calls, cut>>

\* The file is opened for appending, which creates it, and gets a header if it
\* was not there before.
OpenFile ==
    /\ phase = "calling" /\ Len(answers) = runs * Len(samples)
    /\ phase' = "writing"
    /\ header' = ((IF Measuring THEN report ELSE history) = Absent)
    /\ report' = IF Measuring THEN Opened(report) ELSE report
    /\ history' = IF Measuring THEN history ELSE Opened(history)
    /\ UNCHANGED <<arguments, counters, exit, answers, calls, cut>>

\* Mutant of Passes: the bound itself fails.
PassesAbove == 100 * correct[1] > 80 * Len(samples)

\* The accuracy of the top level against the gate of 0.80.
Passes == 100 * correct[1] >= 80 * Len(samples)

WriteReport ==
    /\ phase = "writing" /\ Measuring
    /\ report' = Lines(report, [i \in DOMAIN rows |-> Columns(rows[i])])
    /\ exit' = IF \A i \in DOMAIN rows : Stable(rows[i]) THEN 0 ELSE 1
    /\ phase' = "ended"
    /\ UNCHANGED <<arguments, counters, header, history, answers, calls, cut>>

WriteHistory ==
    /\ phase = "writing" /\ ~Measuring
    /\ history' = Lines(history, <<[n |-> Len(samples), correct |-> correct]>>)
    /\ exit' = IF Passes THEN 0 ELSE 1
    /\ phase' = "ended"
    /\ UNCHANGED <<arguments, counters, header, report, answers, calls, cut>>

\* The process is killed. What it has counted and not flushed is lost.
Kill ==
    /\ phase # "ended"
    /\ phase' = "ended" /\ exit' = Absent
    /\ NothingCounted
    /\ cut' = (cut \/ (phase = "writing" /\ header))
    /\ UNCHANGED <<arguments, header, files, calls>>

-----------------------------------------------------------------------------

Init ==
    /\ phase = "ended" /\ exit = Absent
    /\ runs = 0 /\ tree \in Trees /\ samples = <<>>
    /\ counts = NoCounts /\ errors = 0 /\ rows = <<>>
    /\ correct = [k \in Levels |-> 0]
    /\ header = FALSE
    /\ history = Absent /\ report = Absent
    /\ answers = <<>> /\ calls = 0 /\ cut = FALSE

Work == Call \/ OpenFile \/ WriteReport \/ WriteHistory

Next ==
    \/ BadRuns
    \/ \E golden \in Goldens, skip_tbd \in BOOLEAN : Invoke(golden, skip_tbd)
    \/ Work
    \/ Kill

Spec == Init /\ [][Next]_vars

\* boto3 gives up on a call after its timeouts, and the script goes on.
FairSpec == Spec /\ WF_vars(Work)

-----------------------------------------------------------------------------
(* Properties.                                                             *)

Finished == phase = "ended" /\ exit \in {0, 1} /\ answers # <<>>

\* An accuracy run passes exactly when four of five samples or more were
\* answered with the expected top code: a call that fails counts as wrong, and
\* the bound itself passes.
GateIsEarned ==
    Finished /\ ~Measuring =>
        LET right == {i \in DOMAIN samples :
                         answers[i] # Absent /\ answers[i][1] = samples[i][1]}
        IN exit = 0 <=> 5 * Cardinality(right) >= 4 * Len(samples)

\* The answers to the calls about sample i of a variance run.
About(i) == SubSeq(answers, runs * (i - 1) + 1, runs * i)

\* A variance run passes exactly when every call about a sample was answered
\* and all with one and the same triple: no failed call is taken for agreement,
\* and no answer to one sample for one to the next.
StabilityIsEarned ==
    Finished /\ Measuring =>
        (exit = 0 <=> \A i \in DOMAIN samples :
            \A j \in 1..runs : About(i)[j] # Absent /\ About(i)[j] = About(i)[1])

\* The last lines of the report are those of the samples, and every one of
\* them has the numbers of the calls about that sample.
ReportIsObserved ==
    Finished /\ Measuring =>
        \A i \in DOMAIN samples :
            LET line == report[Len(report) - Len(samples) + i]
                times(t) == Cardinality({j \in 1..runs : About(i)[j] = t})
                labels == {About(i)[j] : j \in 1..runs} \ {Absent}
            IN /\ line.errors = times(Absent)
               /\ line.successful = runs - times(Absent)
               /\ line.distinct = Cardinality(labels)
               /\ \A t \in labels : times(t) <= line.modal
               /\ labels # {} => \E t \in labels : times(t) = line.modal

\* A file begins with its header and has no second one, unless an invocation
\* was killed between the creation of a file and its first line: then the
\* next one finds the file and writes none.
HeaderFirst ==
    \A file \in {history, report} \ {Absent} :
        /\ \A i \in 2..Len(file) : file[i] # HeaderLine
        /\ file # <<>> /\ ~cut => file[1] = HeaderLine

\* An invocation that calls the model ends, however many of its calls fail.
EvaluationEnds == phase # "ended" ~> phase = "ended"

=============================================================================
