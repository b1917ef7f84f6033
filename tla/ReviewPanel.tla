----------------------------- MODULE ReviewPanel -----------------------------
(***************************************************************************)
(* The AI review of a pull request: a matrix of model x lens cells that    *)
(* run in parallel, a chair that makes one review of their answers, and    *)
(* the gate that reads its verdict.                                        *)
(*                                                                         *)
(* Source: scripts/pr-review/{run-panel,synthesize,lib}.sh and the gate in *)
(* .github/workflows/pr-review.yml.                                        *)
(***************************************************************************)
EXTENDS Naturals, FiniteSets

CONSTANTS
    Codex,       \* the model that has tools of its own
    KiroModels,  \* the models behind kiro-cli
    Lenses,
    RETRIES,     \* attempts of a cell
    DiffOverCap  \* whether the diff is longer than KIRO_DIFF_CAP

Models == {Codex} \cup KiroModels
Cells  == Models \X Lenses
Kiro(c) == c[1] \in KiroModels

Flags   == {"severe", "truncated", "quota", "agentFallback", "preflight"}
Phases  == {"start", "preflight", "panel", "chair", "fallback", "banners",
            "gate", "done", "aborted"}

\* What the scripts look at in review.md: the last line that is not blank and
\* the number of VERDICT lines.
Reviews == {r \in [last : {"PASS", "FAIL", "other"}, verdicts : 0..2] :
                r.last # "other" => r.verdicts > 0}

ASSUME PanelAssumption ==
    /\ IsFiniteSet(KiroModels) /\ Codex \notin KiroModels
    /\ RETRIES \in Nat \ {0}
    /\ DiffOverCap \in BOOLEAN

VARIABLES
    phase,
    runner,     \* CLIs that the runner image has
    flags,      \* *.flag files of the work directory
    passed,     \* Kiro models that passed the preflight
    cell,       \* what has become of each cell
    slot,       \* whether the slot file of a cell has output
    tries,      \* attempts a cell has used
    responded,  \* responded.txt
    review,     \* review.md
    result      \* output of the gate

panel == <<passed, cell, slot, tries>>
vars == <<phase, runner, flags, panel, responded, review, result>>

TypeOK ==
    /\ phase \in Phases
    /\ runner \in [codex : BOOLEAN, kiro : BOOLEAN]
    /\ flags \subseteq Flags
    /\ passed \subseteq KiroModels
    /\ cell \in [Cells -> {"waiting", "running", "ended", "agentfail", "quota"}]
    /\ slot \in [Cells -> BOOLEAN]
    /\ tries \in [Cells -> 0..RETRIES]
    /\ responded \subseteq Cells
    /\ review \in Reviews
    /\ result \in {"none", "pass", "fail", "no verdict"}

-----------------------------------------------------------------------------
(* run-panel.sh.                                                           *)

\* Mutant of Reset: the severe flag is not among the files removed.
ResetAllBut == {"severe"} \cap flags

\* The flags that survive the start of a run.
Reset == {}

\* The work directory of a runner that is used again loses its slots,
\* responded.txt and flags.
Start ==
    /\ phase = "start"
    /\ phase' = "preflight"
    /\ flags' = Reset
    /\ slot' = [c \in Cells |-> FALSE]
    /\ responded' = {}
    /\ UNCHANGED <<runner, passed, cell, tries, review, result>>

\* No lenses, no valid agent file or no copy of it for a cell: exit 1, and the
\* step of the workflow with it. What cells already started is read by nobody.
Abort ==
    /\ phase \in {"start", "preflight"}
    /\ phase' = "aborted"
    /\ UNCHANGED <<runner, flags, panel, responded, review, result>>

\* A Kiro model answers the canary prompt, or does not.
Preflight(m) ==
    /\ phase = "preflight" /\ runner.kiro
    /\ m \notin passed /\ "preflight" \notin flags
    /\ \/ /\ passed' = passed \cup {m}
          /\ UNCHANGED flags
       \/ /\ \E seen \in SUBSET {"quota", "agentFallback"} :
                flags' = flags \cup seen \cup {"preflight", "severe"}
          /\ UNCHANGED passed
    /\ UNCHANGED <<phase, runner, cell, slot, tries, responded, review, result>>

\* Mutant of KIRO_PREFLIGHT_OK: one model that passed is enough.
AnyPreflight == passed # {}

\* Every model of the roster has passed, so none has failed.
KIRO_PREFLIGHT_OK == passed = KiroModels

PreflightOver ==
    ~runner.kiro \/ passed = KiroModels \/ "preflight" \in flags

Starts(c) ==
    IF Kiro(c) THEN runner.kiro /\ KIRO_PREFLIGHT_OK ELSE runner.codex

\* Every cell whose CLI may run is started in the background.
Launch ==
    /\ phase = "preflight" /\ PreflightOver
    /\ phase' = "panel"
    /\ flags' = flags \cup {f \in {"truncated"} : DiffOverCap}
    /\ cell' = [c \in Cells |-> IF Starts(c) THEN "running" ELSE "ended"]
    /\ UNCHANGED <<runner, passed, slot, tries, responded, review, result>>

\* Mutant of Attempt: the loop variable does not advance.
UncountedAttempt(c, text, outcome) ==
    /\ slot' = [slot EXCEPT ![c] = text]
    /\ cell' = [cell EXCEPT ![c] = outcome]
    /\ UNCHANGED tries

\* An attempt of a cell is over; the slot has its output and nothing else.
Attempt(c, text, outcome) ==
    /\ slot' = [slot EXCEPT ![c] = text]
    /\ tries' = [tries EXCEPT ![c] = @ + 1]
    /\ cell' = [cell EXCEPT ![c] = outcome]

\* Mutant of MayRetry: one attempt too many.
RetryOnceMore(c) == tries[c] < RETRIES

MayRetry(c) == tries[c] + 1 < RETRIES

\* try_panel: an attempt answers, falls back to the default agent with its
\* tools, is out of quota, or fails or times out with no output, or with some of it, which
\* stays in the slot after the last attempt.
TryPanel(c) ==
    /\ phase = "panel" /\ cell[c] = "running"
    /\ \/ Attempt(c, TRUE, "ended")
       \/ Kiro(c) /\ Attempt(c, FALSE, "agentfail")
       \/ Kiro(c) /\ Attempt(c, FALSE, "quota")
       \/ \E text \in BOOLEAN :
             Attempt(c, text, IF MayRetry(c) THEN "running" ELSE "ended")
    /\ UNCHANGED <<phase, runner, flags, passed, responded, review, result>>

Answered == {c \in Cells : slot[c]}

DegradedModels == {m \in Models : \A l \in Lenses : <<m, l>> \notin Answered}
DegradedLenses == {l \in Lenses : \A m \in Models : <<m, l>> \notin Answered}

Marked(outcome) == \E c \in Cells : cell[c] = outcome

\* Mutant of CoverageFloor: lenses are not looked at.
ModelFloorOnly == Cardinality(DegradedModels) >= Cardinality(Models) - 1

CoverageFloor ==
    \/ Cardinality(DegradedModels) >= Cardinality(Models) - 1
    \/ DegradedLenses # {}
    \/ Marked("agentfail")

\* wait, and the accounts of the run: who responded, whether what is left of
\* the matrix may pass at all, and why cells are empty.
Aggregate ==
    /\ phase = "panel" /\ ~Marked("running")
    /\ phase' = "chair"
    /\ responded' = Answered
    /\ flags' = flags
          \cup {f \in {"severe"} : CoverageFloor}
          \cup {f \in {"agentFallback"} : Marked("agentfail")}
          \cup {f \in {"quota"} : Marked("quota")}
    /\ UNCHANGED <<runner, panel, review, result>>

-----------------------------------------------------------------------------
(* synthesize.sh.                                                          *)

\* Mutant of ChairValid: only the last line is read.
LastLineValid(r) == r.last \in {"PASS", "FAIL"}

ChairValid(r) == r.last \in {"PASS", "FAIL"} /\ r.verdicts = 1

NoReview == [last |-> "FAIL", verdicts |-> 1]

\* The primary chair writes something, or nothing within CHAIR_TIMEOUT.
RunPrimary ==
    /\ phase = "chair"
    /\ review' \in Reviews
    /\ phase' = IF ChairValid(review') THEN "banners" ELSE "fallback"
    /\ UNCHANGED <<runner, flags, panel, responded, result>>

\* So does the fallback chair; with no valid review there is a failing one.
RunFallback ==
    /\ phase = "fallback"
    /\ \E r \in Reviews : review' = IF ChairValid(r) THEN r ELSE NoReview
    /\ phase' = "banners"
    /\ UNCHANGED <<runner, flags, panel, responded, result>>

\* The banners go on top of the review. A severe loss of coverage replaces
\* the last verdict by VERDICT: FAIL.
Banners ==
    /\ phase = "banners"
    /\ review' = IF "severe" \in flags
                 THEN [last |-> "FAIL",
                       verdicts |-> IF review.verdicts = 0 THEN 1 ELSE review.verdicts]
                 ELSE review
    /\ phase' = "gate"
    /\ UNCHANGED <<runner, flags, panel, responded, result>>

-----------------------------------------------------------------------------
(* The gate of the workflow.                                               *)

Gate ==
    /\ phase = "gate"
    /\ result' = CASE review.last = "FAIL" -> "fail"
                   [] review.last = "PASS" /\ review.verdicts = 1 -> "pass"
                   [] OTHER -> "no verdict"
    /\ phase' = "done"
    /\ UNCHANGED <<runner, flags, panel, responded, review>>

-----------------------------------------------------------------------------

\* The work directory may hold everything an earlier run has left.
Init ==
    /\ phase = "start"
    /\ runner \in [codex : BOOLEAN, kiro : BOOLEAN]
    /\ \/ flags = {} /\ slot = [c \in Cells |-> FALSE] /\ responded = {}
       \/ flags = Flags /\ slot = [c \in Cells |-> TRUE] /\ responded = Cells
    /\ passed = {}
    /\ cell = [c \in Cells |-> "waiting"]
    /\ tries = [c \in Cells |-> 0]
    /\ review = [last |-> "other", verdicts |-> 0]
    /\ result = "none"

Next ==
    \/ Start \/ Abort
    \/ \E m \in KiroModels : Preflight(m)
    \/ Launch
    \/ \E c \in Cells : TryPanel(c)
    \/ Aggregate
    \/ RunPrimary \/ RunFallback \/ Banners
    \/ Gate

Spec == Init /\ [][Next]_vars

\* Every call of a CLI runs under timeout(1), and the scripts go on.
FairSpec == Spec /\ WF_vars(Next)

-----------------------------------------------------------------------------
(* Properties.                                                             *)

\* Fail closed: a pull request passes only if some cell left a review for
\* every lens, two models or more took part, and no diff reached an agent
\* with tools.
PassIsEarned ==
    result = "pass" =>
        /\ \A l \in Lenses : \E m \in Models : <<m, l>> \in responded
        /\ Cardinality({c[1] : c \in responded}) >= 2
        /\ "agentFallback" \notin flags
        /\ passed = KiroModels

\* A diff reaches a Kiro model only after every one of them has passed the
\* preflight.
DiffWithheld ==
    \A c \in Cells : Kiro(c) /\ tries[c] > 0 => passed = KiroModels

\* The flags that a finished run leaves are its own: none is left of an
\* earlier run in the same directory, and each banner has its cause here.
FlagsAreOfThisRun ==
    phase = "done" =>
        /\ "truncated" \in flags => DiffOverCap
        /\ "preflight" \in flags => passed # KiroModels
        /\ "preflight" \in flags => \A c \in responded : ~Kiro(c)
        /\ "quota" \in flags => "preflight" \in flags \/ Marked("quota")
        /\ "agentFallback" \in flags => "severe" \in flags
        /\ "severe" \in flags =>
              \/ "preflight" \in flags
              \/ Marked("agentfail")
              \/ \E l \in Lenses : \A m \in Models : <<m, l>> \notin responded
              \/ Cardinality({c[1] : c \in responded}) <= 1

\* The validator of the chair and the gate agree: whatever synthesize.sh
\* leaves, the gate finds its verdict.
GateFindsVerdict == result # "no verdict"

\* A review that was started ends, at the gate or with a failed step.
ReviewEnds == phase = "start" ~> phase \in {"done", "aborted"}

=============================================================================
