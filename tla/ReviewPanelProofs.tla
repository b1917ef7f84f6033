-------------------------- MODULE ReviewPanelProofs --------------------------
(***************************************************************************)
(* Machine-checked properties of ReviewPanel, for any roster of models and *)
(* lenses, any number of attempts and whatever an earlier run has left in  *)
(* the work directory.                                                     *)
(***************************************************************************)
EXTENDS ReviewPanel, FiniteSetTheorems, TLAPS

-----------------------------------------------------------------------------
(* The inductive invariant.                                                *)

Idle == {"start", "preflight", "aborted"}
Late == {"chair", "fallback", "banners", "gate", "done"}

\* Nothing runs before the matrix is launched, a Kiro cell runs only after a
\* complete preflight, a running cell has an attempt left, and after Start
\* only an attempt fills a slot.
CellsFit ==
    \A c \in Cells :
        /\ phase \in Idle => cell[c] = "waiting" /\ tries[c] = 0
        /\ Kiro(c) /\ (cell[c] = "running" \/ tries[c] > 0) => passed = KiroModels
        /\ cell[c] = "running" => tries[c] < RETRIES
        /\ phase \notin {"start", "aborted"} /\ slot[c] => tries[c] > 0

\* Every flag has its cause in this run.
FlagsFit ==
    phase \notin {"start", "aborted"} =>
        /\ "truncated" \in flags => DiffOverCap
        /\ "preflight" \in flags => passed # KiroModels /\ "severe" \in flags
        /\ "quota" \in flags => "preflight" \in flags \/ (phase \in Late /\ Marked("quota"))
        /\ "agentFallback" \in flags => "severe" \in flags
        /\ "severe" \in flags => "preflight" \in flags \/ (phase \in Late /\ CoverageFloor)

\* The accounts of Aggregate are those of the matrix, which has ended.
CountsFit ==
    phase \in Late => responded = Answered /\ (CoverageFloor => "severe" \in flags)

\* What the review and the gate have come to.
ReviewFits ==
    /\ phase = "banners" => ChairValid(review)
    /\ phase \in {"gate", "done"} =>
          /\ review.last = "FAIL" \/ (review.last = "PASS" /\ review.verdicts = 1)
          /\ "severe" \in flags => review.last = "FAIL"
    /\ result \in {"none", "pass", "fail"}
    /\ result = "pass" => phase = "done" /\ review.last = "PASS"

PInv == TypeOK /\ CellsFit /\ FlagsFit /\ CountsFit /\ ReviewFits

-----------------------------------------------------------------------------
(* The coverage floor.                                                     *)

Taking == {c[1] : c \in Answered}

LEMMA ModelsFinite ==
  /\ IsFiniteSet(Models) /\ IsFiniteSet(KiroModels)
  /\ Cardinality(Models) \in Nat
<1>1. IsFiniteSet({Codex}) /\ IsFiniteSet(KiroModels)
  BY FS_Singleton, PanelAssumption
<1>2. IsFiniteSet(Models)
  BY <1>1, FS_Union DEF Models
<1>3. QED BY <1>1, <1>2, FS_CardinalityType

\* The models that took part are those that are not degraded.
LEMMA TakingCount ==
  ASSUME TypeOK
  PROVE  /\ Taking \subseteq Models /\ IsFiniteSet(Taking)
         /\ Cardinality(Taking) \in Nat
         /\ Cardinality(DegradedModels) = Cardinality(Models) - Cardinality(Taking)
<1>1. \A c \in Answered : c \in Cells /\ c[1] \in Models /\ c[2] \in Lenses /\ c = <<c[1], c[2]>>
  BY DEF Answered, Cells
<1>2. Taking \subseteq Models
  BY <1>1 DEF Taking
<1>3. IsFiniteSet(Taking) /\ Cardinality(Taking) \in Nat
  BY <1>2, ModelsFinite, FS_Subset, FS_CardinalityType
<1>4. DegradedModels = Models \ Taking
  <2>1. ASSUME NEW m \in DegradedModels PROVE m \in Models \ Taking
    <3>1. m \in Models /\ \A l \in Lenses : <<m, l>> \notin Answered
      BY <2>1 DEF DegradedModels
    <3>2. ASSUME NEW c \in Answered, c[1] = m PROVE FALSE
      BY <1>1, <3>1, <3>2
    <3>3. QED BY <3>1, <3>2 DEF Taking
  <2>2. ASSUME NEW m \in Models \ Taking PROVE m \in DegradedModels
    <3>1. ASSUME NEW l \in Lenses, <<m, l>> \in Answered PROVE FALSE
      <4>1. <<m, l>>[1] = m
        OBVIOUS
      <4>2. QED BY <2>2, <3>1, <4>1 DEF Taking
    <3>2. QED BY <2>2, <3>1 DEF DegradedModels
  <2>3. QED BY <2>1, <2>2
<1>5. Models \cap Taking = Taking
  BY <1>2
<1>6. Cardinality(Models \ Taking) = Cardinality(Models) - Cardinality(Models \cap Taking)
  BY ModelsFinite, FS_Difference
<1>7. QED BY <1>2, <1>3, <1>4, <1>5, <1>6

\* The floor in terms of what has answered.
LEMMA FloorIs ==
  ASSUME TypeOK
  PROVE  CoverageFloor <=>
            \/ Cardinality(Taking) <= 1
            \/ \E l \in Lenses : \A m \in Models : <<m, l>> \notin Answered
            \/ Marked("agentfail")
<1>1. /\ Cardinality(Taking) \in Nat /\ Cardinality(Models) \in Nat
      /\ Cardinality(DegradedModels) = Cardinality(Models) - Cardinality(Taking)
  BY TakingCount, ModelsFinite
<1>2. Cardinality(DegradedModels) >= Cardinality(Models) - 1 <=> Cardinality(Taking) <= 1
  BY <1>1
<1>3. DegradedLenses # {} <=> \E l \in Lenses : \A m \in Models : <<m, l>> \notin Answered
  BY DEF DegradedLenses
<1>4. QED BY <1>2, <1>3 DEF CoverageFloor

\* Of two models or more that took part one is a Kiro model.
LEMMA KiroTakesPart ==
  ASSUME TypeOK, ~(Cardinality(Taking) <= 1)
  PROVE  \E c \in Answered : Kiro(c)
<1> SUFFICES ASSUME ~\E c \in Answered : Kiro(c) PROVE FALSE
  OBVIOUS
<1>1. Taking \subseteq {Codex}
  BY TakingCount DEF Taking, Models, Kiro
<1>2. IsFiniteSet({Codex}) /\ Cardinality({Codex}) = 1
  BY FS_Singleton
<1>3. Cardinality(Taking) <= Cardinality({Codex})
  BY <1>1, <1>2, FS_Subset
<1>4. QED BY <1>2, <1>3

-----------------------------------------------------------------------------
(* Types and cells.                                                        *)

LEMMA AttemptType ==
  ASSUME TypeOK, CellsFit, NEW c \in Cells, cell[c] = "running",
         NEW text \in BOOLEAN, NEW outcome \in {"running", "ended", "agentfail", "quota"},
         Attempt(c, text, outcome), outcome = "running" => MayRetry(c)
  PROVE  /\ slot' \in [Cells -> BOOLEAN]
         /\ tries' \in [Cells -> 0..RETRIES]
         /\ cell' \in [Cells -> {"waiting", "running", "ended", "agentfail", "quota"}]
         /\ tries'[c] > 0
         /\ cell'[c] = "running" => tries'[c] < RETRIES
         /\ \A d \in Cells : d # c =>
               slot'[d] = slot[d] /\ tries'[d] = tries[d] /\ cell'[d] = cell[d]
<1>1. tries[c] \in 0..RETRIES /\ tries[c] < RETRIES /\ RETRIES \in Nat
  BY PanelAssumption DEF TypeOK, CellsFit
<1>2. tries[c] + 1 \in 0..RETRIES /\ tries[c] + 1 > 0
  BY <1>1
<1>3. /\ slot' = [slot EXCEPT ![c] = text]
      /\ tries' = [tries EXCEPT ![c] = tries[c] + 1]
      /\ cell' = [cell EXCEPT ![c] = outcome]
  BY DEF Attempt
<1>4. slot \in [Cells -> BOOLEAN] /\ tries \in [Cells -> 0..RETRIES]
      /\ cell \in [Cells -> {"waiting", "running", "ended", "agentfail", "quota"}]
  BY DEF TypeOK
<1>5. tries'[c] = tries[c] + 1 /\ cell'[c] = outcome
  BY <1>3, <1>4
<1>6. cell'[c] = "running" => tries'[c] < RETRIES
  BY <1>5 DEF MayRetry
<1>7. QED BY <1>2, <1>3, <1>4, <1>5, <1>6

\* The attempt that a step of TryPanel makes.
LEMMA TryMakesAttempt ==
  ASSUME NEW c \in Cells, TryPanel(c)
  PROVE  /\ phase = "panel" /\ cell[c] = "running"
         /\ UNCHANGED <<phase, runner, flags, passed, responded, review, result>>
         /\ \E text \in BOOLEAN, outcome \in {"running", "ended", "agentfail", "quota"} :
               Attempt(c, text, outcome) /\ (outcome = "running" => MayRetry(c))
<1>1. CASE Attempt(c, TRUE, "ended") \/ Attempt(c, FALSE, "agentfail") \/ Attempt(c, FALSE, "quota")
  BY <1>1 DEF TryPanel
<1>2. CASE \E text \in BOOLEAN : Attempt(c, text, IF MayRetry(c) THEN "running" ELSE "ended")
  <2>1. CASE MayRetry(c)
    BY <1>2, <2>1 DEF TryPanel
  <2>2. CASE ~MayRetry(c)
    BY <1>2, <2>2 DEF TryPanel
  <2>3. QED BY <2>1, <2>2
<1>3. QED BY <1>1, <1>2 DEF TryPanel

LEMMA ReviewsOK ==
  /\ NoReview \in Reviews
  /\ \A r \in Reviews :
        [last |-> "FAIL", verdicts |-> IF r.verdicts = 0 THEN 1 ELSE r.verdicts] \in Reviews
<1>1. NoReview \in Reviews
  BY DEF NoReview, Reviews
<1>2. ASSUME NEW r \in Reviews
      PROVE [last |-> "FAIL", verdicts |-> IF r.verdicts = 0 THEN 1 ELSE r.verdicts] \in Reviews
  <2>1. r.verdicts \in 0..2
    BY DEF Reviews
  <2>2. (IF r.verdicts = 0 THEN 1 ELSE r.verdicts) \in 1..2
    BY <2>1
  <2>3. QED BY <2>2 DEF Reviews
<1>3. QED BY <1>1, <1>2

LEMMA PanelTypeStep == TypeOK /\ CellsFit /\ [Next]_vars => TypeOK'
<1> SUFFICES ASSUME TypeOK, CellsFit, [Next]_vars PROVE TypeOK'
  OBVIOUS
<1>1. CASE UNCHANGED vars
  BY <1>1 DEF vars, panel, TypeOK
<1>2. CASE Start
  BY <1>2 DEF Start, TypeOK, Phases, Reset
<1>3. CASE Abort
  BY <1>3 DEF Abort, panel, TypeOK, Phases
<1>4. ASSUME NEW m \in KiroModels, Preflight(m) PROVE TypeOK'
  BY <1>4 DEF Preflight, TypeOK, Flags
<1>5. CASE Launch
  BY <1>5 DEF Launch, TypeOK, Phases, Flags
<1>6. ASSUME NEW c \in Cells, TryPanel(c) PROVE TypeOK'
  BY <1>6, TryMakesAttempt, AttemptType DEF TypeOK
<1>7. CASE Aggregate
  <2>1. Answered \subseteq Cells
    BY DEF Answered
  <2>2. QED BY <1>7, <2>1 DEF Aggregate, panel, TypeOK, Phases, Flags
<1>8. CASE RunPrimary
  BY <1>8 DEF RunPrimary, panel, TypeOK, Phases
<1>9. CASE RunFallback
  BY <1>9, ReviewsOK DEF RunFallback, panel, TypeOK, Phases
<1>10. CASE Banners
  BY <1>10, ReviewsOK DEF Banners, panel, TypeOK, Phases
<1>11. CASE Gate
  BY <1>11 DEF Gate, panel, TypeOK, Phases
<1>12. QED
  BY <1>1, <1>2, <1>3, <1>4, <1>5, <1>6, <1>7, <1>8, <1>9, <1>10, <1>11 DEF Next

LEMMA CellsStep == TypeOK /\ CellsFit /\ [Next]_vars => CellsFit'
<1> SUFFICES ASSUME TypeOK, CellsFit, [Next]_vars PROVE CellsFit'
  OBVIOUS
<1>1. ASSUME UNCHANGED panel, phase' = phase \/ phase \notin Idle \/ phase' = "aborted",
             phase' \in Idle => phase \in Idle, phase = "start" => phase' # "preflight"
      PROVE  CellsFit'
  BY <1>1 DEF panel, CellsFit, Idle
<1>2. CASE UNCHANGED vars \/ Abort
  BY <1>1, <1>2 DEF vars, Abort, Idle
<1>3. CASE Start
  <2> SUFFICES ASSUME NEW c \in Cells
               PROVE  /\ phase' \in Idle => cell'[c] = "waiting" /\ tries'[c] = 0
                      /\ Kiro(c) /\ (cell'[c] = "running" \/ tries'[c] > 0) => passed' = KiroModels
                      /\ cell'[c] = "running" => tries'[c] < RETRIES
                      /\ phase' \notin {"start", "aborted"} /\ slot'[c] => tries'[c] > 0
    BY DEF CellsFit, Kiro
  <2>1. cell'[c] = "waiting" /\ tries'[c] = 0 /\ slot'[c] = FALSE
    BY <1>3 DEF Start, CellsFit, Idle
  <2>2. QED BY <2>1
<1>4. ASSUME NEW m \in KiroModels, Preflight(m) PROVE CellsFit'
  <2>1. /\ phase = "preflight" /\ UNCHANGED <<phase, cell, slot, tries>>
    BY <1>4 DEF Preflight
  <2>2. \A c \in Cells : cell[c] = "waiting" /\ tries[c] = 0 /\ (slot[c] => tries[c] > 0)
    BY <2>1 DEF CellsFit, Idle
  <2>3. QED BY <2>1, <2>2 DEF CellsFit
<1>5. CASE Launch
  <2> SUFFICES ASSUME NEW c \in Cells
               PROVE  /\ phase' \in Idle => cell'[c] = "waiting" /\ tries'[c] = 0
                      /\ Kiro(c) /\ (cell'[c] = "running" \/ tries'[c] > 0) => passed' = KiroModels
                      /\ cell'[c] = "running" => tries'[c] < RETRIES
                      /\ phase' \notin {"start", "aborted"} /\ slot'[c] => tries'[c] > 0
    BY DEF CellsFit, Kiro
  <2>1. /\ phase = "preflight" /\ phase' = "panel" /\ UNCHANGED <<passed, slot, tries>>
        /\ cell'[c] = IF Starts(c) THEN "running" ELSE "ended"
    BY <1>5 DEF Launch
  <2>2. tries'[c] = 0 /\ ~slot'[c]
    BY <2>1 DEF CellsFit, Idle
  <2>3. Kiro(c) /\ cell'[c] = "running" => passed' = KiroModels
    BY <2>1 DEF Starts, KIRO_PREFLIGHT_OK
  <2>4. 0 < RETRIES
    BY PanelAssumption
  <2>5. QED BY <2>1, <2>2, <2>3, <2>4 DEF Idle
<1>6. ASSUME NEW c \in Cells, TryPanel(c) PROVE CellsFit'
  <2>1. /\ phase = "panel" /\ cell[c] = "running" /\ UNCHANGED <<phase, passed>>
        /\ \E text \in BOOLEAN, outcome \in {"running", "ended", "agentfail", "quota"} :
              Attempt(c, text, outcome) /\ (outcome = "running" => MayRetry(c))
    BY <1>6, TryMakesAttempt
  <2>2. /\ tries'[c] > 0
        /\ cell'[c] = "running" => tries'[c] < RETRIES
        /\ \A d \in Cells : d # c =>
              slot'[d] = slot[d] /\ tries'[d] = tries[d] /\ cell'[d] = cell[d]
    BY <2>1, AttemptType
  <2>3. Kiro(c) => passed = KiroModels
    BY <2>1 DEF CellsFit
  <2>4. QED BY <2>1, <2>2, <2>3 DEF CellsFit, Idle, Kiro
<1>7. CASE Aggregate \/ RunPrimary \/ RunFallback \/ Banners \/ Gate
  <2>1. UNCHANGED panel /\ phase \notin Idle /\ phase' \notin Idle
    BY <1>7 DEF Aggregate, RunPrimary, RunFallback, Banners, Gate, Idle
  <2>2. QED BY <1>1, <2>1 DEF Idle
<1>8. QED BY <1>2, <1>3, <1>4, <1>5, <1>6, <1>7 DEF Next

-----------------------------------------------------------------------------
(* Flags, accounts and the review.                                         *)

LEMMA MatrixStays ==
  ASSUME UNCHANGED panel
  PROVE  /\ Answered' = Answered /\ (CoverageFloor <=> CoverageFloor')
         /\ Marked("quota") <=> Marked("quota")'
<1>1. cell' = cell /\ slot' = slot
  BY DEF panel
<1>2. Answered' = Answered
  BY <1>1 DEF Answered
<1>3. DegradedModels' = DegradedModels /\ DegradedLenses' = DegradedLenses
  BY <1>2 DEF DegradedModels, DegradedLenses
<1>4. \A outcome : Marked(outcome) <=> Marked(outcome)'
  BY <1>1 DEF Marked
<1>5. QED BY <1>2, <1>3, <1>4 DEF CoverageFloor

\* A step that keeps matrix, flags and accounts once there are any.
LEMMA AccountsStay ==
  ASSUME FlagsFit, CountsFit, UNCHANGED <<flags, panel, responded>>,
         (phase' = phase) \/ (phase' = "aborted") \/ (phase \in Late /\ phase' \in Late)
  PROVE  FlagsFit' /\ CountsFit'
<1>1. /\ Answered' = Answered /\ (CoverageFloor <=> CoverageFloor')
      /\ Marked("quota") <=> Marked("quota")'
      /\ passed' = passed /\ flags' = flags /\ responded' = responded
  BY MatrixStays DEF panel
<1>2. phase' \in Late => phase \in Late
  BY DEF Late
<1>3. phase' \notin {"start", "aborted"} => phase \notin {"start", "aborted"}
  BY DEF Late
<1>4. phase \in Late /\ phase' \notin {"start", "aborted"} => phase' \in Late
  BY DEF Late
<1>5. CountsFit'
  BY <1>1, <1>2 DEF CountsFit
<1>6. FlagsFit'
  BY <1>1, <1>3, <1>4 DEF FlagsFit
<1>7. QED BY <1>5, <1>6

LEMMA AccountsStep ==
  TypeOK /\ FlagsFit /\ CountsFit /\ [Next]_vars => FlagsFit' /\ CountsFit'
<1> SUFFICES ASSUME TypeOK, FlagsFit, CountsFit, [Next]_vars PROVE FlagsFit' /\ CountsFit'
  OBVIOUS
<1>1. CASE UNCHANGED vars \/ Abort
  BY <1>1, AccountsStay DEF vars, Abort
<1>2. CASE Start
  <2>1. phase' = "preflight" /\ flags' = {}
    BY <1>2 DEF Start, Reset
  <2>2. QED BY <2>1 DEF FlagsFit, CountsFit, Late
<1>3. ASSUME NEW m \in KiroModels, Preflight(m) PROVE FlagsFit' /\ CountsFit'
  <2>1. /\ phase = "preflight" /\ phase' = "preflight" /\ m \notin passed
        /\ "preflight" \notin flags
    BY <1>3 DEF Preflight
  <2>2. CountsFit'
    BY <2>1 DEF CountsFit, Late
  <2>3. CASE flags' = flags
    BY <2>1, <2>2, <2>3 DEF FlagsFit, Late
  <2>4. ASSUME NEW seen \in SUBSET {"quota", "agentFallback"},
               flags' = flags \cup seen \cup {"preflight", "severe"}, passed' = passed
        PROVE  FlagsFit'
    <3>1. "preflight" \in flags' /\ "severe" \in flags' /\ passed' # KiroModels
      BY <2>1, <2>4
    <3>2. "truncated" \in flags' => DiffOverCap
      BY <2>1, <2>4 DEF FlagsFit
    <3>3. QED BY <3>1, <3>2 DEF FlagsFit
  <2>5. QED BY <1>3, <2>2, <2>3, <2>4 DEF Preflight
<1>4. CASE Launch
  <2>1. /\ phase = "preflight" /\ phase' = "panel" /\ passed' = passed
        /\ flags' = flags \cup {f \in {"truncated"} : DiffOverCap}
    BY <1>4 DEF Launch
  <2>2. QED BY <2>1 DEF FlagsFit, CountsFit, Late
<1>5. ASSUME NEW c \in Cells, TryPanel(c) PROVE FlagsFit' /\ CountsFit'
  <2>1. phase = "panel" /\ UNCHANGED <<phase, flags, passed>>
    BY <1>5, TryMakesAttempt
  <2>2. QED BY <2>1 DEF FlagsFit, CountsFit, Late
<1>6. CASE Aggregate
  <2>1. /\ phase = "panel" /\ phase' = "chair" /\ responded' = Answered /\ UNCHANGED panel
        /\ flags' = flags
              \cup {f \in {"severe"} : CoverageFloor}
              \cup {f \in {"agentFallback"} : Marked("agentfail")}
              \cup {f \in {"quota"} : Marked("quota")}
    BY <1>6 DEF Aggregate
  <2>2. /\ Answered' = Answered /\ (CoverageFloor <=> CoverageFloor')
        /\ Marked("quota") <=> Marked("quota")'
        /\ passed' = passed
    BY <2>1, MatrixStays DEF panel
  <2>3. Marked("agentfail") => CoverageFloor
    BY DEF CoverageFloor
  <2>4. phase' \in Late /\ phase \notin Late /\ phase \notin {"start", "aborted"}
    BY <2>1 DEF Late
  <2>5. CountsFit'
    BY <2>1, <2>2 DEF CountsFit
  <2>6. FlagsFit'
    BY <2>1, <2>2, <2>3, <2>4 DEF FlagsFit
  <2>7. QED BY <2>5, <2>6
<1>7. CASE RunPrimary \/ RunFallback \/ Banners \/ Gate
  <2>1. UNCHANGED <<flags, panel, responded>> /\ phase \in Late /\ phase' \in Late
    BY <1>7 DEF RunPrimary, RunFallback, Banners, Gate, Late
  <2>2. QED BY <2>1, AccountsStay
<1>8. QED BY <1>1, <1>2, <1>3, <1>4, <1>5, <1>6, <1>7 DEF Next

LEMMA ReviewStep == TypeOK /\ ReviewFits /\ [Next]_vars => ReviewFits'
<1> SUFFICES ASSUME TypeOK, ReviewFits, [Next]_vars PROVE ReviewFits'
  OBVIOUS
<1>1. ASSUME result' = result, phase # "done", phase' \notin {"banners", "gate", "done"}
      PROVE  ReviewFits'
  BY <1>1 DEF ReviewFits
<1>2. CASE UNCHANGED vars
  BY <1>2 DEF vars, ReviewFits, ChairValid
<1>3. CASE Start \/ Abort \/ Launch \/ Aggregate
  BY <1>1, <1>3 DEF Start, Abort, Launch, Aggregate
<1>4. ASSUME NEW m \in KiroModels, Preflight(m) PROVE ReviewFits'
  BY <1>1, <1>4 DEF Preflight
<1>5. ASSUME NEW c \in Cells, TryPanel(c) PROVE ReviewFits'
  BY <1>1, <1>5, TryMakesAttempt
<1>6. CASE RunPrimary
  <2>1. /\ phase = "chair" /\ result' = result
        /\ phase' = IF ChairValid(review') THEN "banners" ELSE "fallback"
    BY <1>6 DEF RunPrimary
  <2>2. result # "pass"
    BY <2>1 DEF ReviewFits
  <2>3. QED BY <2>1, <2>2 DEF ReviewFits, ChairValid
<1>7. CASE RunFallback
  <2>1. /\ phase = "fallback" /\ result' = result /\ phase' = "banners"
        /\ \E r \in Reviews : review' = IF ChairValid(r) THEN r ELSE NoReview
    BY <1>7 DEF RunFallback
  <2>2. ChairValid(NoReview)
    BY DEF ChairValid, NoReview
  <2>3. ChairValid(review)'
    BY <2>1, <2>2 DEF ChairValid
  <2>4. QED BY <2>1, <2>3 DEF ReviewFits
<1>8. CASE Banners
  <2>1. /\ phase = "banners" /\ phase' = "gate" /\ flags' = flags /\ result' = result
        /\ "severe" \notin flags => review' = review
        /\ "severe" \in flags => review'.last = "FAIL"
    BY <1>8 DEF Banners
  <2>2. ChairValid(review) /\ result # "pass"
    BY <2>1 DEF ReviewFits
  <2>3. QED BY <2>1, <2>2 DEF ReviewFits, ChairValid
<1>9. CASE Gate
  <2>1. /\ phase = "gate" /\ phase' = "done" /\ flags' = flags /\ review' = review
        /\ review.last = "FAIL" => result' = "fail"
        /\ review.last = "PASS" /\ review.verdicts = 1 => result' = "pass"
    BY <1>9 DEF Gate
  <2>2. review.last = "FAIL" \/ (review.last = "PASS" /\ review.verdicts = 1)
    BY <2>1 DEF ReviewFits
  <2>3. QED BY <2>1, <2>2 DEF ReviewFits
<1>10. QED BY <1>2, <1>3, <1>4, <1>5, <1>6, <1>7, <1>8, <1>9 DEF Next

-----------------------------------------------------------------------------
(* Theorems.                                                               *)

LEMMA PanelInit == Init => PInv
<1> SUFFICES ASSUME Init PROVE PInv
  OBVIOUS
<1>1. TypeOK
  <2>1. [last |-> "other", verdicts |-> 0] \in Reviews
    BY DEF Reviews
  <2>2. RETRIES \in Nat
    BY PanelAssumption
  <2>3. flags \subseteq Flags /\ slot \in [Cells -> BOOLEAN] /\ responded \subseteq Cells
    BY DEF Init
  <2>4. /\ cell \in [Cells -> {"waiting", "running", "ended", "agentfail", "quota"}]
        /\ tries \in [Cells -> 0..RETRIES]
    BY <2>2 DEF Init
  <2>5. /\ phase \in Phases /\ runner \in [codex : BOOLEAN, kiro : BOOLEAN]
        /\ passed \subseteq KiroModels /\ review \in Reviews
        /\ result \in {"none", "pass", "fail", "no verdict"}
    BY <2>1 DEF Init, Phases
  <2>6. QED BY <2>3, <2>4, <2>5 DEF TypeOK
<1>2. CellsFit
  BY DEF Init, CellsFit
<1>3. FlagsFit /\ CountsFit /\ ReviewFits
  BY DEF Init, FlagsFit, CountsFit, ReviewFits, Late
<1>4. QED BY <1>1, <1>2, <1>3 DEF PInv

\* In every reachable state cells, flags, accounts and review fit together,
\* whatever an earlier run has left behind.
THEOREM PanelInvariance == Spec => []PInv
<1>1. PInv /\ [Next]_vars => PInv'
  BY PanelTypeStep, CellsStep, AccountsStep, ReviewStep DEF PInv
<1>2. QED BY PanelInit, <1>1, PTL DEF Spec

\* The files of the work directory and the attempts of the cells keep their
\* types: no cell has more attempts than RETRIES.
THEOREM PanelTypeCorrect == Spec => []TypeOK
<1>1. PInv => TypeOK
  BY DEF PInv
<1>2. QED BY <1>1, PanelInvariance, PTL

\* A diff is given to a Kiro model only if every Kiro model of the roster has
\* passed the preflight of run-panel.sh.
THEOREM DiffsWithheld == Spec => []DiffWithheld
<1>1. PInv => DiffWithheld
  BY DEF PInv, CellsFit, DiffWithheld
<1>2. QED BY <1>1, PanelInvariance, PTL

\* The validator of synthesize.sh and the gate of the workflow agree on every
\* review that gets that far.
THEOREM GateFindsVerdicts == Spec => []GateFindsVerdict
<1>1. PInv => GateFindsVerdict
  BY DEF PInv, ReviewFits, GateFindsVerdict
<1>2. QED BY <1>1, PanelInvariance, PTL

\* A pull request passes only on a review of every lens by two models or
\* more, none of which had tools that the preflight had not seen switched off.
THEOREM PassesAreEarned == Spec => []PassIsEarned
<1>1. PInv => PassIsEarned
  <2> SUFFICES ASSUME PInv, result = "pass"
               PROVE  /\ \A l \in Lenses : \E m \in Models : <<m, l>> \in responded
                      /\ Cardinality({c[1] : c \in responded}) >= 2
                      /\ "agentFallback" \notin flags
                      /\ passed = KiroModels
    BY DEF PassIsEarned
  <2>1. phase = "done" /\ "severe" \notin flags
    BY DEF PInv, ReviewFits
  <2>2. phase \in Late /\ phase \notin {"start", "aborted"}
    BY <2>1 DEF Late
  <2>3. responded = Answered /\ ~CoverageFloor
    BY <2>1, <2>2 DEF PInv, CountsFit
  <2>4. TypeOK
    BY DEF PInv
  <2>5. /\ ~(Cardinality(Taking) <= 1) /\ Cardinality(Taking) \in Nat
        /\ \A l \in Lenses : \E m \in Models : <<m, l>> \in Answered
    BY <2>3, <2>4, FloorIs, TakingCount
  <2>6. Cardinality(Taking) >= 2
    BY <2>5
  <2>7. passed = KiroModels
    <3>1. PICK c \in Answered : Kiro(c)
      BY <2>4, <2>5, KiroTakesPart
    <3>2. c \in Cells /\ slot[c]
      BY DEF Answered
    <3>3. QED BY <2>2, <3>1, <3>2 DEF PInv, CellsFit
  <2>8. "agentFallback" \notin flags
    BY <2>1, <2>2 DEF PInv, FlagsFit
  <2>9. QED BY <2>3, <2>5, <2>6, <2>7, <2>8 DEF Taking
<1>2. QED BY <1>1, PanelInvariance, PTL

\* Every flag and banner of a finished review has its cause in this run, not
\* in one that used the work directory before.
THEOREM FlagsAreCaused == Spec => []FlagsAreOfThisRun
<1>1. PInv => FlagsAreOfThisRun
  <2> SUFFICES ASSUME PInv, phase = "done"
               PROVE  /\ "truncated" \in flags => DiffOverCap
                      /\ "preflight" \in flags => passed # KiroModels
                      /\ "preflight" \in flags => \A c \in responded : ~Kiro(c)
                      /\ "quota" \in flags => "preflight" \in flags \/ Marked("quota")
                      /\ "agentFallback" \in flags => "severe" \in flags
                      /\ "severe" \in flags =>
                            \/ "preflight" \in flags
                            \/ Marked("agentfail")
                            \/ \E l \in Lenses : \A m \in Models : <<m, l>> \notin responded
                            \/ Cardinality({c[1] : c \in responded}) <= 1
    BY DEF FlagsAreOfThisRun
  <2>1. phase \in Late /\ phase \notin {"start", "aborted"}
    BY DEF Late
  <2>2. responded = Answered /\ TypeOK
    BY <2>1 DEF PInv, CountsFit
  <2>3. /\ "truncated" \in flags => DiffOverCap
        /\ "preflight" \in flags => passed # KiroModels
        /\ "quota" \in flags => "preflight" \in flags \/ Marked("quota")
        /\ "agentFallback" \in flags => "severe" \in flags
        /\ "severe" \in flags => "preflight" \in flags \/ CoverageFloor
    BY <2>1 DEF PInv, FlagsFit
  <2>4. ASSUME "preflight" \in flags, NEW c \in responded, Kiro(c) PROVE FALSE
    <3>1. c \in Cells /\ slot[c]
      BY <2>2 DEF Answered
    <3>2. passed = KiroModels
      BY <2>1, <2>4, <3>1 DEF PInv, CellsFit
    <3>3. QED BY <2>3, <2>4, <3>2
  <2>5. CoverageFloor =>
            \/ Cardinality({c[1] : c \in responded}) <= 1
            \/ \E l \in Lenses : \A m \in Models : <<m, l>> \notin responded
            \/ Marked("agentfail")
    BY <2>2, FloorIs DEF Taking
  <2>6. QED BY <2>3, <2>4, <2>5
<1>2. QED BY <1>1, PanelInvariance, PTL

================================================================================
