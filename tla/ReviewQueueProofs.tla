------------------------- MODULE ReviewQueueProofs -------------------------
(***************************************************************************)
(* Theorems about ReviewQueue, for any calls, reviewers and codes: type    *)
(* correctness, the optimistic lock and the truth of the audit trail.      *)
(***************************************************************************)
EXTENDS ReviewQueue, TLAPS

\* The rows of a table that no pipeline writes.
Rows ==
    [code : Codes, verified : {"hitl-pending", "hitl-corrected"},
     status : {"hitl-pending"} \cup ReviewerStatus,
     correctedBy : Reviewers \cup {Absent}]

\* Table and index hold rows, and a confirmation carries codes.
RowsFit ==
    /\ table \in [Calls -> Rows]
    /\ index \in [Calls -> Rows]
    /\ \A r \in Reviewers :
          click[r] # Absent /\ click[r].button = "confirm" => click[r].code \in Codes

\* A handler that has come to its audit record finds its decision in the row:
\* its own conditional write put it there and nothing has replaced it.
DecisionHeld ==
    \A r \in Reviewers :
        click[r] # Absent /\ click[r].phase = "audit" =>
            /\ table[click[r].call].correctedBy = r
            /\ table[click[r].call].status = Decision(r).status

TypeInv == TypeOK /\ RowsFit
IInv == TypeInv /\ DecisionHeld /\ AuditedIsEffective

-----------------------------------------------------------------------------
(* Pages and clicks.                                                       *)

\* A rerun of the script leaves a page of calls, or none at all.
LEMMA RerunTyped ==
    ASSUME NEW old, old \in Pages \cup {Absent}, NEW new \in Rerun(old)
    PROVE  new \in Pages \cup {Absent}
<1>1. Queue \subseteq Calls  BY DEF Queue
<1>2. CASE Queue = {}  BY <1>2 DEF Rerun
<1>3. CASE Queue # {} /\ old # Absent /\ old.options = Queue  BY <1>3 DEF Rerun
<1>4. CASE Queue # {} /\ ~(old # Absent /\ old.options = Queue)
  <2>1. new \in [options : {Queue}, call : Queue]  BY <1>4 DEF Rerun
  <2> QED  BY <1>1, <2>1 DEF Pages
<1> QED  BY <1>2, <1>3, <1>4

\* The call that a rerun shows, if it has not stayed, is one of the queue.
LEMMA EndOfRunTyped ==
    ASSUME TypeInv, NEW r \in Reviewers, EndOfRun(r)
    PROVE  /\ page' \in [Reviewers -> Pages \cup {Absent}]
           /\ click' = [click EXCEPT ![r] = Absent]
           /\ click' \in [Reviewers -> Clicks \cup {Absent}]
<1>1. PICK new \in Rerun(page[r]) : page' = [page EXCEPT ![r] = new]
  BY DEF EndOfRun
<1>2. page[r] \in Pages \cup {Absent}  BY DEF TypeInv, TypeOK
<1>3. new \in Pages \cup {Absent}  BY <1>2, RerunTyped
<1> QED  BY <1>1, <1>3 DEF EndOfRun, TypeInv, TypeOK

-----------------------------------------------------------------------------
(* The initial state.                                                      *)

LEMMA InitInv == Init => IInv
<1> SUFFICES ASSUME Init PROVE IInv  OBVIOUS
<1> USE DEF Init, ReviewInit, Waiting
<1>1. table \in [Calls -> Rows]  BY DEF Rows
<1>2. RowsFit  BY <1>1 DEF RowsFit
<1>3. ASSUME NEW c \in Calls PROVE RowOK(table[c])
  <2>1. table[c] \in Waiting  OBVIOUS
  <2> QED  BY <2>1 DEF RowOK
<1>4. TypeOK  BY <1>3 DEF TypeOK
<1>5. DecisionHeld /\ AuditedIsEffective  BY DEF DecisionHeld, AuditedIsEffective
<1> QED  BY <1>2, <1>4, <1>5 DEF IInv, TypeInv

-----------------------------------------------------------------------------
(* Steps. TypeInv first, then what rows, clicks and records say together.  *)

\* The page itself, and the environment, write no row.
LEMMA PageTyped ==
    ASSUME TypeInv, NEW r \in Reviewers,
           Open(r) \/ \E c \in Calls : Select(r, c)
    PROVE  TypeInv'
<1>1. PICK old \in Pages \cup {Absent} :
          \E new \in Rerun(old) : page' = [page EXCEPT ![r] = new]
  <2>1. CASE Open(r)
    <3>1. Absent \in Pages \cup {Absent}  OBVIOUS
    <3> QED  BY <2>1, <3>1 DEF Open
  <2>2. ASSUME NEW c \in Calls, Select(r, c)
        PROVE  \E old \in Pages \cup {Absent} : \E new \in Rerun(old) :
                  page' = [page EXCEPT ![r] = new]
    <3>1. page[r] \in Pages  BY <2>2 DEF Select, TypeInv, TypeOK
    <3>2. [page[r] EXCEPT !.call = c] \in Pages \cup {Absent}  BY <3>1 DEF Pages
    <3> QED  BY <2>2, <3>2 DEF Select
  <2> QED  BY <2>1, <2>2
<1>2. PICK new \in Rerun(old) : page' = [page EXCEPT ![r] = new]
  BY <1>1
<1>3. page' \in [Reviewers -> Pages \cup {Absent}]
  BY <1>2, RerunTyped DEF TypeInv, TypeOK
<1>4. UNCHANGED <<table, index, click, audit>>  BY DEF Open, Select
<1> QED  BY <1>3, <1>4 DEF TypeInv, TypeOK, RowsFit, RowOK

LEMMA ClickTyped ==
    ASSUME TypeInv, NEW r \in Reviewers, NEW button \in Buttons, Click(r, button)
    PROVE  TypeInv'
<1>1. PICK new \in Rerun(page[r]) :
          /\ page' = [page EXCEPT ![r] = new]
          /\ click' = [click EXCEPT ![r] =
                IF new = Absent THEN Absent
                ELSE [button |-> button, call |-> new.call,
                      code |-> Chosen(button, new.call),
                      shown |-> page[r].call, phase |-> "update"]]
  BY DEF Click
<1>2. page[r] \in Pages  BY DEF Click, TypeInv, TypeOK
<1>3. new \in Pages \cup {Absent}  BY <1>2, RerunTyped
<1>4. page' \in [Reviewers -> Pages \cup {Absent}]
  BY <1>1, <1>3 DEF TypeInv, TypeOK
<1>5. ASSUME new # Absent
      PROVE  /\ new.call \in Calls
             /\ Chosen(button, new.call) \in Codes \cup {Absent}
             /\ button = "confirm" => Chosen(button, new.call) \in Codes
  <2>1. new.call \in Calls  BY <1>3, <1>5 DEF Pages
  <2>2. index[new.call] \in Rows  BY <2>1 DEF TypeInv, RowsFit
  <2>3. index[new.call].code \in Codes  BY <2>2 DEF Rows
  <2> QED  BY <2>1, <2>3 DEF Chosen
<1>6. page[r].call \in Calls  BY <1>2 DEF Pages
<1>7. click' \in [Reviewers -> Clicks \cup {Absent}]
  BY <1>1, <1>5, <1>6 DEF TypeInv, TypeOK, Clicks
<1>8. ASSUME NEW s \in Reviewers, click'[s] # Absent, click'[s].button = "confirm"
      PROVE  click'[s].code \in Codes
  <2>1. CASE s = r  BY <1>1, <1>5, <1>8, <2>1 DEF TypeInv, TypeOK
  <2>2. CASE s # r
    <3>1. click'[s] = click[s]  BY <1>1, <2>2 DEF TypeInv, TypeOK
    <3> QED  BY <1>8, <3>1 DEF TypeInv, RowsFit
  <2> QED  BY <2>1, <2>2
<1>9. UNCHANGED <<table, index, audit>>  BY DEF Click
<1> QED  BY <1>4, <1>7, <1>8, <1>9 DEF TypeInv, TypeOK, RowsFit, RowOK

\* What an accepted write makes of its row.
LEMMA DecidedTyped ==
    ASSUME TypeInv, NEW r \in Reviewers, Update(r)
    PROVE  /\ click[r] \in Clicks
           /\ table[click[r].call] \in Rows
           /\ table[click[r].call].status = "hitl-pending"
           /\ Decided(r, table[click[r].call]) \in Rows
           /\ Decided(r, table[click[r].call]).correctedBy = r
           /\ Decided(r, table[click[r].call]).status = Decision(r).status
<1> DEFINE row == table[click[r].call]
<1>1. click[r] \in Clicks  BY DEF Update, Updating, TypeInv, TypeOK
<1>2. row \in Rows  BY <1>1 DEF TypeInv, RowsFit, Clicks
<1>3. row.status = "hitl-pending"  BY DEF Update, MayDecide, Waits
<1>4. CASE click[r].button = "skip"
  <2>1. Decided(r, row) = [row EXCEPT !.status = "hitl-skipped", !.correctedBy = r]
    BY <1>4 DEF Decided
  <2> QED  BY <1>1, <1>2, <1>3, <1>4, <2>1 DEF Rows, ReviewerStatus, Decision
<1>5. CASE click[r].button # "skip"
  <2>1. click[r].button = "confirm"
    BY <1>1, <1>5 DEF Update, Clicks, Buttons
  <2>2. click[r].code \in Codes
    BY <2>1 DEF Update, Updating, TypeInv, RowsFit
  <2>3. Decided(r, row) = [row EXCEPT !.status = "hitl-corrected",
            !.verified = "hitl-corrected", !.correctedBy = r, !.code = click[r].code]
    BY <1>5 DEF Decided
  <2> QED  BY <1>1, <1>2, <1>3, <1>5, <2>2, <2>3 DEF Rows, ReviewerStatus, Decision
<1> QED  BY <1>1, <1>2, <1>3, <1>4, <1>5

LEMMA UpdateTyped ==
    ASSUME TypeInv, NEW r \in Reviewers, Update(r)
    PROVE  TypeInv'
<1> DEFINE c == click[r].call
<1>1. c \in Calls  BY DecidedTyped DEF Clicks
<1>2. table' = [table EXCEPT ![c] = Decided(r, table[c])]  BY DEF Update
<1>3. table' \in [Calls -> Rows]
  BY <1>1, <1>2, DecidedTyped DEF TypeInv, RowsFit
<1>4. \A d \in Calls : RowOK(table'[d])
  BY <1>3 DEF RowOK, Rows
<1>5. /\ click' \in [Reviewers -> Clicks \cup {Absent}]
      /\ \A s \in Reviewers :
            click'[s] # Absent /\ click'[s].button = "confirm" => click'[s].code \in Codes
  <2>1. CASE click' = [click EXCEPT ![r].phase = "audit"]
    <3>1. [click[r] EXCEPT !.phase = "audit"] \in Clicks
      BY DecidedTyped DEF Clicks
    <3>2. ASSUME NEW s \in Reviewers, click'[s] # Absent, click'[s].button = "confirm"
          PROVE  click'[s].code \in Codes
      <4>1. CASE s = r
        <5>1. click[r].button = "confirm" /\ click[r].code = click'[r].code
          BY <2>1, <3>2, <4>1, DecidedTyped DEF Clicks, TypeInv, TypeOK
        <5>2. click[r] # Absent  BY DEF Update, Updating
        <5> QED  BY <4>1, <5>1, <5>2 DEF TypeInv, RowsFit
      <4>2. CASE s # r
        <5>1. click'[s] = click[s]  BY <2>1, <4>2 DEF TypeInv, TypeOK
        <5> QED  BY <3>2, <5>1 DEF TypeInv, RowsFit
      <4> QED  BY <4>1, <4>2
    <3>3. click' \in [Reviewers -> Clicks \cup {Absent}]
      BY <2>1, <3>1 DEF TypeInv, TypeOK
    <3> QED  BY <3>2, <3>3
  <2>2. CASE UNCHANGED click  BY <2>2 DEF TypeInv, TypeOK, RowsFit
  <2> QED  BY <2>1, <2>2 DEF Update
<1>6. UNCHANGED <<index, page, audit>>  BY DEF Update
<1> QED  BY <1>3, <1>4, <1>5, <1>6 DEF TypeInv, TypeOK, RowsFit, RowOK

\* The decision meets a waiting row: it is no row that a record or another
\* handler speaks of.
LEMMA UpdateStep ==
    ASSUME IInv, NEW r \in Reviewers, Update(r)
    PROVE  IInv'
<1> DEFINE c == click[r].call
<1>1. TypeInv'  BY UpdateTyped DEF IInv
<1>2. table' = [table EXCEPT ![c] = Decided(r, table[c])]  BY DEF Update
<1>3. c \in Calls  BY DecidedTyped DEF IInv, Clicks
<1>4. \A d \in Calls : d # c => table'[d] = table[d]
  BY <1>2 DEF IInv, TypeInv, RowsFit
<1>5. /\ table'[c].correctedBy = r
      /\ table'[c].status = Decision(r).status
  BY <1>2, <1>3, DecidedTyped DEF IInv, TypeInv, RowsFit
<1>6. table[c].status \notin ReviewerStatus
  BY DecidedTyped DEF IInv, ReviewerStatus
<1>7. DecisionHeld'
  <2> SUFFICES ASSUME NEW s \in Reviewers, click'[s] # Absent, click'[s].phase = "audit"
               PROVE  /\ table'[click'[s].call].correctedBy = s
                      /\ table'[click'[s].call].status = Decision(s)'.status
    BY DEF DecisionHeld
  <2>1. CASE s = r
    <3>1. click'[r].call = c /\ click'[r].button = click[r].button
      <4>1. click[r] \in Clicks  BY DecidedTyped DEF IInv
      <4>2. CASE click' = [click EXCEPT ![r].phase = "audit"]
        <5>1. click'[r] = [click[r] EXCEPT !.phase = "audit"]
          BY <4>2 DEF IInv, TypeInv, TypeOK
        <5> QED  BY <4>1, <5>1 DEF Clicks
      <4>3. CASE UNCHANGED click  BY <4>3
      <4> QED  BY <4>2, <4>3 DEF Update
    <3>2. Decision(r)'.status = Decision(r).status  BY <3>1 DEF Decision
    <3> QED  BY <1>5, <2>1, <3>1, <3>2
  <2>2. CASE s # r
    <3>1. click'[s] = click[s]  BY <2>2 DEF Update, IInv, TypeInv, TypeOK
    <3>2. /\ table[click[s].call].correctedBy = s
          /\ table[click[s].call].status = Decision(s).status
      BY <3>1 DEF IInv, DecisionHeld
    <3>3. click[s] \in Clicks  BY <3>1 DEF IInv, TypeInv, TypeOK
    <3>4. Decision(s).status \in ReviewerStatus  BY DEF Decision, ReviewerStatus
    <3>5. click[s].call # c  BY <1>6, <3>2, <3>4
    <3>6. table'[click[s].call] = table[click[s].call]
      BY <1>4, <3>3, <3>5 DEF Clicks
    <3>7. Decision(s)'.status = Decision(s).status  BY <3>1 DEF Decision
    <3> QED  BY <3>1, <3>2, <3>6, <3>7
  <2> QED  BY <2>1, <2>2
<1>8. AuditedIsEffective'
  <2> SUFFICES ASSUME NEW a \in audit
               PROVE  /\ table'[a.call].correctedBy = a.user
                      /\ table'[a.call].status = a.status
    BY DEF Update, AuditedIsEffective
  <2>1. a \in Records  BY DEF IInv, TypeInv, TypeOK
  <2>2. /\ table[a.call].correctedBy = a.user
        /\ table[a.call].status = a.status
    BY DEF IInv, AuditedIsEffective
  <2>3. a.call \in Calls /\ a.call # c  BY <1>6, <2>1, <2>2 DEF Records
  <2> QED  BY <1>4, <2>2, <2>3
<1> QED  BY <1>1, <1>7, <1>8 DEF IInv

\* A handler that ends, with or without a record of a decision that holds.
LEMMA EndStep ==
    ASSUME IInv, NEW r \in Reviewers, Refuse(r) \/ Crash(r) \/ EmitAudit(r)
    PROVE  IInv'
<1>1. UNCHANGED <<table, index>>  BY DEF Refuse, Crash, EmitAudit
<1>2. /\ page' \in [Reviewers -> Pages \cup {Absent}]
      /\ click' = [click EXCEPT ![r] = Absent]
      /\ click' \in [Reviewers -> Clicks \cup {Absent}]
  <2>1. CASE Crash(r)  BY <2>1 DEF Crash, IInv, TypeInv, TypeOK
  <2>2. CASE Refuse(r) \/ EmitAudit(r)
    BY <2>2, EndOfRunTyped DEF Refuse, EmitAudit, IInv
  <2> QED  BY <2>1, <2>2
<1>3. \A s \in Reviewers : click'[s] # Absent => click'[s] = click[s]
  BY <1>2 DEF IInv, TypeInv, TypeOK
<1>4. ASSUME NEW a \in audit', a \notin audit
      PROVE  /\ a \in Records
             /\ table[a.call].correctedBy = a.user
             /\ table[a.call].status = a.status
  <2>1. EmitAudit(r) /\ a = Decision(r)  BY <1>4 DEF Refuse, Crash, EmitAudit
  <2>2. click[r] \in Clicks  BY <2>1 DEF EmitAudit, IInv, TypeInv, TypeOK
  <2>3. a \in Records /\ a.user = r /\ a.call = click[r].call
    BY <2>1, <2>2 DEF Decision, Records, Clicks, ReviewerStatus
  <2> QED  BY <2>1, <2>3 DEF EmitAudit, IInv, DecisionHeld
<1>5. audit' \subseteq Records  BY <1>4 DEF IInv, TypeInv, TypeOK
<1>6. TypeInv'
  BY <1>1, <1>2, <1>3, <1>5 DEF IInv, TypeInv, TypeOK, RowsFit, RowOK
<1>7. DecisionHeld'  BY <1>1, <1>3 DEF IInv, DecisionHeld, Decision
<1>8. AuditedIsEffective'  BY <1>1, <1>4 DEF IInv, AuditedIsEffective
<1> QED  BY <1>6, <1>7, <1>8 DEF IInv

\* Steps that touch neither a row of the table nor a record.
LEMMA QuietStep ==
    ASSUME IInv, TypeInv', UNCHANGED <<table, audit>>,
           \A s \in Reviewers : click'[s] # Absent /\ click'[s].phase = "audit"
                                   => click'[s] = click[s]
    PROVE  IInv'
<1>1. DecisionHeld'  BY DEF IInv, DecisionHeld, Decision
<1>2. AuditedIsEffective'  BY DEF IInv, AuditedIsEffective
<1> QED  BY <1>1, <1>2 DEF IInv

-----------------------------------------------------------------------------
(* Theorems.                                                               *)

LEMMA NextInv == IInv /\ [Next]_vars => IInv'
<1> SUFFICES ASSUME IInv, [Next]_vars PROVE IInv'  OBVIOUS
<1>1. ASSUME NEW r \in Reviewers, Open(r) \/ \E c \in Calls : Select(r, c)
      PROVE  IInv'
  <2>1. UNCHANGED <<table, click, audit>>  BY <1>1 DEF Open, Select
  <2>2. TypeInv'  BY <1>1, PageTyped DEF IInv
  <2> QED  BY <2>1, <2>2, QuietStep
<1>2. ASSUME NEW r \in Reviewers, NEW button \in Buttons, Click(r, button)
      PROVE  IInv'
  <2>1. \A s \in Reviewers : click'[s] # Absent /\ click'[s].phase = "audit"
                                => click'[s] = click[s]
    BY <1>2 DEF Click, IInv, TypeInv, TypeOK
  <2>2. UNCHANGED <<table, audit>>  BY <1>2 DEF Click
  <2>3. TypeInv'  BY <1>2, ClickTyped DEF IInv
  <2> QED  BY <2>1, <2>2, <2>3, QuietStep
<1>3. ASSUME NEW r \in Reviewers, Handle(r)
      PROVE  IInv'
  BY <1>3, UpdateStep, EndStep DEF Handle
<1>4. ASSUME NEW c \in Calls, IndexCatchesUp(c)
      PROVE  IInv'
  <2>1. UNCHANGED <<table, page, click, audit>>  BY <1>4 DEF IndexCatchesUp
  <2>2. index' \in [Calls -> Rows]
    BY <1>4 DEF IndexCatchesUp, IInv, TypeInv, RowsFit
  <2>3. \A d \in Calls : RowOK(index'[d])  BY <2>2 DEF RowOK, Rows
  <2>4. TypeInv'  BY <2>1, <2>2, <2>3 DEF IInv, TypeInv, TypeOK, RowsFit, RowOK
  <2> QED  BY <2>1, <2>4, QuietStep
<1>5. CASE TaskRestart
  <2>1. UNCHANGED <<table, index, audit>>  BY <1>5 DEF TaskRestart
  <2>2. \A s \in Reviewers : page'[s] = Absent /\ click'[s] = Absent
    BY <1>5 DEF TaskRestart
  <2>3. TypeInv'
    BY <1>5, <2>1, <2>2 DEF TaskRestart, IInv, TypeInv, TypeOK, RowsFit, RowOK
  <2> QED  BY <2>1, <2>2, <2>3, QuietStep
<1>6. CASE UNCHANGED vars
  <2>1. UNCHANGED <<table, index, page, click, audit>>
    BY <1>6 DEF vars, review
  <2>2. TypeInv'  BY <2>1 DEF IInv, TypeInv, TypeOK, RowsFit, RowOK
  <2> QED  BY <2>1, <2>2, QuietStep
<1> QED  BY <1>1, <1>2, <1>3, <1>4, <1>5, <1>6 DEF Next

\* The invariant that the theorems below rest on.
THEOREM ReviewInvariance == Spec => []IInv
<1> QED  BY InitInv, NextInv, PTL DEF Spec

\* Every reachable state of the review queue is well typed.
THEOREM ReviewTypeCorrect == Spec => []TypeOK
<1>1. IInv => TypeOK  BY DEF IInv, TypeInv
<1> QED  BY <1>1, ReviewInvariance, PTL

\* The audit trail never claims a decision that the row of its call does not
\* hold, whatever was retried, refused or lost.
THEOREM AuditTrailEffective == Spec => []AuditedIsEffective
<1>1. IInv => AuditedIsEffective  BY DEF IInv
<1> QED  BY <1>1, ReviewInvariance, PTL

\* The optimistic lock: however many reviewers, stale pages and repeated
\* UpdateItems there are, a decided row stays as its first decision left it.
THEOREM FirstDecisionWins == Spec => FirstWriteWins
<1>1. IInv /\ [Next]_vars =>
         [\A c \in Calls : table[c].status \in ReviewerStatus =>
             table'[c] = table[c]]_vars
  <2> SUFFICES ASSUME IInv, Next, NEW c \in Calls, table[c].status \in ReviewerStatus
               PROVE  table'[c] = table[c]
    OBVIOUS
  <2>1. ASSUME NEW r \in Reviewers, Update(r)
        PROVE  table'[c] = table[c]
    <3>1. table[click[r].call].status = "hitl-pending"
      BY <2>1 DEF Update, MayDecide, Waits
    <3>2. c # click[r].call  BY <3>1 DEF ReviewerStatus
    <3> QED  BY <2>1, <3>2 DEF Update, IInv, TypeInv, RowsFit
  <2>2. CASE UNCHANGED table  BY <2>2
  <2> QED
    BY <2>1, <2>2 DEF Next, Open, Select, Click, Handle, Refuse, Crash, EmitAudit,
       IndexCatchesUp, TaskRestart
<1> QED  BY <1>1, ReviewInvariance, PTL DEF Spec, FirstWriteWins

\* Index and confirmations hold the codes of the row of their call.
CodesFit ==
    /\ \A c \in Calls : index[c].code = table[c].code
    /\ \A r \in Reviewers :
          click[r] # Absent /\ click[r].button = "confirm" =>
              click[r].code = table[click[r].call].code

LEMMA InitCodes == Init => CodesFit
BY DEF Init, ReviewInit, CodesFit

\* The accepted write puts back the codes that its row holds.
LEMMA UpdateCodes ==
    ASSUME IInv, CodesFit, NEW r \in Reviewers, Update(r)
    PROVE  \A c \in Calls : table'[c].code = table[c].code
<1> DEFINE c == click[r].call
           row == table[c]
<1>1. click[r] \in Clicks /\ row \in Rows  BY DecidedTyped DEF IInv
<1>2. c \in Calls  BY <1>1 DEF Clicks
<1>3. table' = [table EXCEPT ![c] = Decided(r, row)]  BY DEF Update
<1>4. Decided(r, row).code = row.code
  <2>1. CASE click[r].button = "skip"
    <3>1. Decided(r, row) = [row EXCEPT !.status = "hitl-skipped", !.correctedBy = r]
      BY <2>1 DEF Decided
    <3> QED  BY <1>1, <3>1 DEF Rows
  <2>2. CASE click[r].button # "skip"
    <3>1. click[r].button = "confirm" /\ click[r] # Absent
      BY <1>1, <2>2 DEF Update, Updating, Clicks, Buttons
    <3>2. click[r].code = row.code  BY <3>1 DEF CodesFit
    <3>3. Decided(r, row) = [row EXCEPT !.status = "hitl-corrected",
              !.verified = "hitl-corrected", !.correctedBy = r, !.code = click[r].code]
      BY <2>2 DEF Decided
    <3> QED  BY <1>1, <3>2, <3>3 DEF Rows
  <2> QED  BY <2>1, <2>2
<1>5. table \in [Calls -> Rows]  BY DEF IInv, TypeInv, RowsFit
<1> QED  BY <1>2, <1>3, <1>4, <1>5

\* A click takes its codes from the record of the call that its run shows.
LEMMA ClickCodes ==
    ASSUME IInv, CodesFit, NEW r \in Reviewers, NEW button \in Buttons, Click(r, button)
    PROVE  CodesFit'
<1>1. PICK new \in Rerun(page[r]) :
          click' = [click EXCEPT ![r] =
                IF new = Absent THEN Absent
                ELSE [button |-> button, call |-> new.call,
                      code |-> Chosen(button, new.call),
                      shown |-> page[r].call, phase |-> "update"]]
  BY DEF Click
<1>2. UNCHANGED <<table, index>> /\ page[r] # Absent  BY DEF Click
<1>3. page[r] \in Pages  BY <1>2 DEF IInv, TypeInv, TypeOK
<1>4. new \in Pages \cup {Absent}  BY <1>3, RerunTyped
<1>5. new # Absent => new.call \in Calls  BY <1>4 DEF Pages
<1>6. ASSUME NEW s \in Reviewers, click'[s] # Absent, click'[s].button = "confirm"
      PROVE  click'[s].code = table[click'[s].call].code
  <2>1. CASE s = r
    <3>1. new # Absent /\ click'[r] = [button |-> button, call |-> new.call,
              code |-> Chosen(button, new.call), shown |-> page[r].call,
              phase |-> "update"]
      BY <1>1, <1>6, <2>1 DEF IInv, TypeInv, TypeOK
    <3>2. click'[r].call = new.call /\ click'[r].code = index[new.call].code
      BY <1>6, <2>1, <3>1 DEF Chosen
    <3> QED  BY <1>5, <2>1, <3>1, <3>2 DEF CodesFit
  <2>2. CASE s # r
    <3>1. click'[s] = click[s]  BY <1>1, <2>2 DEF IInv, TypeInv, TypeOK
    <3> QED  BY <1>6, <3>1 DEF CodesFit
  <2> QED  BY <2>1, <2>2
<1> QED  BY <1>2, <1>6 DEF CodesFit

LEMMA CodesStep ==
    ASSUME IInv, CodesFit, [Next]_vars
    PROVE  CodesFit' /\ \A c \in Calls : table'[c].code = table[c].code
<1> DEFINE Stay == \A c \in Calls : table'[c].code = table[c].code
           Clicked == \A r \in Reviewers :
                         click'[r] # Absent => /\ click[r] # Absent
                                               /\ click'[r].button = click[r].button
                                               /\ click'[r].call = click[r].call
                                               /\ click'[r].code = click[r].code
<1>1. \A r \in Reviewers : click[r] # Absent => click[r].call \in Calls
  BY DEF IInv, TypeInv, TypeOK, Clicks
<1>2. ASSUME Stay, Clicked, UNCHANGED index  PROVE CodesFit'
  BY <1>1, <1>2 DEF CodesFit
<1>3. ASSUME NEW r \in Reviewers, Update(r)  PROVE CodesFit' /\ Stay
  <2>1. Stay  BY <1>3, UpdateCodes
  <2>2. click[r] \in Clicks /\ click[r] # Absent
    BY <1>3, DecidedTyped DEF IInv, Update, Updating
  <2>3. Clicked
    <3>1. CASE click' = [click EXCEPT ![r].phase = "audit"]
      <4>1. click'[r] = [click[r] EXCEPT !.phase = "audit"]
        BY <3>1 DEF IInv, TypeInv, TypeOK
      <4>2. \A s \in Reviewers : s # r => click'[s] = click[s]
        BY <3>1 DEF IInv, TypeInv, TypeOK
      <4>3. /\ click'[r].button = click[r].button
            /\ click'[r].call = click[r].call
            /\ click'[r].code = click[r].code
        BY <2>2, <4>1 DEF Clicks
      <4> QED  BY <2>2, <4>2, <4>3
    <3>2. CASE UNCHANGED click  BY <3>2
    <3> QED  BY <1>3, <3>1, <3>2 DEF Update
  <2> HIDE DEF Stay, Clicked
  <2> QED  BY <1>2, <1>3, <2>1, <2>3 DEF Update
<1>4. ASSUME NEW r \in Reviewers, NEW button \in Buttons, Click(r, button)
      PROVE  CodesFit' /\ Stay
  BY <1>4, ClickCodes DEF Click
<1>5. ASSUME NEW r \in Reviewers, Refuse(r) \/ Crash(r) \/ EmitAudit(r)
      PROVE  CodesFit' /\ Stay
  <2>1. UNCHANGED <<table, index>> /\ click' = [click EXCEPT ![r] = Absent]
    BY <1>5 DEF Refuse, Crash, EmitAudit, EndOfRun
  <2>2. Clicked  BY <2>1 DEF IInv, TypeInv, TypeOK
  <2>3. Stay  BY <2>1
  <2> HIDE DEF Stay, Clicked
  <2> QED  BY <1>2, <2>1, <2>2, <2>3
<1>6. ASSUME NEW c \in Calls, IndexCatchesUp(c)  PROVE CodesFit' /\ Stay
  BY <1>6 DEF IndexCatchesUp, CodesFit, IInv, TypeInv, RowsFit
<1>7. CASE TaskRestart  BY <1>7 DEF TaskRestart, CodesFit
<1>8. CASE UNCHANGED vars  BY <1>8 DEF vars, review, CodesFit
<1>9. ASSUME NEW r \in Reviewers, Open(r) \/ \E c \in Calls : Select(r, c)
      PROVE  CodesFit' /\ Stay
  <2>1. UNCHANGED <<table, index, click>>  BY <1>9 DEF Open, Select
  <2> QED  BY <2>1 DEF CodesFit
<1>10. ASSUME NEW r \in Reviewers, Handle(r)  PROVE CodesFit' /\ Stay
  BY <1>3, <1>5, <1>10 DEF Handle
<1> QED  BY <1>4, <1>6, <1>7, <1>8, <1>9, <1>10 DEF Next

\* What a decision writes belongs to its call: for any number of calls and
\* reviewers, no page, click or stale index carries the codes of one call to
\* the row of another.
THEOREM DecisionsKeepCodes == Spec => CodesOfOwnCall
<1>1. Spec => []CodesFit
  <2>1. IInv /\ CodesFit /\ [Next]_vars => CodesFit'  BY CodesStep
  <2> QED  BY <2>1, InitCodes, ReviewInvariance, PTL DEF Spec
<1>2. IInv /\ CodesFit /\ [Next]_vars =>
         [\A c \in Calls : table'[c].code = table[c].code]_vars
  BY CodesStep
<1> QED  BY <1>1, <1>2, ReviewInvariance, PTL DEF Spec, CodesOfOwnCall

=============================================================================
