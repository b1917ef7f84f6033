--------------------------- MODULE CallCenterProofs ---------------------------
(***************************************************************************)
(* Theorems about CallCenter: what a row owes to whom when executions and  *)
(* reviewers write it together, for any number of both.                    *)
(*                                                                         *)
(* The invariants EInv and AInv of the pipeline speak of a row only by its *)
(* writer and its prompt version. A reviewer changes neither, so they hold *)
(* here as well, and the lemmas about the steps of the pipeline apply.     *)
(***************************************************************************)
EXTENDS CallCenter, ClassifyPipelineProofs

\* A confirmation carries codes: those of the row that the page showed.
ConfirmHasCode ==
    \A r \in Reviewers :
        click[r] # Absent /\ click[r].button = "confirm" => click[r].code \in Codes

\* The page shows one of the calls it offers.
Offers == {p \in R!Pages : p.call \in p.options}
PagesOffer == page \in [Reviewers -> Offers \cup {Absent}]

CInv ==
    /\ EInv
    /\ AInv
    /\ CenterTypeOK
    /\ RowLineage
    /\ ConfirmHasCode
    /\ PagesOffer

-----------------------------------------------------------------------------
(* Rows.                                                                   *)

LEMMA AnyRowNotAbsent ==
  ASSUME NEW row \in Row \cup ReviewedRow
  PROVE  row # Absent
  BY RowAssumption, ReviewedRowAssumption

LEMMA AnyRowOK ==
  ASSUME NEW row \in Or(Row \cup ReviewedRow)
  PROVE  R!RowOK(row)
<1>1. CASE row = Absent
  BY <1>1 DEF R!RowOK
<1>2. CASE row \in Row
  BY <1>2 DEF R!RowOK, Row
<1>3. CASE row \in ReviewedRow
  BY <1>3 DEF R!RowOK, ReviewedRow
<1>4. QED BY <1>1, <1>2, <1>3 DEF Or

\* The row that put_item writes fits the verdict of its document.
LEMMA ItemFits ==
  ASSUME NEW w, Decided(event[w])
  PROVE  VerdictFits(Item(w), event[w].verifyCode)
<1>1. /\ Item(w).code = event[w].code
      /\ Item(w).confidence = event[w].confidence
      /\ Item(w).verified = event[w].verified
      /\ Item(w).status = event[w].status
  BY DEF Item, Decided, Default
<1>2. VerdictFits(event[w], event[w].verifyCode)
  BY DEF Decided
<1>3. QED BY <1>1, <1>2 DEF VerdictFits

\* Only the item of an execution waits for review: a decided row does not.
LEMMA WaitingRow ==
  ASSUME CInv, NEW c \in Calls, R!MayDecide(c)
  PROVE  /\ table[c] # Absent
         /\ table[c] \in Row
         /\ table[c] = Item(table[c].writer)
         /\ table[c].status = "hitl-pending"
         /\ table[c].verified = "hitl-pending"
<1>1. table[c] # Absent /\ table[c].status = "hitl-pending"
  BY DEF R!MayDecide, R!Waits
<1>2. table[c].status \notin R!ReviewerStatus
  BY <1>1 DEF R!ReviewerStatus
<1>3. table[c] \in Row
  BY <1>1, <1>2 DEF CInv, CenterTypeOK, Or, ReviewedRow
<1>4. /\ table[c] = Item(table[c].writer)
      /\ VerdictFits(table[c], event[table[c].writer].verifyCode)
  BY <1>1, <1>2 DEF CInv, RowLineage, DecidedOn
<1>5. table[c].verified = "hitl-pending"
  BY <1>1, <1>4 DEF VerdictFits
<1>6. QED BY <1>1, <1>3, <1>4, <1>5

-----------------------------------------------------------------------------
(* The initial state.                                                      *)

LEMMA CenterInitInv == CenterInit => CInv
<1> SUFFICES ASSUME CenterInit PROVE CInv
  OBVIOUS
<1>1. EInv /\ AInv /\ TypeOK
  BY InitInv, InitAccount DEF CenterInit, IInv
<1>2. \A c \in Calls : table[c] = Absent /\ index[c] = Absent
  BY DEF CenterInit, Init
<1>3. CenterTypeOK
  <2>1. /\ table \in [Calls -> Or(Row \cup ReviewedRow)]
        /\ index \in [Calls -> Or(Row \cup ReviewedRow)]
    BY <1>1 DEF CenterInit, TypeOK, Or
  <2>2. R!TypeOK
    BY <1>2 DEF CenterInit, R!ReviewInit, R!TypeOK, R!RowOK
  <2>3. QED BY <1>1, <2>1, <2>2 DEF CenterTypeOK, EInv
<1>4. RowLineage
  BY <1>2 DEF RowLineage
<1>5. ConfirmHasCode /\ PagesOffer
  BY DEF CenterInit, R!ReviewInit, ConfirmHasCode, PagesOffer
<1>6. QED BY <1>1, <1>3, <1>4, <1>5 DEF CInv

-----------------------------------------------------------------------------
(* A step of the pipeline.                                                 *)

\* What the pipeline leaves of a lineage: a row that stays keeps it, and a row
\* that is put again begins one without a reviewer.
LEMMA LineageKept ==
  ASSUME CInv, [Next]_vars
  PROVE  RowLineage'
<1> SUFFICES ASSUME NEW c \in Calls, table'[c] # Absent, NEW w, w = table'[c].writer
             PROVE  \/ /\ table'[c] = Item(w)'
                       /\ VerdictFits(Item(w)', event'[Item(w)'.writer].verifyCode)
                    \/ DecidedOn(Item(w)', table'[c])
  BY DEF RowLineage, DecidedOn
<1>1. /\ Decided(event'[w])
      /\ Item(w)' = Item(w)
      /\ Item(w)'.writer = w
      /\ table'[c] = table[c] \/ table'[c] = Item(w)
  BY WriterStep DEF CInv, Item
<1>2. VerdictFits(Item(w)', event'[w].verifyCode)
  <2>1. /\ Item(w)'.code = event'[w].code
        /\ Item(w)'.confidence = event'[w].confidence
        /\ Item(w)'.verified = event'[w].verified
        /\ Item(w)'.status = event'[w].status
    BY <1>1 DEF Item, Decided, Default
  <2>2. QED BY <1>1, <2>1 DEF Decided, VerdictFits
<1>3. CASE table'[c] = Item(w)
  BY <1>1, <1>2, <1>3
<1>4. CASE table'[c] = table[c]
  <2>1. table[c] = Item(w) \/ DecidedOn(Item(w), table[c])
    BY <1>4 DEF CInv, RowLineage
  <2>2. QED BY <1>1, <1>2, <1>4, <2>1
<1>5. QED BY <1>1, <1>3, <1>4

LEMMA PipelineStep ==
  ASSUME CInv, [Next]_vars, UNCHANGED review
  PROVE  CInv'
<1>1. EInv' /\ AInv'
  BY EInvStep, AccountStep DEF CInv
<1>2. table' \in [Calls -> Or(Row \cup ReviewedRow)]
  <2>1. ASSUME NEW e \in Execs, PutItem(e)
        PROVE  table' \in [Calls -> Or(Row \cup ReviewedRow)]
    BY <2>1, ItemType DEF PutItem, CInv, CenterTypeOK, Or
  <2>2. CASE UNCHANGED table
    BY <2>2 DEF CInv, CenterTypeOK
  <2>3. QED BY <2>1, <2>2, OnlyPutItem
<1>3. UNCHANGED <<index, page, click, audit>>
  BY DEF review
<1>4. \A c \in Calls : R!RowOK(table'[c])
  BY <1>2, AnyRowOK
<1>5. R!TypeOK'
  BY <1>3, <1>4 DEF CInv, CenterTypeOK, R!TypeOK, R!RowOK
<1>6. CenterTypeOK'
  BY <1>1, <1>2, <1>3, <1>5 DEF CInv, CenterTypeOK, EInv
<1>7. ConfirmHasCode' /\ PagesOffer'
  BY <1>3 DEF CInv, ConfirmHasCode, PagesOffer
<1>8. QED BY <1>1, <1>6, <1>7, LineageKept DEF CInv

-----------------------------------------------------------------------------
(* A step of the reviewers.                                                *)

\* Whoever updates a row and leaves its writer and its prompt version alone
\* leaves the executions with the same evidence.
LEMMA EvidenceOfUpdate ==
  ASSUME EInv, UNCHANGED pipeline, NEW c \in Calls, table[c] # Absent,
         NEW row, row # Absent, row.writer = table[c].writer,
         row.promptVersion = table[c].promptVersion,
         table' = [table EXCEPT ![c] = row]
  PROVE  EInv'
<1>1. /\ UNCHANGED <<masked, state, step, tries, event, stream, classifyDlq, persistDlq>>
      /\ FlowTypeOK /\ FlowFits /\ RowsOwned /\ PublishedHasRow /\ SkippedHasRow
  BY DEF pipeline, EInv
<1>2. /\ table' = [d \in Calls |-> table'[d]]
      /\ \A d \in Calls : table[d] # Absent <=> table'[d] # Absent
      /\ \A d \in Calls : table[d] # Absent =>
            /\ table'[d].writer = table[d].writer
            /\ table'[d].promptVersion = table[d].promptVersion
  BY <1>1 DEF RowsOwned
<1>3. FlowTypeOK' /\ FlowFits'
  BY <1>1 DEF FlowTypeOK, FlowFits
<1>4. \A e : event'[e] = event[e] /\ state'[e] = state[e]
  BY <1>1
<1>5. RowsOwned'
  <2> SUFFICES ASSUME NEW d \in Calls, table'[d] # Absent, NEW w, w = table'[d].writer
               PROVE  /\ w \in Execs
                      /\ state'[w] \notin Early
                      /\ Decided(event'[w])
                      /\ CallOf[event'[w].key] = d
                      /\ table'[d].promptVersion = event'[w].promptVersion
    BY <1>2 DEF RowsOwned, CallId
  <2>1. table[d] # Absent /\ w = table[d].writer
        /\ table'[d].promptVersion = table[d].promptVersion
    BY <1>2
  <2>2. QED BY <1>1, <1>4, <2>1 DEF RowsOwned, CallId
<1>6. PublishedHasRow'
  <2> SUFFICES ASSUME NEW e \in Execs,
                      \/ stream[e] > 0
                      \/ step[e] = "put_record"
                      \/ event[e].persisted = TRUE
               PROVE  /\ state[e] \notin Early
                      /\ event[e].key \in Keys
                      /\ table'[CallOf[event[e].key]] # Absent
                      /\ table'[CallOf[event[e].key]].promptVersion
                            = event[e].promptVersion
    BY <1>1 DEF PublishedHasRow, CallId
  <2>1. /\ state[e] \notin Early
        /\ event[e].key \in Keys
        /\ table[CallOf[event[e].key]] # Absent
        /\ table[CallOf[event[e].key]].promptVersion = event[e].promptVersion
    BY <1>1 DEF PublishedHasRow, CallId
  <2>2. CallOf[event[e].key] \in Calls
    BY <2>1, CallsAssumption
  <2>3. QED BY <1>2, <2>1, <2>2
<1>7. SkippedHasRow'
  <2> SUFFICES ASSUME NEW e \in Execs, event[e].persisted = FALSE
               PROVE  /\ table'[CallOf[event[e].key]] # Absent
                      /\ table'[CallOf[event[e].key]].promptVersion
                            # event[e].promptVersion
    BY <1>1 DEF SkippedHasRow, CallId
  <2>1. Fits(state[e], step[e], event[e]) /\ event[e].persisted # Absent
    BY <1>1, AbsentDistinct DEF FlowFits
  <2>2. CallOf[event[e].key] \in Calls
    BY <2>1, CallsAssumption DEF Fits
  <2>3. /\ table[CallOf[event[e].key]] # Absent
        /\ table[CallOf[event[e].key]].promptVersion # event[e].promptVersion
    BY <1>1 DEF SkippedHasRow, CallId
  <2>4. QED BY <1>2, <2>2, <2>3
<1>8. QED BY <1>3, <1>5, <1>6, <1>7 DEF EInv

\* The handlers that write nothing leave rows and executions as they are.
LEMMA NoWrite ==
  ASSUME CInv, UNCHANGED <<table, pipeline>>
  PROVE  EInv' /\ AInv' /\ FlowTypeOK' /\ RowLineage'
<1>1. UNCHANGED <<masked, state, step, tries, event, stream, classifyDlq, persistDlq>>
  BY DEF pipeline
<1>2. EInv'
  BY <1>1 DEF CInv, EInv, FlowTypeOK, FlowFits, RowsOwned, PublishedHasRow,
              SkippedHasRow, CallId
<1>3. AInv'
  BY <1>1 DEF CInv, AInv, Account, MessagesFit, RecordsFit, InDlq
<1>4. RowLineage'
  <2> SUFFICES ASSUME NEW c \in Calls, table[c] # Absent, NEW w, w = table[c].writer
               PROVE  \/ /\ table[c] = Item(w)'
                         /\ VerdictFits(Item(w)', event'[Item(w)'.writer].verifyCode)
                      \/ DecidedOn(Item(w)', table[c])
    BY DEF RowLineage, DecidedOn
  <2>1. Item(w)' = Item(w) /\ event' = event
    BY <1>1 DEF Item
  <2>2. QED BY <2>1 DEF CInv, RowLineage
<1>5. QED BY <1>2, <1>3, <1>4 DEF EInv

\* What update_item makes of a waiting row: the same item under a decision.
LEMMA DecidedRow ==
  ASSUME CInv, NEW r \in Reviewers, R!Update(r),
         NEW c, c = click[r].call, NEW row, row = R!Decided(r, table[c])
  PROVE  /\ c \in Calls
         /\ R!MayDecide(c)
         /\ table' = [table EXCEPT ![c] = row]
         /\ row \in ReviewedRow
         /\ row.writer = table[c].writer
         /\ row.promptVersion = table[c].promptVersion
         /\ DecidedOn(table[c], row)
<1>1. click[r] \in R!Clicks /\ click[r] # Absent
  BY DEF R!Update, R!Updating, CInv, CenterTypeOK, R!TypeOK
<1>2. c \in Calls
  BY <1>1 DEF R!Clicks
<1>3. R!MayDecide(c) /\ table' = [table EXCEPT ![c] = row]
  BY DEF R!Update
<1>4. PICK old : old = table[c]
  OBVIOUS
<1>5. old \in Row /\ old.verified = "hitl-pending" /\ old.status = "hitl-pending"
  BY <1>2, <1>3, <1>4, WaitingRow
<1>6. CASE click[r].button = "skip"
  <2>1. row = [old EXCEPT !.status = "hitl-skipped", !.correctedBy = r]
    BY <1>4, <1>6 DEF R!Decided
  <2>2. row \in ReviewedRow
    BY <1>5, <2>1 DEF Row, ReviewedRow, R!ReviewerStatus
  <2>3. DecidedOn(old, row)
    BY <1>5, <2>1 DEF Row, DecidedOn, R!ReviewerStatus
  <2>4. QED BY <1>2, <1>3, <1>4, <1>5, <2>1, <2>2, <2>3 DEF Row
<1>7. CASE click[r].button # "skip"
  <2>1. click[r].button = "confirm"
    BY <1>1, <1>7 DEF R!Update, R!Clicks, R!Buttons
  <2>2. click[r].code \in Codes
    BY <1>1, <2>1 DEF CInv, ConfirmHasCode
  <2>3. row = [old EXCEPT !.status = "hitl-corrected", !.verified = "hitl-corrected",
                          !.correctedBy = r, !.code = click[r].code]
    BY <1>4, <1>7 DEF R!Decided
  <2>4. row \in ReviewedRow
    BY <1>5, <2>2, <2>3 DEF Row, ReviewedRow, R!ReviewerStatus
  <2>5. DecidedOn(old, row)
    BY <1>5, <2>3 DEF Row, DecidedOn, R!ReviewerStatus
  <2>6. QED BY <1>2, <1>3, <1>4, <1>5, <2>3, <2>4, <2>5 DEF Row
<1>8. QED BY <1>6, <1>7

\* The page of a rerun shows a call that waits in the index, or nothing.
LEMMA RerunOffers ==
  ASSUME CInv, NEW old \in Offers \cup {Absent}, NEW new \in R!Rerun(old)
  PROVE  /\ new \in Offers \cup {Absent}
         /\ new # Absent => new.call \in Calls /\ R!Waits(index[new.call])
<1>1. R!Queue \subseteq Calls /\ \A c \in R!Queue : R!Waits(index[c])
  BY DEF R!Queue
<1>2. CASE R!Queue = {}
  BY <1>2 DEF R!Rerun
<1>3. CASE R!Queue # {} /\ old # Absent /\ old.options = R!Queue
  BY <1>1, <1>3 DEF R!Rerun, Offers
<1>4. CASE R!Queue # {} /\ ~(old # Absent /\ old.options = R!Queue)
  <2>1. new \in [options : {R!Queue}, call : R!Queue]
    BY <1>4 DEF R!Rerun
  <2>2. QED BY <1>1, <2>1 DEF R!Pages, Offers
<1>5. QED BY <1>2, <1>3, <1>4

\* What is left to show once a step keeps rows, pages, clicks and records.
LEMMA ReviewTyped ==
  ASSUME CInv, EInv', AInv', RowLineage', ConfirmHasCode', PagesOffer',
         table' \in [Calls -> Or(Row \cup ReviewedRow)],
         index' \in [Calls -> Or(Row \cup ReviewedRow)],
         click' \in [Reviewers -> R!Clicks \cup {Absent}],
         audit' \subseteq R!Records
  PROVE  CInv'
<1>1. \A c \in Calls : R!RowOK(table'[c]) /\ R!RowOK(index'[c])
  BY AnyRowOK
<1>2. R!TypeOK'
  BY <1>1 DEF R!TypeOK, R!RowOK, PagesOffer, Offers
<1>3. QED BY <1>2 DEF CInv, CenterTypeOK, EInv


LEMMA UpdateKeeps ==
  ASSUME CInv, NEW r \in Reviewers, R!Update(r), UNCHANGED pipeline
  PROVE  CInv'
<1>1. PICK c : c = click[r].call
  OBVIOUS
<1>2. PICK row : row = R!Decided(r, table[c])
  OBVIOUS
<1>3. /\ c \in Calls
      /\ R!MayDecide(c)
      /\ table' = [table EXCEPT ![c] = row]
      /\ row \in ReviewedRow
      /\ row.writer = table[c].writer
      /\ row.promptVersion = table[c].promptVersion
      /\ DecidedOn(table[c], row)
  BY <1>1, <1>2, DecidedRow
<1>4. /\ table[c] # Absent
      /\ table[c] = Item(table[c].writer)
      /\ table[c].status = "hitl-pending"
  BY <1>3, WaitingRow
<1>5. row # Absent
  BY <1>3, AnyRowNotAbsent
<1>6. EInv'
  BY <1>3, <1>4, <1>5, EvidenceOfUpdate DEF CInv
<1>7. AInv'
  BY DEF pipeline, CInv, AInv, Account, MessagesFit, RecordsFit, InDlq
<1>8. table' \in [Calls -> Or(Row \cup ReviewedRow)]
  BY <1>3 DEF CInv, CenterTypeOK, Or
<1>9. RowLineage'
  <2>1. \A w : Item(w)' = Item(w) /\ event'[w] = event[w]
    BY DEF pipeline, Item
  <2>2. /\ table'[c] = row
        /\ \A d \in Calls : d # c => table'[d] = table[d]
    BY <1>3 DEF CInv, CenterTypeOK
  <2> SUFFICES ASSUME NEW d \in Calls, table'[d] # Absent, NEW w, w = table'[d].writer
               PROVE  \/ /\ table'[d] = Item(w)'
                         /\ VerdictFits(Item(w)', event'[Item(w)'.writer].verifyCode)
                      \/ DecidedOn(Item(w)', table'[d])
    BY DEF RowLineage, DecidedOn
  <2>3. CASE d = c
    BY <1>3, <1>4, <2>1, <2>2, <2>3
  <2>4. CASE d # c
    BY <2>1, <2>2, <2>4 DEF CInv, RowLineage
  <2>5. QED BY <2>3, <2>4
<1>10. UNCHANGED <<index, page, audit>> /\ PagesOffer'
  BY DEF R!Update, CInv, PagesOffer
<1>11. /\ click' \in [Reviewers -> R!Clicks \cup {Absent}]
       /\ ConfirmHasCode'
  <2>1. click \in [Reviewers -> R!Clicks \cup {Absent}] /\ click[r] \in R!Clicks
    BY DEF R!Update, R!Updating, CInv, CenterTypeOK, R!TypeOK
  <2>2. CASE click' = [click EXCEPT ![r].phase = "audit"]
    <3>1. PICK new : new = [click[r] EXCEPT !.phase = "audit"]
      OBVIOUS
    <3>2. /\ new \in R!Clicks
          /\ new.button = click[r].button /\ new.code = click[r].code
      BY <2>1, <3>1 DEF R!Clicks
    <3>3. click' = [click EXCEPT ![r] = new]
      BY <2>2, <3>1
    <3>4. click[r] # Absent
      BY DEF R!Update, R!Updating
    <3>5. ConfirmHasCode'
      <4> SUFFICES ASSUME NEW s \in Reviewers, click'[s] # Absent,
                          click'[s].button = "confirm"
                   PROVE  click'[s].code \in Codes
        BY DEF ConfirmHasCode
      <4>1. CASE s = r
        BY <2>1, <3>2, <3>3, <3>4, <4>1 DEF CInv, ConfirmHasCode
      <4>2. CASE s # r
        BY <2>1, <3>3, <4>2 DEF CInv, ConfirmHasCode
      <4>3. QED BY <4>1, <4>2
    <3>6. QED BY <2>1, <3>2, <3>3, <3>5
  <2>3. CASE UNCHANGED click
    BY <2>1, <2>3 DEF CInv, ConfirmHasCode
  <2>4. QED BY <2>2, <2>3 DEF R!Update
<1>12. QED
  BY <1>6, <1>7, <1>8, <1>9, <1>10, <1>11, ReviewTyped
  DEF CInv, CenterTypeOK, R!TypeOK

LEMMA PageKeeps ==
  ASSUME CInv, UNCHANGED pipeline, NEW r \in Reviewers,
         R!Open(r) \/ \E c \in Calls : R!Select(r, c)
  PROVE  CInv'
<1>1. PICK old \in Offers \cup {Absent} :
         \E new \in R!Rerun(old) : page' = [page EXCEPT ![r] = new]
  <2>1. CASE R!Open(r)
    <3>1. Absent \in Offers \cup {Absent}
      OBVIOUS
    <3>2. QED BY <2>1, <3>1 DEF R!Open
  <2>2. ASSUME NEW c \in Calls, R!Select(r, c)
        PROVE  \E old \in Offers \cup {Absent} : \E new \in R!Rerun(old) :
                  page' = [page EXCEPT ![r] = new]
    <3>1. page[r] \in Offers /\ c \in page[r].options
      BY <2>2 DEF R!Select, CInv, PagesOffer
    <3>2. [page[r] EXCEPT !.call = c] \in Offers \cup {Absent}
      BY <3>1 DEF Offers, R!Pages
    <3>3. QED BY <2>2, <3>2 DEF R!Select
  <2>3. QED BY <2>1, <2>2
<1>2. PICK new \in R!Rerun(old) : page' = [page EXCEPT ![r] = new]
  BY <1>1
<1>3. PagesOffer'
  BY <1>2, RerunOffers DEF CInv, PagesOffer
<1>4. UNCHANGED <<table, index, click, audit>>
  BY DEF R!Open, R!Select
<1>5. ConfirmHasCode'
  BY <1>4 DEF CInv, ConfirmHasCode
<1>6. QED BY <1>3, <1>4, <1>5, NoWrite, ReviewTyped DEF CInv, CenterTypeOK, R!TypeOK

LEMMA ClickKeeps ==
  ASSUME CInv, UNCHANGED pipeline, NEW r \in Reviewers, NEW button \in R!Buttons,
         R!Click(r, button)
  PROVE  CInv'
<1>1. PICK new \in R!Rerun(page[r]) :
         /\ page' = [page EXCEPT ![r] = new]
         /\ click' = [click EXCEPT ![r] =
               IF new = Absent THEN Absent
               ELSE [button |-> button, call |-> new.call,
                     code |-> R!Chosen(button, new.call),
                     shown |-> page[r].call, phase |-> "update"]]
  BY DEF R!Click
<1>2. page[r] \in Offers
  BY DEF R!Click, CInv, PagesOffer
<1>3. /\ new \in Offers \cup {Absent}
      /\ new # Absent => new.call \in Calls /\ R!Waits(index[new.call])
  BY <1>1, <1>2, RerunOffers
<1>4. PagesOffer'
  BY <1>1, <1>3 DEF CInv, PagesOffer
<1>5. ASSUME new # Absent
      PROVE  /\ new.call \in Calls
             /\ R!Chosen(button, new.call) \in Codes \cup {Absent}
             /\ button = "confirm" => R!Chosen(button, new.call) \in Codes
  <2>1. index[new.call] # Absent => index[new.call].code \in Codes
    BY <1>3, <1>5 DEF CInv, CenterTypeOK, R!TypeOK, R!RowOK
  <2>2. index[new.call] # Absent
    BY <1>3, <1>5 DEF R!Waits
  <2>3. QED BY <1>3, <1>5, <2>1, <2>2 DEF R!Chosen
<1>6. page[r].call \in Calls
  BY <1>2 DEF Offers, R!Pages
<1>7. click \in [Reviewers -> R!Clicks \cup {Absent}]
  BY DEF CInv, CenterTypeOK, R!TypeOK
<1>8. click' \in [Reviewers -> R!Clicks \cup {Absent}]
  BY <1>1, <1>5, <1>6, <1>7 DEF R!Clicks
<1>9. ASSUME NEW s \in Reviewers, click'[s] # Absent, click'[s].button = "confirm"
      PROVE  click'[s].code \in Codes
  <2>1. CASE s = r
    BY <1>1, <1>5, <1>7, <1>9, <2>1
  <2>2. CASE s # r
    BY <1>1, <1>7, <1>9, <2>2 DEF CInv, ConfirmHasCode
  <2>3. QED BY <2>1, <2>2
<1>10. ConfirmHasCode' /\ UNCHANGED <<table, index, audit>>
  BY <1>9 DEF R!Click, ConfirmHasCode
<1>11. QED BY <1>4, <1>8, <1>10, NoWrite, ReviewTyped DEF CInv, CenterTypeOK, R!TypeOK

\* A handler that ends clears its click, with or without a new page or record.
LEMMA EndKeeps ==
  ASSUME CInv, UNCHANGED pipeline, NEW r \in Reviewers,
         R!Refuse(r) \/ R!Crash(r) \/ R!EmitAudit(r)
  PROVE  CInv'
<1>1. /\ UNCHANGED <<table, index>>
      /\ click' = [click EXCEPT ![r] = Absent]
  BY DEF R!Refuse, R!Crash, R!EmitAudit, R!EndOfRun
<1>2. PagesOffer'
  <2>1. CASE UNCHANGED page
    BY <2>1 DEF CInv, PagesOffer
  <2>2. ASSUME NEW new \in R!Rerun(page[r]), page' = [page EXCEPT ![r] = new]
        PROVE  PagesOffer'
    <3>1. page[r] \in Offers \cup {Absent}
      BY DEF CInv, PagesOffer
    <3>2. new \in Offers \cup {Absent}
      BY <3>1, RerunOffers
    <3>3. QED BY <2>2, <3>2 DEF CInv, PagesOffer
  <2>3. QED BY <2>1, <2>2 DEF R!Refuse, R!Crash, R!EmitAudit, R!EndOfRun
<1>3. click \in [Reviewers -> R!Clicks \cup {Absent}]
  BY DEF CInv, CenterTypeOK, R!TypeOK
<1>4. click' \in [Reviewers -> R!Clicks \cup {Absent}] /\ ConfirmHasCode'
  BY <1>1, <1>3 DEF CInv, ConfirmHasCode
<1>5. audit' \subseteq R!Records
  <2>1. audit \subseteq R!Records
    BY DEF CInv, CenterTypeOK, R!TypeOK
  <2>2. ASSUME R!EmitAudit(r) PROVE R!Decision(r) \in R!Records
    <3>1. click[r] \in R!Clicks
      BY <1>3, <2>2 DEF R!EmitAudit
    <3>2. QED BY <3>1 DEF R!Decision, R!Records, R!Clicks, R!ReviewerStatus
  <2>3. QED BY <2>1, <2>2 DEF R!Refuse, R!Crash, R!EmitAudit
<1>6. QED BY <1>1, <1>2, <1>4, <1>5, NoWrite, ReviewTyped DEF CInv, CenterTypeOK

LEMMA EnvironmentKeeps ==
  ASSUME CInv, UNCHANGED pipeline,
         R!TaskRestart \/ \E c \in Calls : R!IndexCatchesUp(c)
  PROVE  CInv'
<1>1. UNCHANGED <<table, audit>>
  BY DEF R!TaskRestart, R!IndexCatchesUp
<1>2. /\ table \in [Calls -> Or(Row \cup ReviewedRow)]
      /\ index \in [Calls -> Or(Row \cup ReviewedRow)]
      /\ click \in [Reviewers -> R!Clicks \cup {Absent}]
      /\ audit \subseteq R!Records
  BY DEF CInv, CenterTypeOK, R!TypeOK
<1>3. CASE R!TaskRestart
  <2>1. \A r \in Reviewers : click'[r] = Absent
    BY <1>3 DEF R!TaskRestart
  <2>2. ConfirmHasCode' /\ PagesOffer' /\ UNCHANGED index
    BY <1>3, <2>1 DEF R!TaskRestart, ConfirmHasCode, PagesOffer
  <2>3. click' \in [Reviewers -> R!Clicks \cup {Absent}]
    BY <1>3 DEF R!TaskRestart
  <2>4. QED BY <1>1, <1>2, <2>2, <2>3, NoWrite, ReviewTyped
<1>4. ASSUME NEW c \in Calls, R!IndexCatchesUp(c) PROVE CInv'
  <2>1. UNCHANGED <<page, click>>
    BY <1>4 DEF R!IndexCatchesUp
  <2>2. ConfirmHasCode' /\ PagesOffer'
    BY <2>1 DEF CInv, ConfirmHasCode, PagesOffer
  <2>3. index' \in [Calls -> Or(Row \cup ReviewedRow)]
    BY <1>2, <1>4 DEF R!IndexCatchesUp
  <2>4. QED BY <1>1, <1>2, <2>1, <2>2, <2>3, NoWrite, ReviewTyped
<1>5. QED BY <1>3, <1>4

LEMMA ReviewStep ==
  ASSUME CInv, R!Next, UNCHANGED pipeline
  PROVE  CInv'
<1>1. ASSUME NEW r \in Reviewers, R!Open(r) \/ \E c \in Calls : R!Select(r, c)
      PROVE  CInv'
  BY <1>1, PageKeeps
<1>2. ASSUME NEW r \in Reviewers, NEW button \in R!Buttons, R!Click(r, button)
      PROVE  CInv'
  BY <1>2, ClickKeeps
<1>3. ASSUME NEW r \in Reviewers, R!Handle(r)
      PROVE  CInv'
  BY <1>3, UpdateKeeps, EndKeeps DEF R!Handle
<1>4. QED BY <1>1, <1>2, <1>3, EnvironmentKeeps DEF R!Next

-----------------------------------------------------------------------------
(* The ledger.                                                             *)

\* An accepted decision is the only step of the reviewers on the table.
LEMMA OnlyUpdate ==
  ASSUME R!Next
  PROVE  UNCHANGED table \/ \E r \in Reviewers : R!Update(r)
  BY DEF R!Next, R!Open, R!Select, R!Click, R!Handle, R!Refuse, R!Crash, R!EmitAudit,
         R!IndexCatchesUp, R!TaskRestart

LEMMA CenterStatus == CInv => StatusOK
<1>1. R!ReviewerStatus = Ledger!ReviewerStatus
  BY DEF R!ReviewerStatus, Ledger!ReviewerStatus
<1>2. QED BY <1>1 DEF CInv, CenterTypeOK, Or, Row, ReviewedRow, StatusOK, Ledger!ModelStatus

\* The decision of a reviewer is one of the ledger: its call waits, and keeps
\* its prompt version.
LEMMA DecideIsLedgerStep ==
  ASSUME CInv, NEW r \in Reviewers, R!Update(r)
  PROVE  Ledger!Next
<1> DEFINE ledger == [d \in Calls |-> Entry(table[d])]
<1>1. PICK c : c = click[r].call
  OBVIOUS
<1>2. PICK row : row = R!Decided(r, table[c])
  OBVIOUS
<1>3. /\ c \in Calls
      /\ R!MayDecide(c)
      /\ table' = [table EXCEPT ![c] = row]
      /\ row \in ReviewedRow
      /\ row.promptVersion = table[c].promptVersion
  BY <1>1, <1>2, DecidedRow
<1>4. table[c] # Absent /\ table[c].status = "hitl-pending"
  BY <1>3, WaitingRow
<1>5. row # Absent /\ row.status \in Ledger!ReviewerStatus
  BY <1>3, AnyRowNotAbsent DEF ReviewedRow, R!ReviewerStatus, Ledger!ReviewerStatus
<1>6. EInv /\ StatusOK
  BY CenterStatus DEF CInv
<1>7. /\ ledger[c] = Entry(table[c])
      /\ ledger[c] # Absent
      /\ ledger[c].status = "hitl-pending"
  <2>1. ledger[c] = Entry(table[c])
    BY <1>3
  <2> HIDE DEF ledger
  <2>2. Entry(table[c]) # Absent /\ Entry(table[c]).status = table[c].status
    <3>1. c \in Calls /\ table[c] # Absent
      BY <1>3, <1>4
    <3>2. /\ Entry(table[c]) # Absent
          /\ Entry(table[c]) = [promptVersion |-> table[c].promptVersion,
                               status |-> table[c].status]
      BY <1>6, <3>1, EntryKnown
    <3>3. QED BY <3>2
  <2>3. QED BY <1>4, <2>1, <2>2
<1>8. ledger' = [ledger EXCEPT ![c].status = row.status]
  <2>1. ledger' = [ledger EXCEPT ![c] = Entry(row)]
    BY <1>3, <1>6 DEF Entry, EInv, RowsOwned
  <2>2. Entry(row) = [Entry(table[c]) EXCEPT !.status = row.status]
    BY <1>3, <1>4, <1>5, <1>6, EntryReplaced
  <2> HIDE DEF ledger
  <2>3. QED BY <1>7, <2>1, <2>2
<1>9. Ledger!Decide(c)
  BY <1>5, <1>7, <1>8 DEF Ledger!Decide
<1>10. QED BY <1>3, <1>9 DEF Ledger!Next

-----------------------------------------------------------------------------
(* The theorems.                                                           *)

LEMMA CenterStep == CInv /\ [CenterNext]_centerVars => CInv'
<1> SUFFICES ASSUME CInv, [CenterNext]_centerVars PROVE CInv'
  OBVIOUS
<1>1. CASE Next /\ UNCHANGED review
  BY <1>1, PipelineStep
<1>2. CASE R!Next /\ UNCHANGED pipeline
  BY <1>2, ReviewStep
<1>3. CASE UNCHANGED centerVars
  <2>1. UNCHANGED vars /\ UNCHANGED review
    BY <1>3 DEF centerVars, vars, pipeline, flow, dlqs
  <2>2. QED BY <2>1, PipelineStep
<1>4. QED BY <1>1, <1>2, <1>3 DEF CenterNext

\* However executions, late Lambdas, reviewers, stale pages and restarts of
\* the page server interleave, executions and rows keep fitting together.
THEOREM CenterInvariance == CenterSpec => []CInv
<1>1. QED BY CenterInitInv, CenterStep, PTL DEF CenterSpec

\* Table, index, pages, clicks and records keep their types together.
THEOREM CenterTypeCorrect == CenterSpec => []CenterTypeOK
<1>1. CInv => CenterTypeOK
  BY DEF CInv
<1>2. QED BY <1>1, CenterInvariance, PTL

\* Every row is the item of the execution that put it last, or that item under
\* the decision of one reviewer: the whole-item put of persist and the
\* conditional update of the page never leave a mix of two executions, of two
\* decisions, or of a new verdict and an old decision.
THEOREM LineageHolds == CenterSpec => []RowLineage
<1>1. CInv => RowLineage
  BY DEF CInv
<1>2. QED BY <1>1, CenterInvariance, PTL

\* Pipeline and reviewers together implement the ledger: a call is recorded
\* once, under one prompt version for good; executions reclassify it, and a
\* reviewer decides it only while it waits.
THEOREM CenterIsLedger == CenterSpec => ImplementsLedger
<1> DEFINE ledger == [c \in Calls |-> Entry(table[c])]
<1>1. CenterInit => Ledger!Init
  BY DEF CenterInit, Init, Ledger!Init, Entry
<1>2. CInv /\ [CenterNext]_centerVars => [Ledger!Next]_ledger
  <2> SUFFICES ASSUME CInv, [CenterNext]_centerVars PROVE UNCHANGED table \/ Ledger!Next
    OBVIOUS
  <2>1. CASE Next
    BY <2>1, CenterStatus, LedgerStep DEF CInv
  <2>2. CASE R!Next
    BY <2>2, OnlyUpdate, DecideIsLedgerStep
  <2>3. CASE UNCHANGED centerVars
    BY <2>3 DEF centerVars
  <2>4. QED BY <2>1, <2>2, <2>3 DEF CenterNext
<1>3. QED BY <1>1, <1>2, CenterInvariance, PTL DEF CenterSpec, ImplementsLedger, Ledger!Spec

===============================================================================
