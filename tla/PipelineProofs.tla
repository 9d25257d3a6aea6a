--------------------------- MODULE PipelineProofs ---------------------------
(***************************************************************************)
(* Theorems about Pipeline, for any number of processes, bookmarks and     *)
(* labels, any answers of the LLM and any mixture of failures.             *)
(***************************************************************************)
EXTENDS Pipeline, TLAPS

USE DEF Rest, Working, Stages
USE DEF Gone, IsProcessed, UpsertProcessed, DeleteProcessed, UpsertLabel

(* Whatever the LLM proposes, Apply pushes normalised labels only. *)
LEMMA KeptAreLabels ==
    ASSUME NEW proposed \in SUBSET Spellings
    PROVE  Kept(proposed) \in SUBSET Labels
BY SeedAssumption DEF Kept

(* The count of a label stays below its bound. *)
LEMMA BumpedInRange ==
    ASSUME NEW n \in 0 .. MaxUse
    PROVE  Bumped(n) \in 0 .. MaxUse
BY MaxUseAssumption DEF Bumped

-----------------------------------------------------------------------------
(* Type correctness, with what a call in progress always has: a bookmark.   *)
OpenCallsHaveJobs == \A w \in Workers : pc[w] \in Working => job[w] \in Bookmarks

Typed == TypeOK /\ OpenCallsHaveJobs

LEMMA InitTyped == Init => Typed
BY MaxUseAssumption DEF Init, Typed, TypeOK, OpenCallsHaveJobs

LEMMA CommandTyped ==
    ASSUME Typed, NEW w \in Workers, Command(w)
    PROVE  Typed'
<1> USE DEF Typed, TypeOK, OpenCallsHaveJobs, readeckVars, storeVars, workerVars
<1>1. ASSUME NEW b \in Bookmarks, Begin(w, b)
      PROVE  Typed'
  BY <1>1 DEF Begin
<1>2. ASSUME NEW b \in Bookmarks, ClassifyCommand(w, b)
      PROVE  Typed'
  BY <1>2 DEF ClassifyCommand
<1>3. CASE WipeProcessed(w)
  BY <1>3 DEF WipeProcessed
<1> QED
  BY <1>1, <1>2, <1>3 DEF Command

LEMMA CallStepTyped ==
    ASSUME Typed, NEW w \in Workers, CallStep(w)
    PROVE  Typed'
<1> USE DEF Typed, TypeOK, OpenCallsHaveJobs, readeckVars, storeVars, Goto, Return, Hold
<1>1. CASE CheckProcessed(w)
  BY <1>1 DEF CheckProcessed
<1>2. CASE GetBookmark(w)
  BY <1>2 DEF GetBookmark
<1>3. CASE GetArticleMarkdown(w)
  BY <1>3 DEF GetArticleMarkdown
<1>4. CASE Inventory(w)
  BY <1>4 DEF Inventory
<1>5. CASE Chat(w)
  <2>1. \A answer \in Answers : Kept(answer.labels) \in SUBSET Labels
    BY KeptAreLabels, AnswersAssumption
  <2> QED
    BY <1>5, <2>1 DEF Chat
<1>6. CASE MarkLowConfidence(w)
  BY <1>6 DEF MarkLowConfidence
<1>7. CASE UpdateBookmarkLabels(w)
  BY <1>7 DEF UpdateBookmarkLabels, AddTags
<1>8. CASE MarkProcessed(w)
  BY <1>8 DEF MarkProcessed
<1>9. CASE RecordLabel(w)
  BY <1>9, BumpedInRange DEF RecordLabel
<1> QED
  BY <1>1, <1>2, <1>3, <1>4, <1>5, <1>6, <1>7, <1>8, <1>9 DEF CallStep

LEMMA OutsideStepTyped ==
    ASSUME Typed, ReadeckStep \/ \E w \in Workers : Process(w)
    PROVE  Typed'
<1> USE DEF Typed, TypeOK, OpenCallsHaveJobs, readeckVars, storeVars, workerVars
<1>1. ASSUME NEW w \in Workers, Process(w)
      PROVE  Typed'
  <2>1. CASE Cancel(w)
    BY <2>1 DEF Cancel
  <2>2. CASE Crash(w)
    BY <2>2 DEF Crash, FreshProcess
  <2>3. CASE Restart(w)
    BY <2>3 DEF Restart, FreshProcess
  <2> QED
    BY <1>1, <2>1, <2>2, <2>3 DEF Process
<1>2. ASSUME NEW b \in Bookmarks, Extract(b) \/ UserDeletes(b)
      PROVE  Typed'
  BY <1>2 DEF Extract, UserDeletes
<1>3. ASSUME NEW b \in Bookmarks, NEW l \in Labels, UserTags(b, l) \/ UserUntags(b, l)
      PROVE  Typed'
  BY <1>3 DEF UserTags, UserUntags, AddTags
<1> QED
  BY <1>1, <1>2, <1>3 DEF ReadeckStep

LEMMA StepTyped == Typed /\ [Next]_vars => Typed'
<1> SUFFICES ASSUME Typed, [Next]_vars PROVE Typed'
  OBVIOUS
<1>1. CASE Next
  BY <1>1, CommandTyped, CallStepTyped, OutsideStepTyped DEF Next
<1>2. CASE UNCHANGED vars
  BY <1>2 DEF vars, Typed, TypeOK, OpenCallsHaveJobs
<1> QED
  BY <1>1, <1>2

(* The two stores and the processes keep their types, and a call in progress *)
(* always has its bookmark.                                                  *)
THEOREM TypeCorrect == Spec => []TypeOK
<1>1. Typed => TypeOK
  BY DEF Typed
<1> QED
  BY <1>1, InitTyped, StepTyped, PTL DEF Spec
-----------------------------------------------------------------------------
(* Rows are backed.  RowsBacked is not inductive: MarkProcessed writes what  *)
(* the worker holds, so what it holds must already be backed when it is      *)
(* about to write, through every step of the other workers and of the user.  *)
HeldIsBacked ==
    \A w \in Workers :
        pc[w] = "mark" => todo[w] \subseteq tags[job[w]] \cup untagged[job[w]]

BackedInv == Typed /\ RowsBacked /\ HeldIsBacked

(* A label that has reached Readeck is on the bookmark or was taken off.     *)
LEMMA NothingForgotten ==
    ASSUME Typed, [Next]_vars, NEW b \in Bookmarks
    PROVE  tags[b] \cup untagged[b] \subseteq tags'[b] \cup untagged'[b]
<1> USE DEF Typed, TypeOK, OpenCallsHaveJobs, AddTags, readeckVars, storeVars, workerVars
<1>1. ASSUME NEW w \in Workers, Command(w)
      PROVE  UNCHANGED <<tags, untagged>>
  BY <1>1 DEF Command, Begin, ClassifyCommand, WipeProcessed
<1>2. ASSUME NEW w \in Workers, Process(w)
      PROVE  UNCHANGED <<tags, untagged>>
  BY <1>2 DEF Process, Cancel, Crash, Restart
<1>3. ASSUME NEW w \in Workers, CallStep(w), ~UpdateBookmarkLabels(w)
      PROVE  UNCHANGED <<tags, untagged>>
  BY <1>3 DEF CallStep, CheckProcessed, GetBookmark, GetArticleMarkdown, Inventory, Chat,
              MarkLowConfidence, MarkProcessed, RecordLabel
<1>4. ASSUME NEW w \in Workers, UpdateBookmarkLabels(w)
      PROVE  tags[b] \cup untagged[b] \subseteq tags'[b] \cup untagged'[b]
  BY <1>4 DEF UpdateBookmarkLabels
<1>5. ASSUME ReadeckStep
      PROVE  tags[b] \cup untagged[b] \subseteq tags'[b] \cup untagged'[b]
  BY <1>5 DEF ReadeckStep, Extract, UserDeletes, UserTags, UserUntags
<1>6. CASE UNCHANGED vars
  BY <1>6 DEF vars
<1> QED
  BY <1>1, <1>2, <1>3, <1>4, <1>5, <1>6 DEF Next

(* What a step may do to a row: drop it, empty it, or write what is backed.  *)
LEMMA RowsStayBacked ==
    ASSUME BackedInv, [Next]_vars
    PROVE  RowsBacked'
<1> USE DEF BackedInv, Typed, TypeOK, OpenCallsHaveJobs, readeckVars, storeVars, workerVars
<1> SUFFICES ASSUME NEW b \in Bookmarks, rows'[b] # NoRow
             PROVE  rows'[b] \subseteq tags'[b] \cup untagged'[b]
  BY DEF RowsBacked
<1>1. rows'[b] = rows[b] \/ rows'[b] \subseteq tags[b] \cup untagged[b]
  <2>1. ASSUME NEW w \in Workers, Command(w)
        PROVE  rows'[b] = rows[b]
    BY <2>1 DEF Command, Begin, ClassifyCommand, WipeProcessed
  <2>2. ASSUME NEW w \in Workers, Process(w)
        PROVE  rows' = rows
    BY <2>2 DEF Process, Cancel, Crash, Restart
  <2>3. ASSUME NEW w \in Workers, MarkProcessed(w)
        PROVE  rows'[b] = rows[b] \/ rows'[b] \subseteq tags[b] \cup untagged[b]
    BY <2>3 DEF MarkProcessed, HeldIsBacked
  <2>4. ASSUME NEW w \in Workers, MarkLowConfidence(w)
        PROVE  rows'[b] = rows[b] \/ rows'[b] = {}
    BY <2>4 DEF MarkLowConfidence
  <2>5. ASSUME NEW w \in Workers, CallStep(w), ~MarkProcessed(w), ~MarkLowConfidence(w)
        PROVE  rows' = rows
    BY <2>5 DEF CallStep, CheckProcessed, GetBookmark, GetArticleMarkdown, Inventory, Chat,
                UpdateBookmarkLabels, RecordLabel
  <2>6. ASSUME ReadeckStep
        PROVE  rows' = rows
    BY <2>6 DEF ReadeckStep, Extract, UserDeletes, UserTags, UserUntags
  <2>7. CASE UNCHANGED vars
    BY <2>7 DEF vars
  <2> QED
    BY <2>1, <2>2, <2>3, <2>4, <2>5, <2>6, <2>7 DEF Next
<1>2. rows'[b] \subseteq tags[b] \cup untagged[b]
  BY <1>1 DEF RowsBacked
<1> QED
  BY <1>2, NothingForgotten

(* Only a PATCH that was answered, and an answer without labels, lead to     *)
(* MarkProcessed.                                                            *)
LEMMA HeldStaysBacked ==
    ASSUME BackedInv, [Next]_vars
    PROVE  HeldIsBacked'
<1> USE DEF BackedInv, Typed, TypeOK, OpenCallsHaveJobs, readeckVars, storeVars, workerVars
<1> SUFFICES ASSUME NEW v \in Workers, pc'[v] = "mark"
             PROVE  todo'[v] \subseteq tags'[job'[v]] \cup untagged'[job'[v]]
  BY DEF HeldIsBacked
<1>1. ASSUME pc[v] = "mark", todo'[v] = todo[v], job'[v] = job[v]
      PROVE  todo'[v] \subseteq tags'[job'[v]] \cup untagged'[job'[v]]
  <2>1. job[v] \in Bookmarks
    BY <1>1
  <2> QED
    BY <1>1, <2>1, NothingForgotten DEF HeldIsBacked
<1>2. ASSUME NEW w \in Workers, Command(w)
      PROVE  pc[v] = "mark" /\ todo'[v] = todo[v] /\ job'[v] = job[v]
  BY <1>2 DEF Command, Begin, ClassifyCommand, WipeProcessed
<1>3. ASSUME NEW w \in Workers, Process(w)
      PROVE  pc[v] = "mark" /\ todo'[v] = todo[v] /\ job'[v] = job[v]
  BY <1>3 DEF Process, Cancel, Crash, Restart, FreshProcess
<1>4. ASSUME NEW w \in Workers, w # v, CallStep(w)
      PROVE  pc[v] = "mark" /\ todo'[v] = todo[v] /\ job'[v] = job[v]
  BY <1>4 DEF CallStep, CheckProcessed, GetBookmark, GetArticleMarkdown, Inventory, Chat,
              MarkLowConfidence, UpdateBookmarkLabels, MarkProcessed, RecordLabel,
              Goto, Return, Hold
<1>5. CASE Chat(v)
  BY <1>5 DEF Chat, Goto, Return, Hold
<1>6. CASE UpdateBookmarkLabels(v)
  BY <1>6 DEF UpdateBookmarkLabels, AddTags, Goto, Return
<1>7. ASSUME CallStep(v), ~Chat(v), ~UpdateBookmarkLabels(v)
      PROVE  FALSE
  BY <1>7 DEF CallStep, CheckProcessed, GetBookmark, GetArticleMarkdown, Inventory,
              MarkLowConfidence, MarkProcessed, RecordLabel, Goto, Return, Hold
<1>8. ASSUME ReadeckStep
      PROVE  pc[v] = "mark" /\ todo'[v] = todo[v] /\ job'[v] = job[v]
  BY <1>8 DEF ReadeckStep, Extract, UserDeletes, UserTags, UserUntags
<1>9. CASE UNCHANGED vars
  BY <1>1, <1>9 DEF vars
<1> QED
  BY <1>1, <1>2, <1>3, <1>4, <1>5, <1>6, <1>7, <1>8, <1>9 DEF Next

LEMMA InitBacked == Init => BackedInv
<1> SUFFICES ASSUME Init PROVE BackedInv
  OBVIOUS
<1>1. RowsBacked /\ HeldIsBacked
  BY DEF Init, RowsBacked, HeldIsBacked
<1> QED
  BY <1>1, InitTyped DEF BackedInv

LEMMA StepBacked == BackedInv /\ [Next]_vars => BackedInv'
BY StepTyped, RowsStayBacked, HeldStaysBacked DEF BackedInv

(* No row claims a label that did not reach Readeck, however many processes  *)
(* run, whatever fails and whenever they die.                                *)
THEOREM RowsAreBacked == Spec => []RowsBacked
<1>1. BackedInv => RowsBacked
  BY DEF BackedInv
<1> QED
  BY <1>1, InitBacked, StepBacked, PTL DEF Spec
-----------------------------------------------------------------------------
(* Every process changes its own place in the code only.                     *)
LEMMA MovesByItself ==
    ASSUME Typed, [Next]_vars, NEW w \in Workers, Moves(w)
    PROVE  Command(w) \/ CallStep(w) \/ Process(w)
<1> USE DEF Typed, TypeOK, Moves, readeckVars, storeVars, workerVars
<1>1. ASSUME NEW v \in Workers, v # w, Command(v)
      PROVE  FALSE
  BY <1>1 DEF Command, Begin, ClassifyCommand, WipeProcessed
<1>2. ASSUME NEW v \in Workers, v # w, CallStep(v)
      PROVE  FALSE
  BY <1>2 DEF CallStep, CheckProcessed, GetBookmark, GetArticleMarkdown, Inventory, Chat,
              MarkLowConfidence, UpdateBookmarkLabels, MarkProcessed, RecordLabel,
              Goto, Return, Hold
<1>3. ASSUME NEW v \in Workers, v # w, Process(v)
      PROVE  FALSE
  BY <1>3 DEF Process, Cancel, Crash, Restart, FreshProcess
<1>4. ASSUME ReadeckStep
      PROVE  FALSE
  BY <1>4 DEF ReadeckStep, Extract, UserDeletes, UserTags, UserUntags
<1>5. CASE UNCHANGED vars
  BY <1>5 DEF vars
<1> QED
  BY <1>1, <1>2, <1>3, <1>4, <1>5 DEF Next

(* Of a worker's own steps only the PATCH changes labels on Readeck.         *)
LEMMA TagsByPatchOnly ==
    ASSUME NEW w \in Workers, Command(w) \/ CallStep(w) \/ Process(w)
    PROVE  UNCHANGED tags \/ UpdateBookmarkLabels(w)
<1> USE DEF readeckVars, storeVars, workerVars
<1>1. CASE Command(w)
  BY <1>1 DEF Command, Begin, ClassifyCommand, WipeProcessed
<1>2. CASE Process(w)
  BY <1>2 DEF Process, Cancel, Crash, Restart
<1>3. ASSUME CallStep(w), ~UpdateBookmarkLabels(w)
      PROVE  UNCHANGED tags
  BY <1>3 DEF CallStep, CheckProcessed, GetBookmark, GetArticleMarkdown, Inventory, Chat,
              MarkLowConfidence, MarkProcessed, RecordLabel
<1> QED
  BY <1>1, <1>2, <1>3

(* The program never takes a label off a bookmark.                           *)
THEOREM Additive == Spec => NeverUntags
<1>1. ASSUME Typed, [Next]_vars, WorkerMoves, NEW b \in Bookmarks
      PROVE  tags[b] \subseteq tags'[b]
  <2>1. PICK w \in Workers : Moves(w)
    BY <1>1 DEF WorkerMoves
  <2>2. UNCHANGED tags \/ UpdateBookmarkLabels(w)
    BY <1>1, <2>1, MovesByItself, TagsByPatchOnly
  <2> QED
    BY <1>1, <2>2 DEF Typed, TypeOK, OpenCallsHaveJobs, UpdateBookmarkLabels, AddTags
<1>2. Typed /\ [Next]_vars =>
        [WorkerMoves => \A b \in Bookmarks : tags[b] \subseteq tags'[b]]_vars
  BY <1>1
<1> QED
  BY <1>2, InitTyped, StepTyped, PTL DEF Spec, NeverUntags

-----------------------------------------------------------------------------
(* A dry run never comes to the writing half of Apply.                       *)
DryRunStaysOut ==
    \A w \in Workers : DryRun[w] => pc[w] \notin {"patch", "mark", "record"}

DryInv == Typed /\ DryRunStaysOut

LEMMA StepDry == DryInv /\ [Next]_vars => DryInv'
<1> SUFFICES ASSUME DryInv, [Next]_vars PROVE DryInv'
  OBVIOUS
<1> USE DEF DryInv
<1>1. Typed'
  BY StepTyped
<1>2. ASSUME NEW w \in Workers, DryRun[w]
      PROVE  pc'[w] \notin {"patch", "mark", "record"}
  <2> USE <1>2 DEF Typed, TypeOK, DryRunStaysOut
  <2>1. CASE Command(w)
    BY <2>1 DEF Command, Begin, ClassifyCommand, WipeProcessed, workerVars
  <2>2. CASE CallStep(w)
    BY <2>2 DEF CallStep, CheckProcessed, GetBookmark, GetArticleMarkdown, Inventory, Chat,
                MarkLowConfidence, UpdateBookmarkLabels, MarkProcessed, RecordLabel,
                Goto, Return, Hold
  <2>3. CASE Process(w)
    BY <2>3 DEF Process, Cancel, Crash, Restart, FreshProcess
  <2>4. CASE ~Moves(w)
    BY <2>4 DEF Moves
  <2> QED
    BY <2>1, <2>2, <2>3, <2>4, MovesByItself
<1> QED
  BY <1>1, <1>2 DEF DryRunStaysOut

(* A dry run neither labels a bookmark nor counts a label, next to any       *)
(* processes that do.                                                        *)
THEOREM DryRunIsSafe == Spec => DryRunSparesReadeck
<1>1. Init => DryInv
  BY InitTyped DEF Init, DryInv, DryRunStaysOut
<1>2. ASSUME DryInv, [Next]_vars, NEW w \in Workers, DryRun[w], Moves(w)
      PROVE  UNCHANGED <<tags, useCount>>
  <2>1. Command(w) \/ CallStep(w) \/ Process(w)
    BY <1>2, MovesByItself DEF DryInv
  <2>2. UNCHANGED tags
    BY <1>2, <2>1, TagsByPatchOnly DEF DryInv, DryRunStaysOut, UpdateBookmarkLabels
  <2>3. UNCHANGED useCount
    BY <1>2, <2>1 DEF DryInv, DryRunStaysOut, Command, Begin, ClassifyCommand, WipeProcessed,
           Process, Cancel, Crash, Restart, CallStep, CheckProcessed, GetBookmark,
           GetArticleMarkdown, Inventory, Chat, MarkLowConfidence, UpdateBookmarkLabels,
           MarkProcessed, RecordLabel, storeVars
  <2> QED
    BY <2>2, <2>3
<1>3. DryInv /\ [Next]_vars =>
        [\A w \in Workers : DryRun[w] /\ Moves(w) => UNCHANGED <<tags, useCount>>]_vars
  BY <1>2
<1> QED
  BY <1>1, <1>3, StepDry, PTL DEF Spec, DryRunSparesReadeck

-----------------------------------------------------------------------------
(* One process at a time.  Between its look at the state DB and the row it   *)
(* writes, nothing else writes a row.                                        *)
NotYetMarked ==
    \A w \in Workers :
        pc[w] \in {"get", "article", "inventory", "chat", "markLow", "patch", "mark"}
            => rows[job[w]] = NoRow

AloneInv == Typed /\ NotYetMarked

LEMMA StepAlone ==
    ASSUME \A v, w \in Workers : v = w
    PROVE  AloneInv /\ [Next]_vars => AloneInv'
<1> SUFFICES ASSUME AloneInv, [Next]_vars PROVE AloneInv'
  OBVIOUS
<1> USE DEF AloneInv, Typed, TypeOK, OpenCallsHaveJobs, NotYetMarked,
            readeckVars, storeVars, workerVars
<1>1. Typed'
  BY StepTyped
<1>2. ASSUME NEW w \in Workers, Command(w)
      PROVE  NotYetMarked'
  BY <1>2 DEF Command, Begin, ClassifyCommand, WipeProcessed
<1>3. ASSUME NEW w \in Workers, Process(w)
      PROVE  NotYetMarked'
  BY <1>3 DEF Process, Cancel, Crash, Restart, FreshProcess
<1>4. ASSUME NEW w \in Workers, MarkProcessed(w) \/ MarkLowConfidence(w)
      PROVE  NotYetMarked'
  BY <1>4 DEF MarkProcessed, MarkLowConfidence, Goto, Return
<1>5. ASSUME NEW w \in Workers, CallStep(w), ~MarkProcessed(w), ~MarkLowConfidence(w)
      PROVE  NotYetMarked'
  BY <1>5 DEF CallStep, CheckProcessed, GetBookmark, GetArticleMarkdown, Inventory, Chat,
              UpdateBookmarkLabels, RecordLabel, Goto, Return, Hold
<1>6. ASSUME ReadeckStep
      PROVE  NotYetMarked'
  BY <1>6 DEF ReadeckStep, Extract, UserDeletes, UserTags, UserUntags
<1>7. CASE UNCHANGED vars
  BY <1>7 DEF vars
<1> QED
  BY <1>1, <1>2, <1>3, <1>4, <1>5, <1>6, <1>7 DEF Next

(* A process that runs alone leaves a recorded bookmark as it is.            *)
THEOREM AloneIsSettled ==
    ASSUME \A v, w \in Workers : v = w
    PROVE  Spec => RecordedIsSettled
<1>1. Init => AloneInv
  BY InitTyped DEF Init, AloneInv, NotYetMarked
<1>2. AloneInv /\ [Next]_vars => AloneInv'
  BY StepAlone
<1>3. ASSUME AloneInv, [Next]_vars, NEW b \in Bookmarks, WorkerMoves, rows[b] # NoRow
      PROVE  tags'[b] = tags[b]
  <2>1. PICK w \in Workers : Moves(w)
    BY <1>3 DEF WorkerMoves
  <2>2. UNCHANGED tags \/ UpdateBookmarkLabels(w)
    BY <1>3, <2>1, MovesByItself, TagsByPatchOnly DEF AloneInv
  <2>3. ASSUME UpdateBookmarkLabels(w)
        PROVE  tags'[b] = tags[b]
    BY <1>3, <2>3 DEF AloneInv, NotYetMarked, Typed, TypeOK, UpdateBookmarkLabels, AddTags
  <2> QED
    BY <2>2, <2>3
<1>4. AloneInv /\ [Next]_vars =>
        [\A b \in Bookmarks : WorkerMoves /\ rows[b] # NoRow => tags'[b] = tags[b]]_vars
  BY <1>3
<1> QED
  BY <1>1, <1>2, <1>4, PTL DEF Spec, RecordedIsSettled
-----------------------------------------------------------------------------
(* Refinement.  Each step on the stores is a step of the ledger: a PATCH     *)
(* adds, a Mark records what has reached Readeck, a command forgets.         *)
LEMMA CallStepIsLedgerStep ==
    ASSUME BackedInv, NEW w \in Workers, CallStep(w)
    PROVE  [Abstract!Next]_<<tags, untagged, rows>>
<1> USE DEF BackedInv, Typed, TypeOK, OpenCallsHaveJobs, readeckVars, storeVars
<1>1. CASE UpdateBookmarkLabels(w)
  <2>1. job[w] \in Bookmarks /\ todo[w] \in SUBSET Labels
    BY <1>1 DEF UpdateBookmarkLabels
  <2>2. Abstract!Add(job[w], todo[w]) \/ UNCHANGED <<tags, untagged, rows>>
    BY <1>1 DEF UpdateBookmarkLabels, AddTags, Abstract!Add
  <2> QED
    BY <2>1, <2>2 DEF Abstract!Next
<1>2. CASE MarkProcessed(w)
  <2>1. job[w] \in Bookmarks /\ todo[w] \in SUBSET Labels
    BY <1>2 DEF MarkProcessed
  <2>2. Abstract!Record(job[w], todo[w]) \/ UNCHANGED <<tags, untagged, rows>>
    BY <1>2 DEF MarkProcessed, HeldIsBacked, Abstract!Record
  <2> QED
    BY <2>1, <2>2 DEF Abstract!Next
<1>3. CASE MarkLowConfidence(w)
  <2>1. job[w] \in Bookmarks /\ {} \in SUBSET Labels
    BY <1>3 DEF MarkLowConfidence
  <2>2. Abstract!Record(job[w], {}) \/ UNCHANGED <<tags, untagged, rows>>
    BY <1>3 DEF MarkLowConfidence, Abstract!Record
  <2> QED
    BY <2>1, <2>2 DEF Abstract!Next
<1>4. ASSUME ~UpdateBookmarkLabels(w), ~MarkProcessed(w), ~MarkLowConfidence(w)
      PROVE  UNCHANGED <<tags, untagged, rows>>
  BY <1>4 DEF CallStep, CheckProcessed, GetBookmark, GetArticleMarkdown, Inventory, Chat,
              RecordLabel
<1> QED
  BY <1>1, <1>2, <1>3, <1>4

LEMMA CommandIsLedgerStep ==
    ASSUME Typed, NEW w \in Workers, Command(w)
    PROVE  [Abstract!Next]_<<tags, untagged, rows>>
<1> USE DEF Typed, TypeOK, readeckVars, storeVars, workerVars
<1>1. ASSUME NEW b \in Bookmarks, Begin(w, b)
      PROVE  UNCHANGED <<tags, untagged, rows>>
  BY <1>1 DEF Begin
<1>2. ASSUME NEW b \in Bookmarks, ClassifyCommand(w, b)
      PROVE  Abstract!Forget({b}) \/ UNCHANGED <<tags, untagged, rows>>
  BY <1>2 DEF ClassifyCommand, Abstract!Forget
<1>3. ASSUME WipeProcessed(w)
      PROVE  Abstract!Forget(Bookmarks)
  BY <1>3 DEF WipeProcessed, Abstract!Forget
<1>4. \A b \in Bookmarks : {b} \in SUBSET Bookmarks
  OBVIOUS
<1>5. Bookmarks \in SUBSET Bookmarks
  OBVIOUS
<1> QED
  BY <1>1, <1>2, <1>3, <1>4, <1>5 DEF Command, Abstract!Next

LEMMA OutsideIsLedgerStep ==
    ASSUME Typed, ReadeckStep \/ \E w \in Workers : Process(w)
    PROVE  [Abstract!Next]_<<tags, untagged, rows>>
<1> USE DEF Typed, TypeOK, readeckVars, storeVars, workerVars
<1>1. ASSUME NEW w \in Workers, Process(w)
      PROVE  UNCHANGED <<tags, untagged, rows>>
  BY <1>1 DEF Process, Cancel, Crash, Restart
<1>2. ASSUME NEW b \in Bookmarks, Extract(b) \/ UserDeletes(b)
      PROVE  UNCHANGED <<tags, untagged, rows>>
  BY <1>2 DEF Extract, UserDeletes
<1>3. ASSUME NEW b \in Bookmarks, NEW l \in Labels, UserTags(b, l)
      PROVE  Abstract!Add(b, {l}) /\ {l} \in SUBSET Labels
  BY <1>3 DEF UserTags, AddTags, Abstract!Add
<1>4. ASSUME NEW b \in Bookmarks, NEW l \in Labels, UserUntags(b, l)
      PROVE  Abstract!UserRemoves(b, l)
  BY <1>4 DEF UserUntags, Abstract!UserRemoves
<1> QED
  BY <1>1, <1>2, <1>3, <1>4 DEF ReadeckStep, Abstract!Next

(* The two stores, written without a transaction by processes that fail and  *)
(* die anywhere, behave as one ledger that is written in one step.           *)
THEOREM PipelineImplementsLedger == Spec => ImplementsLedger
<1>1. Init => Abstract!Init
  BY DEF Init, Abstract!Init
<1>2. BackedInv /\ [Next]_vars => [Abstract!Next]_<<tags, untagged, rows>>
  <2> SUFFICES ASSUME BackedInv, [Next]_vars
               PROVE  [Abstract!Next]_<<tags, untagged, rows>>
    OBVIOUS
  <2>1. CASE Next
    BY <2>1, CallStepIsLedgerStep, CommandIsLedgerStep, OutsideIsLedgerStep
       DEF Next, BackedInv
  <2>2. CASE UNCHANGED vars
    BY <2>2 DEF vars
  <2> QED
    BY <2>1, <2>2
<1> QED
  BY <1>1, <1>2, InitBacked, StepBacked, PTL
     DEF Spec, ImplementsLedger, Abstract!Spec, Abstract!ledgerVars
=============================================================================
