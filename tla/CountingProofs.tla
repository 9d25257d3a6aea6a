--------------------------- MODULE CountingProofs ---------------------------
(***************************************************************************)
(* The label inventory of Pipeline counts at least the rows that carry a   *)
(* label, for any number of processes whose RecordLabel loops interleave,  *)
(* fail and die.  What matters of a step is what it does to one label.     *)
(***************************************************************************)
EXTENDS PipelineProofs, FiniteSetTheorems

USE DEF Rest, Working, Stages
USE DEF Gone, IsProcessed, UpsertProcessed, DeleteProcessed, UpsertLabel

(* No more bookmarks than a count can tell apart.                            *)
Countable ==
    /\ IsFiniteSet(Workers)
    /\ IsFiniteSet(Bookmarks)
    /\ Cardinality(Bookmarks) <= MaxUse

(* A step that takes rows away, or that is about other labels.               *)
Spares(l) ==
    /\ RowsWith(l)' \subseteq RowsWith(l)
    /\ useCount'[l] = useCount[l]
    /\ StillToCount(l) \subseteq StillToCount(l)'

(* MarkProcessed: one more row, and one more process that has to count it.   *)
Marks(l) ==
    \E w \in Workers, b \in Bookmarks :
        /\ RowsWith(l)' \subseteq RowsWith(l) \cup {b}
        /\ useCount'[l] = useCount[l]
        /\ w \notin StillToCount(l)
        /\ StillToCount(l) \cup {w} \subseteq StillToCount(l)'

(* RecordLabel: one count more, and one process less that has to.            *)
Counts(l) ==
    \E w \in Workers :
        /\ RowsWith(l)' \subseteq RowsWith(l)
        /\ useCount'[l] = Bumped(useCount[l])
        /\ StillToCount(l) \ {w} \subseteq StillToCount(l)'

LEMMA CommandSpares ==
    ASSUME Typed, NEW w \in Workers, Command(w), NEW l \in Labels
    PROVE  Spares(l) /\ uncounted' = uncounted
<1> USE DEF Typed, TypeOK, Spares, RowsWith, StillToCount, readeckVars, storeVars, workerVars
<1>1. ASSUME NEW b \in Bookmarks, Begin(w, b)
      PROVE  Spares(l) /\ uncounted' = uncounted
  BY <1>1 DEF Begin
<1>2. ASSUME NEW b \in Bookmarks, ClassifyCommand(w, b)
      PROVE  Spares(l) /\ uncounted' = uncounted
  BY <1>2 DEF ClassifyCommand
<1>3. ASSUME WipeProcessed(w)
      PROVE  Spares(l) /\ uncounted' = uncounted
  BY <1>3 DEF WipeProcessed
<1> QED
  BY <1>1, <1>2, <1>3 DEF Command

LEMMA MarkCounts ==
    ASSUME Typed, NEW w \in Workers, MarkProcessed(w), NEW l \in Labels
    PROVE  (Spares(l) \/ Marks(l)) /\ uncounted' = uncounted
<1> USE DEF Typed, TypeOK, OpenCallsHaveJobs
<1>1. /\ job[w] \in Bookmarks /\ pc[w] = "mark"
      /\ useCount' = useCount /\ uncounted' = uncounted
  BY DEF MarkProcessed
<1>2. CASE rows' = rows
  BY <1>1, <1>2 DEF MarkProcessed, Goto, Return, Spares, RowsWith, StillToCount
<1>3. CASE rows' = [rows EXCEPT ![job[w]] = todo[w]] /\ l \notin todo[w]
  BY <1>1, <1>3 DEF MarkProcessed, Goto, Return, Spares, RowsWith, StillToCount
<1>4. CASE rows' = [rows EXCEPT ![job[w]] = todo[w]] /\ l \in todo[w] /\ Goto(w, "record")
  <2>1. RowsWith(l)' \subseteq RowsWith(l) \cup {job[w]}
    BY <1>1, <1>4 DEF RowsWith
  <2>2. w \notin StillToCount(l) /\ StillToCount(l) \cup {w} \subseteq StillToCount(l)'
    BY <1>1, <1>4 DEF StillToCount, Goto
  <2> QED
    BY <1>1, <2>1, <2>2 DEF Marks
<1> QED
  BY <1>2, <1>3, <1>4 DEF MarkProcessed

LEMMA RecordCounts ==
    ASSUME Typed, NEW w \in Workers, RecordLabel(w), NEW l \in Labels, l \notin uncounted'
    PROVE  (Spares(l) \/ Counts(l)) /\ l \notin uncounted
<1> USE DEF Typed, TypeOK
<1>1. rows' = rows /\ pc[w] = "record" /\ RowsWith(l)' = RowsWith(l)
  BY DEF RecordLabel, RowsWith
<1>2. ASSUME NEW k \in todo[w], UpsertLabel(k),
             IF todo[w] = {k} THEN Return(w, "applied") ELSE Hold(w, "record", todo[w] \ {k}),
             uncounted' = uncounted
      PROVE  (Spares(l) \/ Counts(l)) /\ l \notin uncounted
  <2>1. StillToCount(l) \ (IF l = k THEN {w} ELSE {}) \subseteq StillToCount(l)'
    BY <1>1, <1>2 DEF StillToCount, Return, Hold
  <2>2. CASE l = k
    BY <1>1, <1>2, <2>1, <2>2 DEF Counts
  <2>3. CASE l # k
    BY <1>1, <1>2, <2>1, <2>3 DEF Spares
  <2> QED
    BY <1>2, <2>2, <2>3
<1>3. ASSUME uncounted' = uncounted \cup todo[w], Return(w, "failed"), UNCHANGED useCount
      PROVE  (Spares(l) \/ Counts(l)) /\ l \notin uncounted
  BY <1>1, <1>3 DEF Spares, StillToCount, Return
<1> QED
  BY <1>2, <1>3 DEF RecordLabel

LEMMA CallStepCounts ==
    ASSUME Typed, NEW w \in Workers, CallStep(w), NEW l \in Labels, l \notin uncounted'
    PROVE  (Spares(l) \/ Marks(l) \/ Counts(l)) /\ l \notin uncounted
<1> USE DEF Typed, TypeOK, OpenCallsHaveJobs, readeckVars, storeVars
<1>1. ASSUME CheckProcessed(w) \/ GetBookmark(w) \/ GetArticleMarkdown(w) \/ Inventory(w)
             \/ Chat(w) \/ UpdateBookmarkLabels(w)
      PROVE  Spares(l) /\ uncounted' = uncounted
  BY <1>1 DEF CheckProcessed, GetBookmark, GetArticleMarkdown, Inventory, Chat,
              UpdateBookmarkLabels, Goto, Return, Hold, Spares, RowsWith, StillToCount
<1>2. ASSUME MarkLowConfidence(w)
      PROVE  Spares(l) /\ uncounted' = uncounted
  BY <1>2 DEF MarkLowConfidence, Return, Spares, RowsWith, StillToCount
<1> QED
  BY <1>1, <1>2, MarkCounts, RecordCounts DEF CallStep

LEMMA OutsideSpares ==
    ASSUME Typed, ReadeckStep \/ (\E w \in Workers : Process(w)) \/ UNCHANGED vars,
           NEW l \in Labels, l \notin uncounted'
    PROVE  Spares(l) /\ l \notin uncounted
<1> USE DEF Typed, TypeOK, Spares, RowsWith, StillToCount, readeckVars, storeVars, workerVars
<1>1. ASSUME ReadeckStep
      PROVE  Spares(l) /\ l \notin uncounted
  BY <1>1 DEF ReadeckStep, Extract, UserDeletes, UserTags, UserUntags
<1>2. ASSUME NEW w \in Workers, Cancel(w) \/ Restart(w)
      PROVE  Spares(l) /\ l \notin uncounted
  BY <1>2 DEF Cancel, Restart, FreshProcess
<1>3. ASSUME NEW w \in Workers, Crash(w)
      PROVE  Spares(l) /\ l \notin uncounted
  BY <1>3 DEF Crash, FreshProcess
<1>4. CASE UNCHANGED vars
  BY <1>4 DEF vars
<1> QED
  BY <1>1, <1>2, <1>3, <1>4 DEF Process

(* The three kinds of step keep the balance of one label.                    *)
LEMMA BalanceKept ==
    ASSUME Countable, Typed, Typed', NEW l \in Labels,
           Cardinality(RowsWith(l)) <= useCount[l] + Cardinality(StillToCount(l)),
           Spares(l) \/ Marks(l) \/ Counts(l)
    PROVE  Cardinality(RowsWith(l)') <= useCount'[l] + Cardinality(StillToCount(l)')
<1> DEFINE R == RowsWith(l)
           S == StillToCount(l)
<1>1. /\ IsFiniteSet(R) /\ IsFiniteSet(R') /\ IsFiniteSet(S) /\ IsFiniteSet(S')
      /\ Cardinality(R') <= Cardinality(Bookmarks)
  BY FS_Subset DEF Countable, RowsWith, StillToCount
<1>2. /\ Cardinality(R) \in Nat /\ Cardinality(R') \in Nat
      /\ Cardinality(S) \in Nat /\ Cardinality(S') \in Nat
      /\ useCount[l] \in Nat /\ useCount[l] <= MaxUse /\ MaxUse \in Nat
      /\ Cardinality(Bookmarks) \in Nat
  BY <1>1, FS_CardinalityType, MaxUseAssumption DEF Typed, TypeOK, Countable
<1>3. CASE Spares(l)
  <2>1. Cardinality(R') <= Cardinality(R) /\ Cardinality(S) <= Cardinality(S')
    BY <1>1, <1>3, FS_Subset DEF Spares
  <2> QED
    BY <1>2, <1>3, <2>1 DEF Spares
<1>4. CASE Marks(l)
  <2> PICK w \in Workers, b \in Bookmarks :
          /\ R' \subseteq R \cup {b}
          /\ useCount'[l] = useCount[l]
          /\ w \notin S
          /\ S \cup {w} \subseteq S'
    BY <1>4 DEF Marks
  <2>1. Cardinality(R') <= Cardinality(R) + 1
    <3>1. /\ IsFiniteSet(R \cup {b})
          /\ Cardinality(R \cup {b}) \in {Cardinality(R), Cardinality(R) + 1}
      BY <1>1, FS_AddElement
    <3>2. Cardinality(R') <= Cardinality(R \cup {b}) /\ Cardinality(R \cup {b}) \in Nat
      BY <3>1, FS_Subset, FS_CardinalityType
    <3> QED
      BY <1>2, <3>1, <3>2
  <2>2. Cardinality(S) + 1 <= Cardinality(S')
    <3>1. IsFiniteSet(S \cup {w}) /\ Cardinality(S \cup {w}) = Cardinality(S) + 1
      BY <1>1, FS_AddElement
    <3> QED
      BY <1>1, <3>1, FS_Subset
  <2> QED
    BY <1>2, <2>1, <2>2
<1>5. CASE Counts(l)
  <2> PICK w \in Workers :
          /\ R' \subseteq R
          /\ useCount'[l] = Bumped(useCount[l])
          /\ S \ {w} \subseteq S'
    BY <1>5 DEF Counts
  <2>1. Cardinality(R') <= Cardinality(R)
    BY <1>1, FS_Subset
  <2>2. Cardinality(S) <= Cardinality(S') + 1
    <3>1. /\ IsFiniteSet(S \ {w})
          /\ Cardinality(S \ {w}) \in {Cardinality(S), Cardinality(S) - 1}
      BY <1>1, FS_RemoveElement
    <3>2. Cardinality(S \ {w}) <= Cardinality(S') /\ Cardinality(S \ {w}) \in Nat
      BY <1>1, <3>1, FS_Subset, FS_CardinalityType
    <3> QED
      BY <1>2, <3>1, <3>2
  <2>3. CASE useCount[l] < MaxUse
    BY <1>2, <2>1, <2>2, <2>3 DEF Bumped
  <2>4. CASE useCount[l] >= MaxUse
    BY <1>1, <1>2, <2>4 DEF Bumped, Countable
  <2> QED
    BY <1>2, <2>3, <2>4
<1> QED
  BY <1>3, <1>4, <1>5

CountInv == Typed /\ CountsCoverRows

LEMMA InitCounts == Init => CountInv
<1> SUFFICES ASSUME Init PROVE CountInv
  OBVIOUS
<1>1. \A l \in Labels : RowsWith(l) = {} /\ StillToCount(l) = {} /\ useCount[l] = 0
  BY DEF Init, RowsWith, StillToCount
<1>2. Cardinality({}) = 0
  BY FS_EmptySet
<1>3. CountsCoverRows
  BY <1>1, <1>2 DEF CountsCoverRows
<1> QED
  BY <1>3, InitTyped DEF CountInv

LEMMA StepCounts ==
    ASSUME Countable, CountInv, [Next]_vars
    PROVE  CountInv'
<1>1. Typed'
  BY StepTyped DEF CountInv
<1>2. ASSUME NEW l \in Labels, l \notin uncounted'
      PROVE  Cardinality(RowsWith(l)') <= useCount'[l] + Cardinality(StillToCount(l)')
  <2>1. (Spares(l) \/ Marks(l) \/ Counts(l)) /\ l \notin uncounted
    <3>1. ASSUME NEW w \in Workers, Command(w)
          PROVE  Spares(l) /\ l \notin uncounted
      BY <1>2, <3>1, CommandSpares DEF CountInv
    <3>2. ASSUME NEW w \in Workers, CallStep(w)
          PROVE  (Spares(l) \/ Marks(l) \/ Counts(l)) /\ l \notin uncounted
      BY <1>2, <3>2, CallStepCounts DEF CountInv
    <3>3. ASSUME ReadeckStep \/ (\E w \in Workers : Process(w)) \/ UNCHANGED vars
          PROVE  Spares(l) /\ l \notin uncounted
      BY <1>2, <3>3, OutsideSpares DEF CountInv
    <3> QED
      BY <3>1, <3>2, <3>3 DEF Next
  <2>2. Cardinality(RowsWith(l)) <= useCount[l] + Cardinality(StillToCount(l))
    BY <2>1 DEF CountInv, CountsCoverRows
  <2> QED
    BY <1>1, <2>1, <2>2, BalanceKept DEF CountInv
<1> QED
  BY <1>1, <1>2 DEF CountInv, CountsCoverRows

(* No label is in more rows than were counted or are still to be counted,    *)
(* except where a failure or a death between MarkProcessed and RecordLabel   *)
(* lost a count (manager.go:141-148).                                        *)
THEOREM CountsCover ==
    ASSUME Countable
    PROVE  Spec => []CountsCoverRows
<1>1. CountInv /\ [Next]_vars => CountInv'
  BY StepCounts
<1>2. CountInv => CountsCoverRows
  BY DEF CountInv
<1> QED
  BY <1>1, <1>2, InitCounts, PTL DEF Spec
=============================================================================
