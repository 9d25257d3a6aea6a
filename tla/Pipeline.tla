------------------------------ MODULE Pipeline ------------------------------
(***************************************************************************)
(* The classification of one bookmark, as every command of readeckorator   *)
(* runs it (internal/classifier/pipeline.go, internal/labels/manager.go),  *)
(* over the two stores it writes: the bookmarks kept by the Readeck server *)
(* and the local SQLite database (internal/state).                         *)
(*                                                                         *)
(* A worker is one process (serve, run, classify or backfill) and is, at   *)
(* any time, inside at most one call of Pipeline.Classify.  Several        *)
(* processes may share the server and the database file.  Each step below  *)
(* is one request to Readeck, one request to the LLM or one SQL statement; *)
(* whatever happens between two of them is local to the process.           *)
(*                                                                         *)
(* "untagged" and "uncounted" are history variables: no step reads them.   *)
(***************************************************************************)
EXTENDS Integers, FiniteSets

CONSTANTS
    Bookmarks,      \* ids of the bookmarks on Readeck
    Extractable,    \* the bookmarks Readeck has an article body for
    Labels,         \* label names, trimmed and lower-cased
    Spellings,      \* label names as the LLM may write them
    Normal,         \* [Spellings -> Labels \cup {NoLabel}]: trimmed, lower-cased
    NoLabel,        \* what a blank spelling normalises to
    Seed,           \* labels.seed of the config, lower-cased
    AllowNewLabels, \* classifier.allow_new_labels
    MinConfidence,  \* classifier.min_confidence, in percent
    Answers,        \* the classifications the LLM may return
    Workers,        \* the processes
    DryRun,         \* [Workers -> BOOLEAN]: the --dry-run flag of each
    Commands,       \* how bookmarks get into the pipeline, of Entries
    Unreliable,     \* what may fail, of Faults
    UserMay,        \* what a user does on Readeck meanwhile, of UserActions
    MaxUse,         \* bound: use counts are not told apart from here on
    NoBookmark, NoRow

Entries == {"pass", "classify", "backfill"}

UserActions == {"tag", "untag", "delete"}

Faults == {"readeck", "llm", "store", "crash", "cancel"}

ASSUME NormalAssumption == Normal \in [Spellings -> Labels \cup {NoLabel}]

ASSUME NoLabelAssumption == NoLabel \notin Labels

ASSUME NoRowAssumption == \A labels \in SUBSET Labels : NoRow # labels

ASSUME NoBookmarkAssumption == NoBookmark \notin Bookmarks

ASSUME SeedAssumption == Seed \subseteq Labels

ASSUME MaxUseAssumption == MaxUse \in Nat \ {0}

ASSUME DryRunAssumption == DryRun \in [Workers -> BOOLEAN]

ASSUME AnswersAssumption ==
    /\ Answers \subseteq [labels : SUBSET Spellings, confidence : Int]
    /\ MinConfidence \in Int

VARIABLES
    stage,      \* Readeck: how far each bookmark is
    tags,       \* Readeck: the labels each bookmark carries
    untagged,   \* history: labels a user took off and nobody put back
    rows,       \* SQLite processed_bookmarks: applied_labels, or NoRow
    useCount,   \* SQLite label_inventory: use_count, 0 when there is no row
    uncounted,  \* history: labels marked as applied whose RecordLabel got lost
    pc,         \* where each worker is in Classify and Apply
    job,        \* the bookmark of the current, or the last, call
    todo,       \* labels to apply, then the labels still to record
    cancelled   \* the worker's context: has SIGINT or SIGTERM arrived?

readeckVars == <<stage, tags, untagged>>
storeVars == <<rows, useCount, uncounted>>
workerVars == <<pc, job, todo, cancelled>>
vars == <<stage, tags, untagged, rows, useCount, uncounted, pc, job, todo, cancelled>>

(* A worker that rests has no call open: the name tells how the last ended. *)
Rest == {"idle", "applied", "skipped", "failed"}

Working == {"check", "get", "article", "inventory", "chat",
            "markLow", "patch", "mark", "record"}

Stages == {"saved", "loaded", "deleted"}

TypeOK ==
    /\ stage \in [Bookmarks -> Stages]
    /\ tags \in [Bookmarks -> SUBSET Labels]
    /\ untagged \in [Bookmarks -> SUBSET Labels]
    /\ rows \in [Bookmarks -> {NoRow} \cup SUBSET Labels]
    /\ useCount \in [Labels -> 0 .. MaxUse]
    /\ uncounted \in SUBSET Labels
    /\ pc \in [Workers -> Rest \cup Working]
    /\ job \in [Workers -> Bookmarks \cup {NoBookmark}]
    /\ todo \in [Workers -> SUBSET Labels]
    /\ cancelled \in [Workers -> BOOLEAN]

Init ==
    /\ stage = [b \in Bookmarks |-> "saved"]
    /\ tags = [b \in Bookmarks |-> {}]
    /\ untagged = [b \in Bookmarks |-> {}]
    /\ rows = [b \in Bookmarks |-> NoRow]
    /\ useCount = [l \in Labels |-> 0]
    /\ uncounted = {}
    /\ pc = [w \in Workers |-> "idle"]
    /\ job = [w \in Workers |-> NoBookmark]
    /\ todo = [w \in Workers |-> {}]
    /\ cancelled = [w \in Workers |-> FALSE]

-----------------------------------------------------------------------------
(* What the steps have in common.                                           *)

(* A request or a statement fails by itself, or because its context is      *)
(* cancelled; a cancelled context lets none succeed.                        *)
MayFail(w, fault) == cancelled[w] \/ fault \in Unreliable

MayWork(w) == ~cancelled[w]

Goto(w, step) ==
    /\ pc' = [pc EXCEPT ![w] = step]
    /\ UNCHANGED <<job, todo, cancelled>>

(* Classify returns, with its result or with an error.                      *)
Return(w, how) ==
    /\ pc' = [pc EXCEPT ![w] = how]
    /\ todo' = [todo EXCEPT ![w] = {}]
    /\ UNCHANGED <<job, cancelled>>

Hold(w, step, labels) ==
    /\ pc' = [pc EXCEPT ![w] = step]
    /\ todo' = [todo EXCEPT ![w] = labels]
    /\ UNCHANGED <<job, cancelled>>

(* Filter, then normaliseForApply: the labels Apply pushes and records.     *)
KeptAsWritten(proposed) == proposed

Normalised(proposed) == {Normal[s] : s \in proposed} \ {NoLabel}

Kept(proposed) ==
    Normalised(proposed) \cap (IF AllowNewLabels THEN Labels ELSE Seed)

TooUncertain(answer) == MinConfidence > 0 /\ answer.confidence < MinConfidence

Gone(b) == stage[b] = "deleted"

(* The statements on the database.                                          *)
IsProcessed(b) == rows[b] # NoRow

UpsertProcessed(b, labels) == rows' = [rows EXCEPT ![b] = labels]

DeleteProcessed(b) == rows' = [rows EXCEPT ![b] = NoRow]

Bumped(n) == IF n < MaxUse THEN n + 1 ELSE n

UpsertLabel(l) == useCount' = [useCount EXCEPT ![l] = Bumped(@)]

-----------------------------------------------------------------------------
(* How a bookmark enters the pipeline.                                      *)

BeginRegardless(w, b) ==
    /\ "pass" \in Commands
    /\ pc[w] \in Rest
    /\ pc' = [pc EXCEPT ![w] = "check"]
    /\ job' = [job EXCEPT ![w] = b]
    /\ UNCHANGED <<todo, cancelled, readeckVars, storeVars>>

(* Once calls Classify for a candidate, which may be any bookmark it listed *)
(* at some earlier time.                                                    *)
Begin(w, b) ==
    /\ "pass" \in Commands
    /\ pc[w] \in Rest /\ MayWork(w)
    /\ pc' = [pc EXCEPT ![w] = "check"]
    /\ job' = [job EXCEPT ![w] = b]
    /\ UNCHANGED <<todo, cancelled, readeckVars, storeVars>>

(* The classify command: clear the row, dry run or not, then Classify.  A   *)
(* failure to clear it is only warned about.                                *)
ClassifyCommand(w, b) ==
    /\ "classify" \in Commands
    /\ pc[w] \in Rest /\ MayWork(w)
    /\ \/ DeleteProcessed(b)
       \/ MayFail(w, "store") /\ UNCHANGED rows
    /\ pc' = [pc EXCEPT ![w] = "check"]
    /\ job' = [job EXCEPT ![w] = b]
    /\ UNCHANGED <<todo, cancelled, readeckVars, useCount, uncounted>>

(* backfill --force: forget every bookmark, dry run or not, before a pass.  *)
WipeProcessed(w) ==
    /\ "backfill" \in Commands
    /\ pc[w] \in Rest /\ MayWork(w)
    /\ rows' = [b \in Bookmarks |-> NoRow]
    /\ UNCHANGED <<useCount, uncounted, readeckVars, workerVars>>

-----------------------------------------------------------------------------
(* The steps of Classify, in the order of the code.                         *)

CheckNothing(w) ==
    /\ pc[w] = "check"
    /\ \/ MayWork(w) /\ Goto(w, "get")
       \/ MayFail(w, "store") /\ Return(w, "failed")
    /\ UNCHANGED <<readeckVars, storeVars>>

CheckProcessed(w) ==
    /\ pc[w] = "check"
    /\ \/ MayWork(w) /\ IsProcessed(job[w]) /\ Return(w, "skipped")
       \/ MayWork(w) /\ ~IsProcessed(job[w]) /\ Goto(w, "get")
       \/ MayFail(w, "store") /\ Return(w, "failed")
    /\ UNCHANGED <<readeckVars, storeVars>>

GetBookmark(w) ==
    /\ pc[w] = "get"
    /\ \/ MayWork(w) /\ stage[job[w]] = "loaded" /\ Goto(w, "article")
       \/ MayWork(w) /\ stage[job[w]] = "saved" /\ Return(w, "skipped")
       \/ Gone(job[w]) /\ Return(w, "failed")
       \/ MayFail(w, "readeck") /\ Return(w, "failed")
    /\ UNCHANGED <<readeckVars, storeVars>>

GetArticleMarkdown(w) ==
    /\ pc[w] = "article"
    /\ \/ /\ MayWork(w)
          /\ stage[job[w]] = "loaded" /\ job[w] \in Extractable
          /\ Goto(w, "inventory")
       \/ Gone(job[w]) /\ Return(w, "failed")
       \/ job[w] \notin Extractable /\ Return(w, "failed")
       \/ MayFail(w, "readeck") /\ Return(w, "failed")
    /\ UNCHANGED <<readeckVars, storeVars>>

(* The prompt's label list.  Only the SQLite half can fail the call: without *)
(* Readeck's half the prompt is shorter, and the LLM answers what it likes.  *)
Inventory(w) ==
    /\ pc[w] = "inventory"
    /\ \/ MayWork(w) /\ Goto(w, "chat")
       \/ MayFail(w, "store") /\ Return(w, "failed")
    /\ UNCHANGED <<readeckVars, storeVars>>

(* Chat, ParseClassification, the threshold, Filter and the head of Apply.   *)
ChatIgnoringDryRun(w) ==
    /\ pc[w] = "chat"
    /\ \/ /\ MayWork(w)
          /\ \E answer \in Answers :
                IF TooUncertain(answer) THEN Goto(w, "markLow")
                ELSE Hold(w, IF Kept(answer.labels) = {} THEN "mark" ELSE "patch",
                          Kept(answer.labels))
       \/ MayFail(w, "llm") /\ Return(w, "failed")
    /\ UNCHANGED <<readeckVars, storeVars>>

ChatThenMark(w) ==
    /\ pc[w] = "chat"
    /\ \/ /\ MayWork(w)
          /\ \E answer \in Answers : Hold(w, "mark", Kept(answer.labels))
       \/ MayFail(w, "llm") /\ Return(w, "failed")
    /\ UNCHANGED <<readeckVars, storeVars>>

Chat(w) ==
    /\ pc[w] = "chat"
    /\ \/ /\ MayWork(w)
          /\ \E answer \in Answers :
                IF TooUncertain(answer) THEN Goto(w, "markLow")
                ELSE IF DryRun[w] THEN Return(w, "applied")
                ELSE Hold(w, IF Kept(answer.labels) = {} THEN "mark" ELSE "patch",
                          Kept(answer.labels))
       \/ MayFail(w, "llm") /\ Return(w, "failed")
    /\ UNCHANGED <<readeckVars, storeVars>>

(* Below the threshold: a row without labels, in a dry run too.              *)
MarkLowConfidence(w) ==
    /\ pc[w] = "markLow"
    /\ \/ /\ MayWork(w)
          /\ UpsertProcessed(job[w], {})
          /\ Return(w, "skipped")
       \/ MayFail(w, "store") /\ Return(w, "failed") /\ UNCHANGED rows
    /\ UNCHANGED <<readeckVars, useCount, uncounted>>

(* PATCH add_labels on the server: what is there stays.                      *)
AddTags(b, labels) ==
    /\ tags' = [tags EXCEPT ![b] = @ \cup labels]
    /\ untagged' = [untagged EXCEPT ![b] = @ \ labels]

PatchAnyway(w) ==
    /\ pc[w] = "patch"
    /\ \/ MayWork(w) /\ AddTags(job[w], todo[w]) /\ Goto(w, "mark")
       \/ MayFail(w, "readeck") /\ Goto(w, "mark") /\ UNCHANGED <<tags, untagged>>
    /\ UNCHANGED <<stage, storeVars>>

PatchReplacing(w) ==
    /\ pc[w] = "patch"
    /\ \/ /\ MayWork(w)
          /\ tags' = [tags EXCEPT ![job[w]] = todo[w]]
          /\ UNCHANGED untagged
          /\ Goto(w, "mark")
       \/ MayFail(w, "readeck") /\ Return(w, "failed") /\ UNCHANGED <<tags, untagged>>
    /\ UNCHANGED <<stage, storeVars>>

(* A PATCH that fails may have reached the server: only its answer is lost.  *)
UpdateBookmarkLabels(w) ==
    /\ pc[w] = "patch"
    /\ \/ /\ MayWork(w) /\ ~Gone(job[w])
          /\ AddTags(job[w], todo[w])
          /\ Goto(w, "mark")
       \/ /\ MayFail(w, "readeck") /\ ~Gone(job[w])
          /\ AddTags(job[w], todo[w])
          /\ Return(w, "failed")
       \/ /\ MayFail(w, "readeck") \/ Gone(job[w])
          /\ Return(w, "failed")
          /\ UNCHANGED <<tags, untagged>>
    /\ UNCHANGED <<stage, storeVars>>

MarkProcessed(w) ==
    /\ pc[w] = "mark"
    /\ \/ /\ MayWork(w)
          /\ UpsertProcessed(job[w], todo[w])
          /\ IF todo[w] = {} THEN Return(w, "applied") ELSE Goto(w, "record")
       \/ MayFail(w, "store") /\ Return(w, "failed") /\ UNCHANGED rows
    /\ UNCHANGED <<readeckVars, useCount, uncounted>>

(* One RecordLabel of the loop; its error ends the call with the row written. *)
RecordNewLabel(w) ==
    /\ pc[w] = "record"
    /\ \/ \E l \in todo[w] :
             /\ MayWork(w)
             /\ useCount' = [useCount EXCEPT ![l] = 1]
             /\ IF todo[w] = {l} THEN Return(w, "applied")
                ELSE Hold(w, "record", todo[w] \ {l})
             /\ UNCHANGED uncounted
       \/ /\ MayFail(w, "store")
          /\ uncounted' = uncounted \cup todo[w]
          /\ Return(w, "failed")
          /\ UNCHANGED useCount
    /\ UNCHANGED <<readeckVars, rows>>

RecordLabel(w) ==
    /\ pc[w] = "record"
    /\ \/ \E l \in todo[w] :
             /\ MayWork(w)
             /\ UpsertLabel(l)
             /\ IF todo[w] = {l} THEN Return(w, "applied")
                ELSE Hold(w, "record", todo[w] \ {l})
             /\ UNCHANGED uncounted
       \/ /\ MayFail(w, "store")
          /\ uncounted' = uncounted \cup todo[w]
          /\ Return(w, "failed")
          /\ UNCHANGED useCount
    /\ UNCHANGED <<readeckVars, rows>>

-----------------------------------------------------------------------------
(* The processes: signals, death at any point, and starting again.           *)

Cancel(w) ==
    /\ "cancel" \in Unreliable
    /\ MayWork(w)
    /\ cancelled' = [cancelled EXCEPT ![w] = TRUE]
    /\ UNCHANGED <<pc, job, todo, readeckVars, storeVars>>

(* What memory held is gone; what the two stores hold is what restart finds. *)
FreshProcess(w) ==
    /\ pc' = [pc EXCEPT ![w] = "idle"]
    /\ job' = [job EXCEPT ![w] = NoBookmark]
    /\ todo' = [todo EXCEPT ![w] = {}]
    /\ cancelled' = [cancelled EXCEPT ![w] = FALSE]

Crash(w) ==
    /\ "crash" \in Unreliable
    /\ uncounted' = IF pc[w] = "record" THEN uncounted \cup todo[w] ELSE uncounted
    /\ FreshProcess(w)
    /\ UNCHANGED <<readeckVars, rows, useCount>>

(* A cancelled process ends when its call has returned, and is run again.    *)
Restart(w) ==
    /\ cancelled[w] /\ pc[w] \in Rest
    /\ FreshProcess(w)
    /\ UNCHANGED <<readeckVars, storeVars>>

-----------------------------------------------------------------------------
(* Readeck's side: extraction finishes, and the user edits what is there.    *)

Extract(b) ==
    /\ stage[b] = "saved"
    /\ stage' = [stage EXCEPT ![b] = "loaded"]
    /\ UNCHANGED <<tags, untagged, storeVars, workerVars>>

UserDeletes(b) ==
    /\ "delete" \in UserMay
    /\ stage[b] # "deleted"
    /\ stage' = [stage EXCEPT ![b] = "deleted"]
    /\ UNCHANGED <<tags, untagged, storeVars, workerVars>>

UserTags(b, l) ==
    /\ "tag" \in UserMay
    /\ stage[b] # "deleted" /\ l \notin tags[b]
    /\ AddTags(b, {l})
    /\ UNCHANGED <<stage, storeVars, workerVars>>

UserUntags(b, l) ==
    /\ "untag" \in UserMay
    /\ stage[b] # "deleted" /\ l \in tags[b]
    /\ tags' = [tags EXCEPT ![b] = @ \ {l}]
    /\ untagged' = [untagged EXCEPT ![b] = @ \cup {l}]
    /\ UNCHANGED <<stage, storeVars, workerVars>>

-----------------------------------------------------------------------------
CallStep(w) ==
    \/ CheckProcessed(w) \/ GetBookmark(w) \/ GetArticleMarkdown(w)
    \/ Inventory(w) \/ Chat(w)
    \/ MarkLowConfidence(w) \/ UpdateBookmarkLabels(w)
    \/ MarkProcessed(w) \/ RecordLabel(w)

Command(w) ==
    \/ \E b \in Bookmarks : Begin(w, b) \/ ClassifyCommand(w, b)
    \/ WipeProcessed(w)

Process(w) == Cancel(w) \/ Crash(w) \/ Restart(w)

ReadeckStep ==
    \E b \in Bookmarks :
        \/ Extract(b) \/ UserDeletes(b)
        \/ \E l \in Labels : UserTags(b, l) \/ UserUntags(b, l)

Next ==
    \/ \E w \in Workers : Command(w) \/ CallStep(w) \/ Process(w)
    \/ ReadeckStep

Spec == Init /\ [][Next]_vars

-----------------------------------------------------------------------------
(* Properties.                                                               *)

(* A row of the state DB never claims a label that did not reach Readeck:   *)
(* each label of a row is on the bookmark, unless a user took it off since.  *)
(* Apply writes Readeck first and the row second, without a transaction, and *)
(* any of its steps may fail, be cancelled, or die (manager.go:108-150).     *)
RowsBacked ==
    \A b \in Bookmarks : rows[b] # NoRow => rows[b] \subseteq tags[b] \cup untagged[b]

(* No label is in more rows than it has been counted for, once the counts   *)
(* that workers still have to write are added, unless a crash or an error    *)
(* between MarkProcessed and RecordLabel lost one (manager.go:141-148).      *)
RowsWith(l) == {b \in Bookmarks : rows[b] # NoRow /\ l \in rows[b]}

StillToCount(l) == {w \in Workers : pc[w] = "record" /\ l \in todo[w]}

CountsCoverRows ==
    \A l \in Labels \ uncounted :
        Cardinality(RowsWith(l)) <= useCount[l] + Cardinality(StillToCount(l))

(* A step of w, and a step of some worker: the others are Readeck's and its  *)
(* user's.                                                                   *)
Moves(w) == pc'[w] # pc[w] \/ job'[w] # job[w] \/ todo'[w] # todo[w]

WorkerMoves == \E w \in Workers : Moves(w)

(* The program is additive: a step of a worker never takes a label off any   *)
(* bookmark, whoever put it there (README: "never removes existing labels"). *)
NeverUntags == [][WorkerMoves => \A b \in Bookmarks : tags[b] \subseteq tags'[b]]_vars

(* With one process, a bookmark that has a row is left alone: its labels     *)
(* change by a user's hand only, until someone asks for it to be classified  *)
(* again.  A label the user removed does not come back (pipeline.go:14).     *)
RecordedIsSettled ==
    [][\A b \in Bookmarks : WorkerMoves /\ rows[b] # NoRow => tags'[b] = tags[b]]_vars

(* A dry run leaves Readeck and the label inventory as they are              *)
(* (manager.go:120-125).                                                     *)
DryRunSparesReadeck ==
    [][\A w \in Workers : DryRun[w] /\ Moves(w) => UNCHANGED <<tags, useCount>>]_vars

(* The two stores together behave as the ledger of Ledger.tla: a label is on *)
(* Readeck before a row claims it, whatever fails in between.                *)
Abstract == INSTANCE Ledger WITH carried <- tags, removed <- untagged, recorded <- rows

ImplementsLedger == Abstract!Spec

(* What cli.go:51-52 says of --dry-run: no mutation of the state DB either.  *)
DryRunWritesNothing ==
    [][(\A w \in Workers : DryRun[w]) => UNCHANGED <<rows, useCount>>]_vars

(* What pipeline.go:97-99 says: a call that returns an error has not marked  *)
(* the bookmark processed.  Past its first step the call has seen no row.    *)
ErrorMeansUnmarked ==
    [][\A w \in Workers :
        pc[w] \in Working \ {"check"} /\ pc'[w] = "failed" => rows'[job[w]] = NoRow]_vars
=============================================================================
