---------------------------- MODULE RunnerProofs ----------------------------
(***************************************************************************)
(* Theorems about Runner: the commands, the passes and the daemon use the  *)
(* pipeline only as Pipeline allows, so what is proved of Pipeline holds   *)
(* of the whole program.                                                   *)
(***************************************************************************)
EXTENDS Runner, CountingProofs, OrderLemmas

-----------------------------------------------------------------------------
(* The pages of a listing, as long as nothing changes in it.                 *)
LEMMA LoadedWithin ==
    /\ Within(Loaded, Len(Created)) /\ Len(Created) \in Nat
    /\ Cardinality(Loaded) \in Nat
    /\ \A i \in Loaded : Created[i] \in Bookmarks
<1>1. Created \in Seq(Bookmarks)
  BY PagesAssumption
<1>2. Within(Loaded, Len(Created)) /\ Len(Created) \in Nat
  BY <1>1 DEF Loaded, Within
<1>3. Cardinality(Loaded) \in Nat
  <2>1. CountUpTo(Loaded, Len(Created)) = Cardinality(Loaded)
    BY <1>2, CountType
  <2> QED
    BY <1>2, <2>1, CountType
<1> QED
  BY <1>1, <1>2, <1>3 DEF Loaded

LEMMA NthLoadedIs ==
    ASSUME NEW n \in 1 .. Cardinality(Loaded)
    PROVE  /\ NthLoaded(n) \in Loaded
           /\ CountUpTo(Loaded, NthLoaded(n)) = n
           /\ \A i \in Loaded : CountUpTo(Loaded, i) = n => i = NthLoaded(n)
<1>1. NthLoaded(n) = CHOOSE i \in Loaded : CountUpTo(Loaded, i) = n
  BY DEF NthLoaded, CountUpTo, UpTo
<1>2. /\ \E i \in Loaded : CountUpTo(Loaded, i) = n
      /\ \A i, j \in Loaded : CountUpTo(Loaded, i) = n /\ CountUpTo(Loaded, j) = n => i = j
  BY LoadedWithin, NthElement
<1> QED
  BY <1>1, <1>2

(* A page is as long as PageSize, or the last.                               *)
LEMMA ListedIs ==
    ASSUME NEW p \in Nat \ {0}
    PROVE  /\ Listed(p) \in Seq(Bookmarks)
           /\ (p - 1) * PageSize \in Nat
           /\ DOMAIN Listed(p) \in SUBSET (Nat \ {0})
           /\ \A k \in Nat \ {0} : k \in DOMAIN Listed(p) <=>
                 k <= PageSize /\ (p - 1) * PageSize + k <= Cardinality(Loaded)
           /\ \A k \in DOMAIN Listed(p) :
                 Listed(p)[k] = Created[NthLoaded((p - 1) * PageSize + k)]
<1> DEFINE first == (p - 1) * PageSize
           rest == Cardinality(Loaded) - first
           size == IF rest < PageSize THEN rest ELSE PageSize
<1>1. PageSize \in Nat \ {0} /\ Cardinality(Loaded) \in Nat
  BY PagesAssumption, LoadedWithin
<1>2. first \in Nat
  <2>1. p - 1 \in Nat
    OBVIOUS
  <2> QED
    BY <1>1, <2>1
<1>3. Listed(p) = [k \in 1 .. size |-> Created[NthLoaded(first + k)]]
  BY DEF Listed, Slice
<1> HIDE DEF first
<1>4. size \in Int /\ size <= PageSize /\ first + size <= Cardinality(Loaded)
  BY <1>1, <1>2
<1>5. \A k \in 1 .. size : first + k \in 1 .. Cardinality(Loaded)
  BY <1>1, <1>2, <1>4
<1>6. \A k \in 1 .. size : Created[NthLoaded(first + k)] \in Bookmarks
  BY <1>5, NthLoadedIs, LoadedWithin
<1>7. \A k \in Nat \ {0} : k \in 1 .. size <=> k <= PageSize /\ first + k <= Cardinality(Loaded)
  BY <1>1, <1>2
<1>8. \E n \in Nat : 1 .. size = 1 .. n
  <2>1. CASE size \in Nat
    BY <2>1
  <2>2. CASE size < 0
    <3>1. 1 .. size = 1 .. 0
      BY <1>4, <2>2
    <3> QED
      BY <3>1
  <2> QED
    BY <1>4, <2>1, <2>2
<1> HIDE DEF size
<1>9. Listed(p) \in Seq(Bookmarks)
  <2>1. PICK n \in Nat : 1 .. size = 1 .. n
    BY <1>8
  <2>2. Listed(p) \in [1 .. n -> Bookmarks]
    BY <1>3, <1>6, <2>1
  <2> QED
    BY <2>2
<1>10. first = (p - 1) * PageSize
  BY DEF first
<1>11. DOMAIN Listed(p) = 1 .. size /\ \A k \in 1 .. size : Listed(p)[k] = Created[NthLoaded(first + k)]
  BY <1>3
<1> QED
  BY <1>2, <1>7, <1>9, <1>10, <1>11

(* Pages do not overlap.                                                     *)
LEMMA SamePage ==
    ASSUME NEW size \in Nat \ {0}, NEW p \in Nat \ {0}, NEW q \in Nat \ {0},
           NEW k \in 1 .. size, NEW j \in 1 .. size,
           (p - 1) * size + k = (q - 1) * size + j
    PROVE  p = q
<1>1. ASSUME NEW a \in Nat, NEW b \in Nat, a < b
      PROVE  a * size + size <= b * size
  <2>1. a + 1 <= b
    BY <1>1
  <2>2. (a + 1) * size <= b * size
    BY <2>1
  <2> QED
    BY <2>2
<1>2. p - 1 \in Nat /\ q - 1 \in Nat /\ (p - 1) * size \in Nat /\ (q - 1) * size \in Nat
  OBVIOUS
<1>3. ~(p - 1 < q - 1) /\ ~(q - 1 < p - 1)
  BY <1>1, <1>2
<1> QED
  BY <1>2, <1>3

(* A listing that nobody changes is read to its end: every loaded bookmark   *)
(* is in one place of one page, and no page before that one is empty, which  *)
(* is where the loop would stop (once.go:113).                               *)
THEOREM PagesCoverTheList ==
    ASSUME NEW i \in Loaded
    PROVE  \E p \in Nat \ {0} : \E k \in DOMAIN Listed(p) :
              /\ Listed(p)[k] = Created[i]
              /\ \A q \in Nat \ {0} : \A j \in DOMAIN Listed(q) :
                    NthLoaded((q - 1) * PageSize + j) = i => q = p /\ j = k
              /\ \A q \in 1 .. p : Listed(q) # <<>>
<1> DEFINE r == CountUpTo(Loaded, i)
           n == Cardinality(Loaded)
           Far == {p \in Nat : p * PageSize >= r}
<1>1. PageSize \in Nat \ {0} /\ n \in Nat /\ i \in 1 .. Len(Created) /\ Len(Created) \in Nat
  BY PagesAssumption, LoadedWithin DEF Within
<1>2. r \in 1 .. n
  <2>1. CountUpTo(Loaded, 0) = 0 /\ CountUpTo(Loaded, Len(Created)) = n /\ r \in Nat
    BY <1>1, LoadedWithin, CountType
  <2>2. CountUpTo(Loaded, 0) < r /\ r <= CountUpTo(Loaded, Len(Created))
    BY <1>1, LoadedWithin, CountMonotone
  <2> QED
    BY <2>1, <2>2
<1>3. NthLoaded(r) = i
  BY <1>2, NthLoadedIs
<1> HIDE DEF r, n
<1>4. r \in Far
  BY <1>1, <1>2
<1>5. PICK p \in Far : \A q \in Far : p <= q
  <2>1. Far \in SUBSET Nat /\ Far # {}
    BY <1>4
  <2> HIDE DEF Far
  <2> QED
    BY <2>1, HasLeast
<1>6. p \in Nat \ {0} /\ p * PageSize >= r /\ (p - 1) * PageSize < r /\ p - 1 \in Nat
  <2>1. p \in Nat \ {0}
    BY <1>1, <1>2, <1>5
  <2>2. p - 1 \in Nat /\ p - 1 \notin Far
    BY <1>5, <2>1
  <2> QED
    BY <1>1, <1>2, <1>5, <2>1, <2>2
<1> DEFINE k == r - (p - 1) * PageSize
<1>7. p * PageSize = (p - 1) * PageSize + PageSize /\ (p - 1) * PageSize \in Nat
  BY <1>1, <1>6
<1>8. k \in 1 .. PageSize /\ (p - 1) * PageSize + k = r
  BY <1>1, <1>2, <1>6, <1>7
<1> HIDE DEF k
<1>9. k \in DOMAIN Listed(p) /\ Listed(p)[k] = Created[i]
  <2>1. k \in Nat \ {0} /\ k <= PageSize /\ (p - 1) * PageSize + k <= n
    BY <1>1, <1>2, <1>8
  <2>2. k \in DOMAIN Listed(p)
    BY <1>6, <2>1, ListedIs DEF n
  <2>3. Listed(p)[k] = Created[NthLoaded((p - 1) * PageSize + k)]
    BY <1>6, <2>2, ListedIs
  <2> QED
    BY <1>3, <1>8, <2>2, <2>3
<1>10. ASSUME NEW q \in Nat \ {0}, NEW j \in DOMAIN Listed(q),
              NthLoaded((q - 1) * PageSize + j) = i
       PROVE  q = p /\ j = k
  <2>1. j \in Nat \ {0} /\ j <= PageSize /\ (q - 1) * PageSize \in Nat
        /\ (q - 1) * PageSize + j <= n
    BY ListedIs DEF n
  <2>2. (q - 1) * PageSize + j = r
    BY <1>10, <2>1, NthLoadedIs DEF r, n
  <2>3. q = p
    BY <1>1, <1>6, <1>8, <2>1, <2>2, SamePage
  <2> QED
    BY <1>7, <1>8, <2>1, <2>2, <2>3
<1>11. ASSUME NEW q \in 1 .. p
       PROVE  Listed(q) # <<>>
  <2>1. q \in Nat \ {0} /\ (q - 1) * PageSize <= (p - 1) * PageSize /\ (q - 1) * PageSize \in Nat
    BY <1>1, <1>6
  <2>2. 1 \in DOMAIN Listed(q)
    <3>1. 1 <= PageSize /\ (q - 1) * PageSize + 1 <= n
      BY <1>1, <1>2, <1>6, <1>7, <2>1
    <3> QED
      BY <2>1, <3>1, ListedIs DEF n
  <2> QED
    BY <2>2
<1> QED
  BY <1>6, <1>9, <1>10, <1>11

-----------------------------------------------------------------------------
(* Types of the passes.  LookUp takes the first of a page: it comes to no    *)
(* page that is empty.                                                       *)
PassTyped ==
    /\ command \in [Workers -> Subcommands]
    /\ phase \in [Workers -> Phases]
    /\ page \in [Workers -> Nat \ {0}]
    /\ fetched \in [Workers -> Seq(Bookmarks)]
    /\ candidates \in [Workers -> Seq(Bookmarks)]
    /\ \A w \in Workers : phase[w] = "lookup" => fetched[w] # <<>>

LEMMA EnterKeepsTypes ==
    ASSUME PassTyped, NEW w \in Workers, NEW where \in Phases \ {"lookup"}, Enter(w, where),
           command' \in [Workers -> Subcommands]
    PROVE  PassTyped'
<1>1. /\ phase' = [phase EXCEPT ![w] = where] /\ page' = [page EXCEPT ![w] = 1]
      /\ fetched' = [fetched EXCEPT ![w] = <<>>] /\ candidates' = [candidates EXCEPT ![w] = <<>>]
  BY DEF Enter
<1>2. fetched' \in [Workers -> Seq(Bookmarks)] /\ candidates' \in [Workers -> Seq(Bookmarks)]
  <2>1. <<>> \in Seq(Bookmarks)
    OBVIOUS
  <2> QED
    BY <1>1, <2>1 DEF PassTyped
<1>3. phase' \in [Workers -> Phases] /\ page' \in [Workers -> Nat \ {0}]
  BY <1>1 DEF PassTyped
<1>4. ASSUME NEW v \in Workers, phase'[v] = "lookup"
      PROVE  fetched'[v] # <<>>
  <2>1. v # w
    BY <1>1, <1>4 DEF PassTyped
  <2> QED
    BY <1>1, <1>4, <2>1 DEF PassTyped
<1> QED
  BY <1>2, <1>3, <1>4 DEF PassTyped

LEMMA LookUpKeepsTypes ==
    ASSUME PassTyped, NEW w \in Workers, LookUp(w)
    PROVE  PassTyped'
<1> USE DEF PassTyped
<1>1. PICK b \in Bookmarks :
          /\ candidates' = [candidates EXCEPT ![w] = IF IsProcessed(b) THEN @ ELSE Append(@, b)]
          /\ fetched' = [fetched EXCEPT ![w] = Tail(@)]
          /\ IF Tail(fetched[w]) = <<>>
             THEN /\ phase' = [phase EXCEPT ![w] = "list"]
                  /\ page' = [page EXCEPT ![w] = @ + 1]
             ELSE UNCHANGED <<phase, page>>
          /\ UNCHANGED command
  BY DEF LookUp
<1>2. fetched[w] \in Seq(Bookmarks) /\ fetched[w] # <<>> /\ page[w] \in Nat \ {0}
  BY DEF LookUp
<1>3. Tail(fetched[w]) \in Seq(Bookmarks) /\ page[w] + 1 \in Nat \ {0}
  BY <1>2
<1>4. Append(candidates[w], b) \in Seq(Bookmarks)
  OBVIOUS
<1>5. candidates' \in [Workers -> Seq(Bookmarks)]
  BY <1>1, <1>4
<1>6. fetched' \in [Workers -> Seq(Bookmarks)]
  BY <1>1, <1>3
<1>7. phase' \in [Workers -> Phases] /\ page' \in [Workers -> Nat \ {0}]
  BY <1>1, <1>3 DEF Phases
<1>8. ASSUME NEW v \in Workers, phase'[v] = "lookup"
      PROVE  fetched'[v] # <<>>
  BY <1>1, <1>3, <1>8
<1> QED
  BY <1>1, <1>5, <1>6, <1>7, <1>8

LEMMA StepPassTyped == PassTyped /\ [RunnerNext]_runnerVars => PassTyped'
<1> SUFFICES ASSUME PassTyped, [RunnerNext]_runnerVars PROVE PassTyped'
  OBVIOUS
<1>1. ASSUME NEW w \in Workers, Started(w)
      PROVE  PassTyped'
  <2>1. \E s \in Subcommands, where \in {"list", "one"} : Launch(w, s, where)
    BY <1>1 DEF Started, StartPass, StartForcedBackfill, StartClassify, Subcommands
  <2>2. PICK s \in Subcommands, where \in {"list", "one"} : Launch(w, s, where)
    BY <2>1
  <2>3. command' \in [Workers -> Subcommands] /\ where \in Phases \ {"lookup"}
    BY <2>2 DEF Launch, PassTyped, Phases
  <2> QED
    BY <2>2, <2>3, EnterKeepsTypes DEF Launch
<1>2. ASSUME NEW w \in Workers, Tick(w) \/ StopServing(w) \/ ClassifyReturns(w)
                                \/ ListingFails(w) \/ EndPass(w) \/ Dies(w)
      PROVE  PassTyped'
  <2>1. \E where \in Phases \ {"lookup"} : Enter(w, where)
    BY <1>2 DEF Tick, StopServing, ClassifyReturns, ListingFails, EndPass, PassOver, Dies, Phases
  <2>2. command' = command
    BY <1>2 DEF Tick, StopServing, ClassifyReturns, ListingFails, EndPass, PassOver, Dies
  <2> QED
    BY <2>1, <2>2, EnterKeepsTypes DEF PassTyped
<1>3. ASSUME NEW w \in Workers, FetchPage(w)
      PROVE  PassTyped'
  <2>1. page[w] \in Nat \ {0}
    BY DEF PassTyped
  <2>2. Listed(page[w]) \in Seq(Bookmarks)
    BY <2>1, ListedIs
  <2> QED
    BY <1>3, <2>2 DEF FetchPage, PassTyped, Phases
<1>4. ASSUME NEW w \in Workers, AllPagesListed(w)
      PROVE  PassTyped'
  BY <1>4 DEF AllPagesListed, PassTyped, Phases
<1>5. ASSUME NEW w \in Workers, ClassifyNext(w)
      PROVE  PassTyped'
  <2>1. candidates[w] \in Seq(Bookmarks) /\ candidates[w] # <<>>
    BY <1>5 DEF ClassifyNext, PassTyped
  <2>2. Tail(candidates[w]) \in Seq(Bookmarks)
    BY <2>1
  <2> QED
    BY <1>5, <2>2 DEF ClassifyNext, PassTyped
<1>6. ASSUME NEW w \in Workers, Classifying(w) \/ Signal(w) \/ RunAgain(w)
      PROVE  PassTyped'
  BY <1>6 DEF Classifying, Signal, RunAgain, passVars, PassTyped
<1>7. CASE ReadeckMoves \/ UNCHANGED runnerVars
  BY <1>7 DEF ReadeckMoves, runnerVars, passVars, PassTyped
<1> QED
  BY <1>1, <1>2, <1>3, <1>4, <1>5, <1>6, <1>7, LookUpKeepsTypes DEF RunnerNext, RunnerStep

-----------------------------------------------------------------------------
LEMMA StartIsPipelineStep ==
    ASSUME NEW w \in Workers, Started(w)
    PROVE  [Next]_vars
<1>1. CASE StartPass(w)
  BY <1>1 DEF StartPass
<1>2. CASE StartForcedBackfill(w)
  BY <1>2 DEF StartForcedBackfill, Next, Command
<1>3. ASSUME NEW b \in Bookmarks, StartClassify(w, b)
      PROVE  Next
  BY <1>3 DEF StartClassify, Next, Command
<1> QED
  BY <1>1, <1>2, <1>3 DEF Started

LEMMA RunnerStepIsPipelineStep ==
    ASSUME PassTyped, NEW w \in Workers, RunnerStep(w)
    PROVE  [Next]_vars
<1>1. CASE Tick(w) \/ StopServing(w) \/ ClassifyReturns(w)
  BY <1>1 DEF Tick, StopServing, ClassifyReturns
<1>2. CASE FetchPage(w) \/ AllPagesListed(w) \/ LookUp(w) \/ ListingFails(w) \/ EndPass(w)
  BY <1>2 DEF FetchPage, AllPagesListed, LookUp, ListingFails, EndPass
<1>3. CASE ClassifyNext(w)
  <2>1. Head(candidates[w]) \in Bookmarks
    BY <1>3 DEF ClassifyNext, PassTyped
  <2> QED
    BY <1>3, <2>1 DEF ClassifyNext, Next, Command
<1>4. CASE Classifying(w)
  BY <1>4 DEF Classifying, Next
<1> QED
  BY <1>1, <1>2, <1>3, <1>4 DEF RunnerStep

LEMMA RunnerNextIsPipelineNext ==
    ASSUME PassTyped, [RunnerNext]_runnerVars
    PROVE  [Next]_vars
<1>1. ASSUME NEW w \in Workers, Signal(w) \/ Dies(w) \/ RunAgain(w)
      PROVE  Next
  BY <1>1 DEF Signal, Dies, RunAgain, Next, Process
<1>2. CASE ReadeckMoves
  BY <1>2 DEF ReadeckMoves, Next
<1>3. CASE UNCHANGED runnerVars
  BY <1>3 DEF runnerVars
<1> QED
  BY <1>1, <1>2, <1>3, StartIsPipelineStep, RunnerStepIsPipelineStep
     DEF RunnerNext

(* The program is an implementation of Pipeline.                             *)
THEOREM RunnerImplementsPipeline == RunnerSafety => Spec
<1>1. RunnerInit => Init /\ PassTyped
  BY DEF RunnerInit, PassTyped, Phases
<1>2. PassTyped /\ [RunnerNext]_runnerVars => [Next]_vars
  BY RunnerNextIsPipelineNext
<1> QED
  BY <1>1, <1>2, StepPassTyped, PTL DEF RunnerSafety, Spec

(* Under every command, any number of processes and any failure, no row      *)
(* claims a label that did not reach Readeck.                                *)
THEOREM RunnerRowsAreBacked == RunnerSafety => []RowsBacked
BY RunnerImplementsPipeline, RowsAreBacked, PTL

(* No command takes a tag away (README: "never removes existing labels").    *)
THEOREM RunnerIsAdditive == RunnerSafety => NeverUntags
BY RunnerImplementsPipeline, Additive, PTL

(* The inventory counts every row, also when backfill --force empties the    *)
(* rows and passes write them again.                                         *)
THEOREM RunnerCountsCover ==
    ASSUME Countable
    PROVE  RunnerSafety => []CountsCoverRows
BY RunnerImplementsPipeline, CountsCover, PTL

(* What the commands make of a bookmark is what Ledger says.                 *)
THEOREM RunnerImplementsLedger == RunnerSafety => ImplementsLedger
BY RunnerImplementsPipeline, PipelineImplementsLedger, PTL

(* One process at a time, whatever commands are given, leaves a bookmark     *)
(* with a row as it is.                                                      *)
THEOREM RunnerAloneIsSettled ==
    ASSUME \A v, w \in Workers : v = w
    PROVE  RunnerSafety => RecordedIsSettled
BY RunnerImplementsPipeline, AloneIsSettled, PTL

-----------------------------------------------------------------------------
(* Classify runs inside the candidates loop, or for classify, and nowhere    *)
(* else.                                                                     *)
PassRests == \A w \in Workers : phase[w] \notin {"loop", "one"} => pc[w] \in Rest

LEMMA StepPassRests ==
    ASSUME PassTyped, Typed, PassRests, [RunnerNext]_runnerVars
    PROVE  PassRests'
<1> USE DEF readeckVars, storeVars, workerVars
<1> SUFFICES ASSUME NEW v \in Workers, phase'[v] \notin {"loop", "one"}
             PROVE  pc'[v] \in Rest
  BY DEF PassRests
<1>1. ASSUME phase[v] \notin {"loop", "one"}, pc'[v] = pc[v]
      PROVE  pc'[v] \in Rest
  BY <1>1 DEF PassRests
<1>2. ASSUME NEW w \in Workers, Started(w)
      PROVE  pc'[v] \in Rest
  <2>1. CASE StartPass(w)
    BY <1>1, <2>1 DEF StartPass, Launch, Enter, PassTyped, vars
  <2>2. CASE StartForcedBackfill(w)
    BY <1>1, <2>2 DEF StartForcedBackfill, Launch, Enter, WipeProcessed, PassTyped
  <2>3. ASSUME NEW b \in Bookmarks, StartClassify(w, b)
        PROVE  pc'[v] \in Rest
    BY <1>1, <2>3 DEF StartClassify, Launch, Enter, ClassifyCommand, PassTyped, Typed, TypeOK
  <2> QED
    BY <1>2, <2>1, <2>2, <2>3 DEF Started
<1>3. ASSUME NEW w \in Workers, RunnerStep(w)
      PROVE  pc'[v] \in Rest
  <2>1. CASE Tick(w) \/ StopServing(w) \/ ClassifyReturns(w) \/ EndPass(w)
    BY <1>1, <2>1 DEF Tick, StopServing, ClassifyReturns, EndPass, PassOver, Enter, PassTyped, vars
  <2>2. CASE FetchPage(w) \/ AllPagesListed(w) \/ ListingFails(w)
    BY <1>1, <2>2 DEF FetchPage, AllPagesListed, ListingFails, PassOver, Enter, PassTyped, vars
  <2>3. CASE LookUp(w)
    BY <1>1, <2>3 DEF LookUp, PassTyped, vars
  <2>4. CASE ClassifyNext(w)
    BY <1>1, <2>4 DEF ClassifyNext, Begin, Typed, TypeOK
  <2>5. CASE Classifying(w)
    <3>1. CASE v = w
      <4>1. phase[w] \notin {"loop", "one"}
        BY <2>5, <3>1 DEF Classifying, passVars
      <4>2. pc[w] \in Rest
        BY <4>1 DEF PassRests
      <4> QED
        BY <2>5, <4>2 DEF Classifying, CallStep, CheckProcessed, GetBookmark, GetArticleMarkdown,
                          Inventory, Chat, MarkLowConfidence, UpdateBookmarkLabels, MarkProcessed,
                          RecordLabel, Rest
    <3>2. CASE v # w
      <4>1. CallStep(w) /\ phase' = phase
        BY <2>5 DEF Classifying, passVars
      <4>2. pc'[v] = pc[v]
        BY <3>2, <4>1 DEF CallStep, CheckProcessed, GetBookmark, GetArticleMarkdown, Inventory,
                          Chat, MarkLowConfidence, UpdateBookmarkLabels, MarkProcessed, RecordLabel,
                          Return, Goto, Hold, Typed, TypeOK
      <4> QED
        BY <1>1, <4>1, <4>2
    <3> QED
      BY <3>1, <3>2
  <2> QED
    BY <1>3, <2>1, <2>2, <2>3, <2>4, <2>5 DEF RunnerStep
<1>4. ASSUME NEW w \in Workers, Signal(w) \/ Dies(w) \/ RunAgain(w)
      PROVE  pc'[v] \in Rest
  <2>1. CASE v = w /\ pc'[w] = "idle"
    BY <2>1 DEF Rest
  <2>2. CASE ~(v = w /\ pc'[w] = "idle")
    BY <1>1, <1>4, <2>2 DEF Signal, Dies, RunAgain, Cancel, Crash, Restart, FreshProcess, Enter,
                            passVars, PassTyped, Typed, TypeOK
  <2> QED
    BY <2>1, <2>2
<1>5. CASE ReadeckMoves
  BY <1>1, <1>5 DEF ReadeckMoves, ReadeckStep, Extract, UserDeletes, UserTags, UserUntags, passVars
<1>6. CASE UNCHANGED runnerVars
  BY <1>1, <1>6 DEF runnerVars, passVars, vars
<1> QED
  BY <1>2, <1>3, <1>4, <1>5, <1>6 DEF RunnerNext

(* After the signal every statement fails, and every request too, though     *)
(* the PATCH may have arrived; a listing, a wait or a loop just ends.        *)
LEMMA CancelledActs ==
    ASSUME PassTyped, Typed, PassRests, NEW w \in Workers, cancelled[w], Acts(w)
    PROVE  /\ UNCHANGED <<rows, useCount, job>>
           /\ pc'[w] \in Rest
           /\ tags' # tags =>
                 /\ pc[w] = "patch"
                 /\ tags' = [tags EXCEPT ![job[w]] = @ \cup todo[w]]
<1> USE DEF readeckVars, storeVars
<1>1. ~Started(w)
  BY DEF Started, StartPass, StartForcedBackfill, StartClassify, Launch, MayWork
<1>2. RunnerStep(w)
  BY <1>1 DEF Acts
<1>3. ~Tick(w) /\ ~FetchPage(w) /\ ~LookUp(w) /\ ~ClassifyNext(w)
  BY DEF Tick, FetchPage, LookUp, ClassifyNext, Begin, MayWork
<1>4. CASE StopServing(w) \/ AllPagesListed(w) \/ ListingFails(w) \/ EndPass(w) \/ ClassifyReturns(w)
  <2>1. UNCHANGED vars
    BY <1>4 DEF StopServing, AllPagesListed, ListingFails, EndPass, ClassifyReturns
  <2>2. pc[w] \in Rest
    BY <1>4 DEF StopServing, AllPagesListed, ListingFails, EndPass, ClassifyReturns, PassRests
  <2> QED
    BY <2>1, <2>2 DEF vars
<1>5. CASE Classifying(w)
  <2>1. CallStep(w)
    BY <1>5 DEF Classifying
  <2>2. UNCHANGED <<rows, useCount, job>>
    BY <2>1 DEF CallStep, CheckProcessed, GetBookmark, GetArticleMarkdown, Inventory, Chat,
                MarkLowConfidence, UpdateBookmarkLabels, MarkProcessed, RecordLabel, MayWork, Return
  <2>3. Return(w, "failed")
    BY <2>1 DEF CallStep, CheckProcessed, GetBookmark, GetArticleMarkdown, Inventory, Chat,
                MarkLowConfidence, UpdateBookmarkLabels, MarkProcessed, RecordLabel, MayWork
  <2>4. pc'[w] \in Rest
    BY <2>3 DEF Return, Typed, TypeOK, Rest
  <2>5. tags' # tags => UpdateBookmarkLabels(w) /\ AddTags(job[w], todo[w])
    BY <2>1 DEF CallStep, CheckProcessed, GetBookmark, GetArticleMarkdown, Inventory, Chat,
                MarkLowConfidence, UpdateBookmarkLabels, MarkProcessed, RecordLabel, MayWork
  <2> QED
    BY <2>2, <2>4, <2>5 DEF UpdateBookmarkLabels, AddTags
<1> QED
  BY <1>2, <1>3, <1>4, <1>5 DEF RunnerStep

(* Once the signal has come, a process begins no call and writes nothing to  *)
(* the database, from wherever it is and whatever the others do; of Readeck, *)
(* only the PATCH that is on its way can still change labels.                *)
THEOREM RunnerCancelledIsSilent == RunnerSafety => CancelledIsSilent
<1> DEFINE Inv == PassTyped /\ Typed /\ PassRests
<1>1. RunnerInit => Inv
  BY InitTyped DEF RunnerInit, Init, PassTyped, PassRests, Phases, Rest
<1>2. Inv /\ [RunnerNext]_runnerVars => Inv'
  BY StepPassTyped, RunnerNextIsPipelineNext, StepTyped, StepPassRests
<1>3. Inv => \A w \in Workers : cancelled[w] /\ Acts(w) =>
        /\ UNCHANGED <<rows, useCount, job>>
        /\ pc'[w] \in Rest
        /\ tags' # tags =>
              /\ pc[w] = "patch"
              /\ tags' = [tags EXCEPT ![job[w]] = @ \cup todo[w]]
  BY CancelledActs
<1> QED
  BY <1>1, <1>2, <1>3, PTL DEF RunnerSafety, CancelledIsSilent

(* Every command keeps to the types, with pages of any size and number.      *)
THEOREM RunnerTypeCorrect == RunnerSafety => []RunnerTypeOK
<1>1. RunnerInit => PassTyped
  BY DEF RunnerInit, PassTyped, Phases
<1>2. TypeOK /\ PassTyped => RunnerTypeOK
  BY DEF PassTyped, RunnerTypeOK
<1> QED
  BY <1>1, <1>2, StepPassTyped, RunnerImplementsPipeline, TypeCorrect, PTL DEF RunnerSafety
=============================================================================
