------------------------------- MODULE Runner -------------------------------
(***************************************************************************)
(* The processes around the pipeline: what serve, run, backfill and        *)
(* classify do from start to end (internal/cli/cli.go), a pass over the    *)
(* listed bookmarks (internal/runner/once.go) and the daemon's loop        *)
(* (internal/runner/daemon.go).  The steps inside Classify are Pipeline's; *)
(* this module says when they are taken, and for which bookmarks.          *)
(*                                                                         *)
(* The collections pass that starts a pass is modelled in Reconciler: it   *)
(* touches none of this state and its errors are only logged.              *)
(***************************************************************************)
EXTENDS Pipeline, Sequences

CONSTANTS
    Created,    \* the bookmarks in the order they were created
    PageSize,   \* readeck.page_size
    MayRun,     \* [Workers -> SUBSET Subcommands]: what is started, and where
    Pages       \* [Subcommands -> Int]: the page cap that each is given

Subcommands == {"serve", "run", "classify", "backfill", "backfill --force"}

ASSUME MayRunAssumption == MayRun \in [Workers -> SUBSET Subcommands]

ASSUME PagesAssumption ==
    /\ PageSize \in Nat \ {0}
    /\ Pages \in [Subcommands -> Int]
    /\ Created \in Seq(Bookmarks)

VARIABLES
    command,    \* the subcommand of each process, kept after it ends
    phase,      \* where each process is outside Classify
    page,       \* the page it fetches next
    fetched,    \* bookmarks of the last page not yet looked up in the state DB
    candidates  \* bookmarks left to classify in this pass

passVars == <<command, phase, page, fetched, candidates>>
runnerVars == <<vars, passVars>>

(* off: no process. waiting: the daemon's timer runs. one: classify's call. *)
Phases == {"off", "list", "lookup", "loop", "waiting", "one"}

RunnerTypeOK ==
    /\ TypeOK
    /\ command \in [Workers -> Subcommands]
    /\ phase \in [Workers -> Phases]
    /\ page \in [Workers -> Nat \ {0}]
    /\ fetched \in [Workers -> Seq(Bookmarks)]
    /\ candidates \in [Workers -> Seq(Bookmarks)]

RunnerInit ==
    /\ Init
    /\ command \in [Workers -> Subcommands]
    /\ phase = [w \in Workers |-> "off"]
    /\ page = [w \in Workers |-> 1]
    /\ fetched = [w \in Workers |-> <<>>]
    /\ candidates = [w \in Workers |-> <<>>]

-----------------------------------------------------------------------------
(* What the server answers for page p: a slice of the loaded bookmarks,      *)
(* oldest first, as they are at that moment.                                 *)
Loaded == {i \in DOMAIN Created : stage[Created[i]] = "loaded"}

NthLoaded(n) == CHOOSE i \in Loaded : Cardinality({j \in Loaded : j <= i}) = n

Slice(first, size) == [k \in 1 .. size |-> Created[NthLoaded(first + k)]]

ListedFromZero(p) == Slice(p * PageSize, Cardinality(Loaded) - p * PageSize)

Listed(p) ==
    LET first == (p - 1) * PageSize
        rest == Cardinality(Loaded) - first
    IN Slice(first, IF rest < PageSize THEN rest ELSE PageSize)

EnterAtZero(w, where) ==
    /\ phase' = [phase EXCEPT ![w] = where]
    /\ page' = [page EXCEPT ![w] = 0]
    /\ fetched' = [fetched EXCEPT ![w] = <<>>]
    /\ candidates' = [candidates EXCEPT ![w] = <<>>]

Enter(w, where) ==
    /\ phase' = [phase EXCEPT ![w] = where]
    /\ page' = [page EXCEPT ![w] = 1]
    /\ fetched' = [fetched EXCEPT ![w] = <<>>]
    /\ candidates' = [candidates EXCEPT ![w] = <<>>]

(* Once has returned: the daemon waits for its timer, the others exit.       *)
PassOver(w) ==
    /\ Enter(w, IF command[w] = "serve" THEN "waiting" ELSE "off")
    /\ UNCHANGED command

-----------------------------------------------------------------------------
(* Commands.                                                                 *)

Launch(w, subcommand, where) ==
    /\ subcommand \in MayRun[w]
    /\ phase[w] = "off" /\ MayWork(w)
    /\ command' = [command EXCEPT ![w] = subcommand]
    /\ Enter(w, where)

(* serve, run and backfill open with a pass.                                 *)
StartPass(w) ==
    /\ \E s \in {"serve", "run", "backfill"} : Launch(w, s, "list")
    /\ UNCHANGED vars

(* backfill --force empties processed_bookmarks first, or gives up.          *)
StartForcedBackfill(w) == Launch(w, "backfill --force", "list") /\ WipeProcessed(w)

StartClassify(w, b) == Launch(w, "classify", "one") /\ ClassifyCommand(w, b)

ClassifyReturns(w) ==
    /\ phase[w] = "one" /\ pc[w] \in Rest
    /\ Enter(w, "off")
    /\ UNCHANGED <<command, vars>>

(* The timer fires.                                                          *)
Tick(w) ==
    /\ phase[w] = "waiting" /\ MayWork(w)
    /\ Enter(w, "list")
    /\ UNCHANGED <<command, vars>>

StopServingNever(w) == Tick(w)

(* The daemon's select sees the context done, between two passes.            *)
StopServing(w) ==
    /\ phase[w] = "waiting" /\ cancelled[w]
    /\ Enter(w, "off")
    /\ UNCHANGED <<command, vars>>

-----------------------------------------------------------------------------
(* A pass: list candidates page by page, then classify them one by one.      *)

(* A cap of nothing, or less, falls back to one page.                        *)
PageCap(w) == IF Pages[command[w]] <= 0 THEN 1 ELSE Pages[command[w]]

FetchPage(w) ==
    /\ phase[w] = "list" /\ page[w] <= PageCap(w) /\ MayWork(w)
    /\ IF Listed(page[w]) = <<>>
       THEN phase' = [phase EXCEPT ![w] = "loop"] /\ UNCHANGED <<page, fetched>>
       ELSE /\ phase' = [phase EXCEPT ![w] = "lookup"]
            /\ fetched' = [fetched EXCEPT ![w] = Listed(page[w])]
            /\ UNCHANGED page
    /\ UNCHANGED <<command, candidates, vars>>

AllPagesListed(w) ==
    /\ phase[w] = "list" /\ page[w] > PageCap(w)
    /\ phase' = [phase EXCEPT ![w] = "loop"]
    /\ UNCHANGED <<command, page, fetched, candidates, vars>>

LookUp(w) ==
    \E b \in Bookmarks :
        /\ phase[w] = "lookup" /\ MayWork(w)
        /\ b = Head(fetched[w])
        /\ candidates' = [candidates EXCEPT ![w] =
                             IF IsProcessed(b) THEN @ ELSE Append(@, b)]
        /\ fetched' = [fetched EXCEPT ![w] = Tail(@)]
        /\ IF Tail(fetched[w]) = <<>>
           THEN /\ phase' = [phase EXCEPT ![w] = "list"]
                /\ page' = [page EXCEPT ![w] = @ + 1]
           ELSE UNCHANGED <<phase, page>>
        /\ UNCHANGED <<command, vars>>

(* Any error while listing drops the whole pass, what it found included.     *)
ListingFails(w) ==
    /\ \/ phase[w] = "list" /\ page[w] <= PageCap(w) /\ MayFail(w, "readeck")
       \/ phase[w] = "lookup" /\ MayFail(w, "store")
    /\ PassOver(w)
    /\ UNCHANGED vars

ClassifyNext(w) ==
    /\ phase[w] = "loop" /\ candidates[w] # <<>>
    /\ Begin(w, Head(candidates[w]))
    /\ candidates' = [candidates EXCEPT ![w] = Tail(@)]
    /\ UNCHANGED <<command, phase, page, fetched>>

(* The last candidate is done, or ctx.Err() ends the loop before the next.   *)
EndPass(w) ==
    /\ phase[w] = "loop" /\ pc[w] \in Rest
    /\ candidates[w] = <<>> \/ cancelled[w]
    /\ PassOver(w)
    /\ UNCHANGED vars

-----------------------------------------------------------------------------
Classifying(w) == CallStep(w) /\ UNCHANGED passVars

(* A signal reaches a running process.                                       *)
Signal(w) == phase[w] # "off" /\ Cancel(w) /\ UNCHANGED passVars

Dies(w) == phase[w] # "off" /\ Crash(w) /\ Enter(w, "off") /\ UNCHANGED command

(* The command is given again after a cancelled process has ended.           *)
RunAgain(w) == phase[w] = "off" /\ Restart(w) /\ UNCHANGED passVars

ReadeckMoves == ReadeckStep /\ UNCHANGED passVars

(* What a process does by itself, once started.                              *)
RunnerStep(w) ==
    \/ Tick(w) \/ StopServing(w)
    \/ FetchPage(w) \/ AllPagesListed(w) \/ LookUp(w) \/ ListingFails(w)
    \/ ClassifyNext(w) \/ EndPass(w) \/ ClassifyReturns(w)
    \/ Classifying(w)

Started(w) ==
    \/ StartPass(w) \/ StartForcedBackfill(w)
    \/ \E b \in Bookmarks : StartClassify(w, b)

RunnerNext ==
    \/ \E w \in Workers : Started(w) \/ RunnerStep(w) \/ Signal(w) \/ Dies(w) \/ RunAgain(w)
    \/ ReadeckMoves

RunnerSafety == RunnerInit /\ [][RunnerNext]_runnerVars

(* A step that goes wrong for a reason that may pass: an outage, a locked    *)
(* database, a signal, the death of the process.                             *)
Disturbance(w) ==
    \/ /\ pc[w] \in Working /\ pc'[w] = "failed"
       /\ job[w] \in Extractable /\ stage[job[w]] # "deleted"
    \/ ListingFails(w) \/ Signal(w) \/ Dies(w)

(* Fairness.  A process that can take a step takes one (a Go loop that only  *)
(* waits for timers and for requests with timeouts, as long as llm.timeout   *)
(* is not negative, see LlmChat); extraction ends; a daemon that died or was *)
(* stopped is started again (a service manager); and the disturbances end at *)
(* some time, however many there were.                                       *)
Fairness ==
    /\ \A b \in Bookmarks : WF_runnerVars(Extract(b) /\ UNCHANGED passVars)
    /\ \A w \in Workers :
        /\ WF_runnerVars(RunnerStep(w))
        /\ WF_runnerVars(StartPass(w) \/ RunAgain(w))

DisturbancesEnd == <>[][\A w \in Workers : ~Disturbance(w)]_runnerVars

RunnerSpec == RunnerSafety /\ Fairness /\ DisturbancesEnd

-----------------------------------------------------------------------------
(* Properties.                                                               *)

(* Every bookmark that is loaded and has an article gets its row, as long as *)
(* it is not deleted: no page that shifts while it is listed, no failed call, *)
(* no crash between PATCH and row and no restart of the daemon loses one.    *)
EventuallyRecorded ==
    \A b \in Extractable :
        stage[b] = "loaded" ~> (rows[b] # NoRow \/ stage[b] = "deleted")

(* A process whose context is cancelled ends, from wherever it is: inside a  *)
(* listing, a call, the candidates loop or the daemon's wait.                *)
StopsWhenCancelled == \A w \in Workers : cancelled[w] ~> phase[w] = "off"

(* What a process does by itself, up to the signal and after it.             *)
Acts(w) == Started(w) \/ RunnerStep(w)

(* Once the signal has come, the call that is open ends with its next step   *)
(* and no other is begun (once.go:49-52), however many candidates are left   *)
(* and wherever the process is.  It writes nothing to the database any more, *)
(* no row, no count, and forgets none; and Readeck only gets what was on its *)
(* way: a PATCH of the labels that the call held already (manager.go:134).   *)
CancelledIsSilent ==
    [][\A w \in Workers : cancelled[w] /\ Acts(w) =>
        /\ UNCHANGED <<rows, useCount, job>>
        /\ pc'[w] \in Rest
        /\ tags' # tags =>
              /\ pc[w] = "patch"
              /\ tags' = [tags EXCEPT ![job[w]] = @ \cup todo[w]]]_runnerVars
=============================================================================
