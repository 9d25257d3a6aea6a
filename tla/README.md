# readeckorator in TLA+

readeckorator labels the bookmarks of a Readeck server with the help of an LLM. It is a
single-threaded command-line program (its daemon is a loop, not a pool of goroutines), but it
writes two stores without a transaction, takes its decisions from listings that are old by the
time they are used, may be killed or signalled anywhere, and may run more than once at a time
against one server and one database file. This directory models that, checks it with TLC and
proves what is checked of its safety with TLAPS.

## The system

| component | state | operations | calls | module |
|---|---|---|---|---|
| classification pipeline (`internal/classifier/pipeline.go`) | none of its own; a call has a position, a bookmark and labels | `Classify` | Readeck, LLM, state DB, label manager | `Pipeline` |
| label manager (`internal/labels`) | the seed inventory, the dry-run flag | `Filter`, `Apply`, `Inventory` | Readeck `PATCH`, state DB | `Pipeline` |
| state store (`internal/state`) | `processed_bookmarks`, `label_inventory` (SQLite) | `IsProcessed`, `MarkProcessed`, `DeleteProcessed`, `WipeProcessed`, `RecordLabel`; `Open` with its migrations, `Close` | goose | `Pipeline`; `Open` in `Startup` |
| runner (`internal/runner/once.go`) | page, candidates | `Once`, `listCandidates` | reconciler, Readeck, state DB, pipeline | `Runner` |
| daemon (`internal/runner/daemon.go`) | a timer | `Run`, `tick`, `nextDelay` | runner | `Runner`; `nextDelay` in `Startup` |
| commands (`internal/cli`, `cmd/readeckorator`) | flags, the signal context | `run`, `serve`, `classify`, `backfill`, `collections sync` | runner, pipeline, store, reconciler | `Runner`, `Reconciler`, `Startup` |
| collections reconciler (`internal/collections`) | the listing of the current pass | `Reconcile` | Readeck collections | `Reconciler` |
| Readeck client (`internal/readeck`) | – | one request per method | Readeck | by effect, in each module |
| LLM client (`internal/llm/client.go`) | attempt number | `Chat` with retries | LLM | `LlmChat`, `Call`; one step of `Pipeline` |
| prompts and answers (`internal/llm`) | – | `Truncate`, `BuildUserPrompt`, `extractJSON`, `ParseClassification` | – | `Consult`, `ExtractJson`; the wording is not modelled |
| configuration (`internal/config`) | – | `Load`: parse, interpolate, default, validate | – | `Startup`; elsewhere the CONSTANTS |
| `hack/dump-bookmark`, CI, Docker | – | – | – | not modelled |

What is hard in it, and what correctness means:

* *Apply* sends a PATCH, then writes a row, then counts labels. Each may fail, lose its answer, be
  cancelled, or be the last thing the process does. Correct: a row never claims labels that did not
  reach Readeck; labels are only added; counts cover rows except where a lost count is known.
* *Candidates* are listed page by page while pages shift and looked up long before they are
  classified. Correct: no loaded bookmark is passed over for ever; a bookmark with a row stays as
  its user left it.
* *Signals* may come in a timer wait, a listing, between candidates or inside a request. Correct:
  the process ends, begins no call any more and writes nothing to the database; a PATCH that is on
  its way may still reach Readeck.
* *Dry runs* go through the same code. Correct: nothing is written (it is not so, see the findings).
* *The LLM* is asked again after 429 and 5xx, with growing delays. Correct: the call ends in bounded
  time if its requests have a deadline, asks for nothing in vain, and a signal ends it from every wait.
* *Texts* are cut and searched by hand: an article in runes and bytes at once, an answer with a
  counter in place of a parser's stack. Correct: no half character, not more lost than the last word that fits, and the
  JSON value of the answer, the whole of it and nothing more.
* *A start* may meet another start on the same fresh database, or die among the migrations.
  Correct: no command ever runs on half a schema or with a config out of range, and a database is
  never spoiled for good. The daemon's delay is arithmetic on unchecked flags.
* *Collections* are reconciled from one listing per pass. Correct: no process duplicates what it
  made, convergence, silence afterwards, hands off what is not in the config. (Two processes that
  list at the same time do duplicate each other's.)

## Modules

* **`Ledger`** – the abstract specification of the two stores: labels are added to bookmarks, a user
  may take them off, a record claims only what arrived, records are forgotten at will. No
  processes, no failures. `Pipeline` implements it under the mapping `carried <- tags`,
  `removed <- untagged`, `recorded <- rows`.
* **`Call`** – the abstract specification of a call to the LLM, which is how `Pipeline` takes it: it is
  answered once and only while its context is open, or it fails. `LlmChat` implements it under the
  mapping `outcome <- Outcome`, `signalled <- cancelled`.
* **`Pipeline`** – `Classify` and `Apply` for any set of processes. One action is one request or
  one SQL statement, in the order of the code; what lies between two of them is local. The
  correspondence:

  | action | code |
  |---|---|
  | `Begin`, `ClassifyCommand`, `WipeProcessed` | the loop of `Once`; the `classify` command with its `DeleteProcessed`; `backfill --force` |
  | `CheckProcessed` … `Chat` | steps 1 to 6 of `Classify`; `Chat` also takes the branches at steps 7 to 9 |
  | `MarkLowConfidence` | step 7 |
  | `UpdateBookmarkLabels`, `MarkProcessed`, `RecordLabel` | the three writes of `Apply`, one `RecordLabel` per label |
  | `Cancel`, `Crash`, `Restart` | SIGINT/SIGTERM, death, a new process |
  | `Extract`, `UserTags`, `UserUntags`, `UserDeletes` | external: Readeck and its user |

  A request that fails may have been carried out (`UpdateBookmarkLabels`, second disjunct). A SQL
  statement either commits and succeeds or does neither. After a cancellation no request and no
  statement succeeds, but one on the wire may still reach Readeck. An LLM answer is any of
  `Answers`; the answer is filtered and normalised by `Kept`. A failed call to Readeck for the
  inventory only shortens the prompt, so it is no branch of the model. The variables `untagged` and
  `uncounted` are history: no action reads them.
* **`Runner`** – extends `Pipeline` with the processes around it: commands, passes, paging,
  candidates, the daemon's wait, signals, deaths, restarts. Its steps inside a call are Pipeline's.
  A page (`Listed`) is a slice of the loaded bookmarks, oldest first, as they are at that moment. The
  number of pages is any integer, and one page if it is not positive (`PageCap`).
* **`Reconciler`** – the collections pass of any set of processes, with a user who creates, renames,
  edits and deletes collections. It shares no state with the others (its errors are logged and
  dropped), so it is not composed with `Runner`. Readeck is taken to give every POST a new id, to
  allow two collections of one name, and to return a filter as it was sent; the order of a listing
  is open. Two groups of a config may have one name, as `validate` allows. Label names are their
  ranks in string order; `joinLabels` (`Joined`) puts in place k the least label that has k labels
  up to it, which is what sorting does (`JoinedSorts`). `made` is history: which group of which
  process a collection was created for, until it is deleted or renamed. It is kept by process, so
  `OnePerGroup` is about each process alone.
* **`LlmChat`** – one call of `Chat`: the loop, its two waits, the backoff and the signal. It opens up
  the step that `Pipeline` calls `Chat`, and so has no state in common with it. It is run as part of
  `Consult`. Time is counted in
  ticks of any length; every step adds what it takes to `elapsed`. `select` picks either of a timer
  and a context that are both ready. A request on the wire that the signal cuts short is one that
  fails after a part of its timeout. `timeout` is the one of `llm.timeout`, any integer: nothing
  validates it, and `http.Client` takes a negative one for no deadline, so that a request may last
  for ever (`Hangs`). `requests` and `elapsed` are history.
* **`ExtractJson`** – the scanner `extractJSON`, one action per branch of its loop, over a text that
  becomes known character by character. A history parser with a real stack reads along
  (`lexeme`, `nest`, `proper`), which is what the scanner is compared with.
* **`Consult`** – extends `LlmChat` to steps 5 and 6 of `Classify`: the article is truncated into the
  prompt, `Chat` is called, its answer goes through the scanner (an instance of `ExtractJson`) and is
  decoded and clamped. A text is a sequence of bytes, of which the first and the second byte of a
  character are told apart. Decoding may fail on any answer, and always does when the scanner has
  not come back with an object or found no bracket at all.
* **`Startup`** – what happens before a command has what it works with, and between the passes of
  `serve`: `Load` with its defaults and bounds, `Open`, the statements of goose (external) on the
  version table, and `NewDaemon` and `nextDelay` in arithmetic that wraps. Several processes may do
  it on one file at a time. It ends where `Runner` begins: the tables, the config and the delay are
  what `Runner` takes for given, and it shares no variable with it.
* **`MCPipeline`, `MCRunner`, `MCReconciler`, `MCConsult`, `MCStartup`** – constants for TLC.
* **`PipelineProofs`, `CountingProofs`, `RunnerProofs`, `ReconcilerProofs`, `LlmChatProofs`,
  `ExtractJsonProofs`, `StartupProofs`** – the theorems. **`OrderLemmas`** – what several of them need
  of sets of naturals: least, greatest and n-th elements, and counting up to one.

Some operators stand next to the action they vary (`PatchAnyway`, `ChatThenMark`,
`MigrateIfMissing`, …). No specification uses them: each is a plausible bug, written down to see that
the property it aims at would notice.

## Runs

| run | configuration | properties | result |
|---|---|---|---|
| `PipelineShared` | two processes (one `--dry-run`), one bookmark, two labels in four spellings, four answers, every fault, every user action, every command | `TypeOK`, `RowsBacked`, `NeverUntags`, `DryRunSparesReadeck`, `ImplementsLedger` | hold (385 000 states) |
| `RunnerAlone` | one process at a time, every subcommand, two bookmarks, pages of one, of which `serve` and `run` fetch one and the others two, every fault | `RunnerTypeOK`, `RecordedIsSettled`, `CancelledIsSilent`, `CountsCoverRows` | hold (516 000) |
| `RunnerServe` | the daemon, three bookmarks of which one has no article, one page of three, `allow_new_labels: false` with one label in the seed and one outside, every fault, deletions | `EventuallyRecorded`, `StopsWhenCancelled` | hold (65 000) |
| `ReconcilerAlone` | one process, two groups, a third name, five ids, every fault; the user creates, edits, deletes | `TypeOK`, `OnePerGroup`, `Converges` | hold (66 000) |
| `ReconcilerShared` | two processes with different orders of labels, one of them with a group twice, four ids, every fault; the user edits, renames, deletes | `Converges`, `FallsSilent`, `StaysSettled`, `PassesDeliver` | hold (116 000) |
| `Consult` | every article of five characters or fewer of one and two bytes and spaces, a limit of three; three retries, every outcome of a request, a timeout of four ticks and none; any answer with three brackets open at most; a signal at any time | `ConsultTypeOK`, `CallIsBounded`, `PromptFits`, `StopsWithTheValue`, `NothingSentInVain`, `CancelledAtOnce`, `ImplementsCall`, `Returns` | hold (198 000) |
| `Startup` | two processes, a fresh database, two migrations, four config files, five pairs of flags with durations of five bits, every fault | `TypeOK`, `UpIsSound`, `DelayInRange`, `ComesUp` | hold (36 000) |
| `PipelineDryRun` | one dry run, no faults | `DryRunWritesNothing` | violated |
| `PipelineErrors` | one process, failing statements | `ErrorMeansUnmarked` | violated |
| `RunnerStarves` | the daemon, two bookmarks, one page of one, no faults | `EventuallyRecorded` | violated |
| `ReconcilerRenames` | one process, the user renames and edits | `OthersUntouched` | violated |
| `StartupConfigured` | one process, a config with an interval, no faults | `ServesAsConfigured` | violated |

**Bounds.** `MaxUse = 2`: counts are compared with the number of rows that carry a label, of which
there are two at most; a count of two stands for "two or more". Two labels and two processes are
the least with which a `RecordLabel` loop can be cut in half and two calls can interleave; one
bookmark is enough for two processes to collide, two are needed for counts and paging, three when
one of them never succeeds and must not block its neighbours. The answers include a blank spelling,
one label in two spellings, and confidences at, above and below the threshold. `Ids` bounds the
collections ever made; the user leaves enough of them for a further pass (`Room`), so the bound
never stops the program. Two groups of one name and two processes are the least with which one
process sees what it made under the name of a group that another also has.

`Consult` keeps the three retries of the code and scales its times so that the third delay meets
the cap; `Forever` lies above the longest call that has deadlines, and is as long as a request
without one can take. Of `llm.timeout` it has a positive and a negative value: zero never gets past
the defaults. Five characters around a limit of three reach every
case of the cut: no space, a space first, last, at the limit and beyond it, and a character of two
bytes before, at and after the limit. `MaxDepth = 3` lets brackets of both kinds nest in each other
and the counter come back to one before it ends; the text itself may be of any length. The
repository has one migration; `Startup` has two, so that a process can die between them and read a
version that is neither the first nor the last. `MaxInt = 15` with jitters of 7 and 8 lies on both
sides of the overflow of `jitter*2+1`.

No run uses symmetry.

**Fairness.** A process that can take a step takes one: the program waits only for timers and for
requests, and both clients have timeouts, as long as `llm.timeout` is not negative. Extraction ends. A daemon that was stopped or died is
started again, as a service manager does; nothing else is started again by itself. Outages, signals
and deaths end at some time (`DisturbancesEnd`; in `Reconciler` also the user's edits), however
many there were: without it nothing could be promised. `RunnerStep` and `Step` are the steps of one
sequential process, so weak fairness of the whole is all that is assumed.

In `Consult` the steps of the consultation are fair, the signal is not, and neither is a request that
has no deadline and an open context (`Hangs`): `Returns` says that the call returns or hangs there.
In `Startup` each process
that ended is started again and takes its steps; failures, deaths and edits of the file go on until
`Settle`, which comes at some time.

Only the specifications `RunnerSpec`, `ConsultSpec` and `FairSpec` carry fairness; the safety runs use none.
Deadlock checking is on in every run: the program never has to stop, a command can be given again.

## What the violated runs show

* **A dry run writes rows** (`PipelineDryRun`). The label manager knows the flag, but `Classify`
  marks a low-confidence bookmark itself (`pipeline.go:178`), so a preview makes the real run skip
  it. `classify` and `backfill --force` delete rows under `--dry-run` as well.
  Collections are written in a dry run too: neither `Once` (`once.go:31`, on by default) nor
  `collections sync` (`cli.go:282-294`) looks at the flag, so in `Reconciler` there is no flag.
* **An error can leave a bookmark marked** (`PipelineErrors`). The row is written before the counts,
  and a failing count is returned as the error of `Classify`; the doc of `Classify` says that after
  an error the bookmark is not marked. Nothing retries the count.
* **The daemon starves** (`RunnerStarves`). It asks for one page, oldest first. Once that page is
  all processed, a bookmark beyond it is never listed. `RunnerServe` shows that with a page as long
  as the list everything else about the loop is right.
* **A renamed collection is renamed back** (`ReconcilerRenames`), when the rename comes between the
  listing and the PATCH of a pass.
* **serve does not read its config** (`StartupConfigured`). `runner.interval` and `runner.jitter` are
  defaulted and validated, and then `serve` passes its flags to the daemon, whose defaults hide the
  file's values.

## Proofs

All proved for any number of processes, bookmarks, labels and answers, any set of faults, from the
named assumptions on the constants in the modules.

`PipelineProofs`:

* `TypeCorrect` – `TypeOK` is inductive, one lemma per step.
* `RowsAreBacked` – `RowsBacked` is not inductive: `MarkProcessed` writes what its process holds.
  The strengthening `BackedInv` adds that what a process holds when it is about to mark is on the
  bookmark or was taken off by a user since. It is established by the PATCH, kept by the additive
  server, and lost with the process.
* `Additive`, `DryRunIsSafe` – action properties from the type invariant; the second with `DryInv`:
  a dry run never gets to a write of `Apply`.
* `AloneIsSettled` – for one process, from `AloneInv`: past its check, the bookmark of the call has
  no row until the call writes it. With two processes this is false, and not claimed.
* `PipelineImplementsLedger` – every step is a step of `Ledger` or leaves its variables alone.

`CountingProofs`: `CountsCover`, for finitely many processes and bookmarks, and counts that may
reach the number of bookmarks. The invariant compares two cardinalities; each step either takes
rows away, adds a row together with the count that its process still owes (`Marks`), or pays that
count (`Counts`), and the theorems on finite sets say what each does to both sides.

`RunnerProofs`: `RunnerImplementsPipeline` shows `RunnerSafety => Spec`, with one invariant (what is
about to be classified is a bookmark, `PassTyped`), so the theorems above carry over to the whole
program: `RunnerRowsAreBacked`, `RunnerIsAdditive`, `RunnerCountsCover`, `RunnerAloneIsSettled`, and
`RunnerImplementsLedger`, the refinement of the abstract stores by the whole program.
`RunnerTypeCorrect` is `PassTyped` with the pipeline's types. `RunnerCancelledIsSilent` follows
the process that was cancelled: no command, page, lookup or candidate is begun without an open
context, and every statement that is left asks for one. That a listing or a wait finds no call open
is an invariant of its own (`PassRests`). The theorem leaves the PATCH that is on its way: it may
arrive, with the labels the call held, and no row is written for it.
`PagesCoverTheList` is about the paging itself: while the listing does not change, every loaded
bookmark is in exactly one place of one page, and no page before it is empty. It is `NthElement`
with a division, found as the least page that reaches far enough.

`ReconcilerProofs`: `GroupsHaveOneCollection`, of each process alone, for any processes, groups and users. `CreateInv` says
what a snapshot still tells while time goes on: an id it lists was used and keeps its name unless a
user renamed or deleted it (`SnapshotHolds`), and a group whose name was missing has no collection
until the walk has come past the group (`MissingStillMissing`), which holds of two groups of one
name as well, since each makes its own. `ReconcilerTypeCorrect` adds the filters.
`SettledStaysSettled`: `Settled` relates what is on Readeck to every group of every process and to
every snapshot still in use, and is kept by each step of a process, since each comparison comes out
equal; it needs the types and nothing else, and says nothing before all is settled, which only
`Converges` and `FallsSilent` reach. Two groups of one name with different labels can never be
settled, and the theorem says so by saying nothing of them. `JoinedSorts` and `JoinedIgnoresOrder` say
that `joinLabels` sorts, and that two orders of one list of labels give one filter.

`PassesDoDeliver` is what can be proved of convergence without fairness, for configs that agree on
the labels of the names they share (`Agreed`, a condition on constants that both runs meet). A walk is
on its course when the groups it has passed are in sync, and its snapshot is good enough for the
others: an id it is about to look at still has its name, and the right labels if the snapshot says so.
No step of any process takes a walk off its course; that needs all walks to be on theirs, since a
PATCH carries the name of its snapshot and renames what a user has renamed (`OthersUntouched`). So only
a user can keep a pass that comes to its end from leaving its config in sync.

`LlmChatProofs`, for any number of retries, delays, cap and timeouts: `ChatIsBounded`, which promises
something for positive timeouts only, rests on `CountInv`, which counts one request for each attempt so far and one delay for each attempt but the
first; the bound alone is not inductive, as it does not say how much of it is used up. The same
invariant says that a further attempt follows a retryable outcome only (`ChatSendsNothingInVain`).
`ChatCancelledAtOnce` needs no invariant. `ChatGoesForward` gives the variant that `Returns` rests on
(four steps to an attempt, each lower than the last), and `ChatReturnsItsAnswer` what a return means.
`ChatImplementsCall` maps each step to a step of `Call` or a stutter; `ConsultImplementsChat` shows
that a consultation takes the steps of `Chat` only, so that all of this holds of it too
(`ConsultIsACall`). `ConsultStopsWithTheValue` carries the theorem on the scanner, below, over to it.
`TruncateFits` says exactly what `Truncate` returns for every text and every limit: the text if it
fits; otherwise the text up to the last space among its first characters, as many as the limit has, or
just these if none is a space, with no character of two bytes cut in half. `ConsultPromptFits` is that
of every prompt a consultation sends, and `ConsultTyped` the types of a consultation, the clamped confidence among them.

`ExtractJsonProofs`: `ScannerStopsWithTheValue`, for texts of any length and depth. As long as the text
is JSON, the scanner's two flags are the parser's lexeme and its counter is the number of brackets of
the first kind among those that are open; the first bracket lies at the bottom of the stack, so the
counter is zero exactly when the stack is empty.

`StartupProofs`, for any processes, files, number of migrations and width of a duration:
`StartupTypeCorrect`, `CommandsStartSound` and `DaemonDelaysInRange`. `Inv` says that the version and the
tables agree between any two statements (`Transacted`), and what a process may rely on at each place
(`Relied`): versions only grow, so what another process does cannot take it away.

`OrderLemmas`: induction enters the proofs here, as the well-foundedness of `<` on `Nat` (a set of
naturals has a least element) and in the library's theorems on finite sets. That is why the model
says "the least", "the n-th" and "how many" where the code has a loop that counts: a rune of a byte
offset, a place on a page, a place in a sorted list.

Only model-checked: everything under fairness (`EventuallyRecorded`, `StopsWhenCancelled`,
`Converges`, `FallsSilent`, `Returns`, `ComesUp`), which is beyond TLAPS here. `PassesDoDeliver`,
`SettledStaysSettled` and `ChatGoesForward` are the parts of it that are not about time. Every invariant and
every action property that a passing run checks is a theorem, and so are the two refinements.

## Not modelled

Timestamps, models and the encoding of rows; logging and summaries; the wording of prompts and
errors, and the regular expression that takes thinking tags out of an answer; the syntax of YAML
and of `${NAME}`; the merge of the label inventory, which only feeds a prompt; `labels list`, `labels
prune` (which deletes nothing yet), `config validate`, `version`; the Link header walk of
`ListBookmarksAll`, which nothing calls; blank labels in a group, for which the filter would be empty; a PATCH or POST that the server carries
out only after its request has timed out, so after the process has seen it fail and gone on: in the
model what a failed request does is done when it fails.

Met on the way, and stated by no property: `classifier.max_labels_per_bookmark`, `prefer_existing_labels`
and `llm.temperature` are read from the config and have no effect (`classifier.go:250-304`,
`pipeline.go:155`), and the prompt never names the configured collections (`pipeline.go:138-143`). With
`allow_new_labels: false` and no seed every answer is emptied. A config with two groups of one name
and different labels makes the reconciler write twice in every pass, for ever.

Also met, and bounding what the properties say:

* Two processes that both list before either POSTs make two collections of one group
  (`reconciler.go:63-71`), where `config.go:111` speaks of "a single Readeck collection". `OnePerGroup` is
  therefore about one process, and with two only the convergence of what is there is checked.
* `Truncate` drops the last word also when it ends exactly at the limit: of "a bc d" and four characters
  it keeps "a", where `truncate.go:7-9` promises the longest prefix that ends at a word; and of
  " abcdef" it keeps nothing. `PromptFits` and `TruncateFits` state what the code does.
* `validate` checks `readeck.timeout` (`config.go:285`) and not `llm.timeout`. A negative one gives
  requests without a deadline, and a server that does not answer holds the process until a signal.

## Plan

Done, in this order: `Ledger`, `Pipeline`, `Runner`, `Reconciler`, `LlmChat`, and their first proofs; then
`Call`, `ExtractJson`, `Consult` and `Startup` with theirs, counts and cancellation proved, and groups of
one name in `Reconciler`; then the rest of the safety properties proved, `joinLabels`, `Truncate` and
the paging for every input, and what has settled in `Reconciler`.
Next:

1. Proofs: the safety half of what the other runs check under fairness, as `PassesDoDeliver` and
   `ChatGoesForward` are for `Reconciler` and `LlmChat`: a variant for a consultation, for a process
   that was signalled, and for a start of `Startup` that nothing disturbs.
2. `Inventory` of the label manager against a reference definition, with the policy of
   `allow_new_labels` (only the seed counts as known, while the prompt offers the whole inventory).
3. `Paging` (Link headers), once something calls it.
