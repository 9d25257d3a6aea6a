------------------------------ MODULE Startup ------------------------------
(***************************************************************************)
(* From the start of a process to the moment its command has what it works  *)
(* with, and the waits of the daemon that follow: the config is loaded      *)
(* (internal/config), the state database is opened and brought up to date   *)
(* (internal/state/store.go), everything is wired together                  *)
(* (internal/runner/app.go), and serve waits between its passes             *)
(* (internal/runner/daemon.go).  Several processes may start on one         *)
(* database file, and any of them may die between two statements.           *)
(*                                                                         *)
(* Runner takes all of this to have happened when it starts a command.      *)
(***************************************************************************)
EXTENDS Integers

CONSTANTS
    Processes,
    Files,          \* the config files a user may write
    Default,        \* the Default... constants of config.go, by field
    Defects,        \* what can be wrong with a file besides its numbers
    FlagDefault,    \* the interval and the jitter of serve without its flags
    FlagsGiven,     \* intervals and jitters a user may give as flags
    Migrations,     \* how many migrations the program carries
    MaxInt,         \* the greatest value of a time.Duration
    Unreliable,     \* what may fail, of Disturbances
    NoTable         \* the database has no table of versions

Fields == {"readeckTimeout", "pageSize", "llmTimeout", "temperature", "maxInputChars",
           "maxLabels", "minConfidence", "interval", "jitter"}

Disturbances == {"store", "crash", "edit"}

MinInt == -MaxInt - 1

ASSUME FilesAssumption == Files \subseteq [values : [Fields -> Int], defects : SUBSET Defects]

ASSUME DefaultAssumption == Default \in [Fields -> Int]

ASSUME MigrationsAssumption == Migrations \in Nat /\ NoTable \notin Int

ASSUME DurationAssumption ==
    /\ MaxInt \in Nat
    /\ FlagsGiven \cup {FlagDefault} \subseteq
          [interval : MinInt .. MaxInt, jitter : MinInt .. MaxInt]
    /\ FlagDefault.interval > 0

VARIABLES
    file,       \* the config file
    schema,     \* SQLite: the migrations whose tables are there
    version,    \* SQLite, goose_db_version: the last migration, or NoTable
    pc,         \* where each process is
    config,     \* what it loaded
    seen,       \* the version it read last
    flags,      \* the flags of serve, once it serves
    delay,      \* what the daemon's timer was set to
    settled     \* nothing is disturbed from now on

database == <<schema, version>>
processVars == <<pc, config, seen, flags, delay>>
vars == <<file, schema, version, pc, config, seen, flags, delay, settled>>

Starting == {"open", "table", "create", "current", "migrate"}

Up == {"up", "pass", "wait"}

(* The places are on the way to a command that runs, and in the daemon.      *)
TypeOK ==
    /\ file \in Files
    /\ schema \in 0 .. Migrations
    /\ version \in {NoTable} \cup 0 .. Migrations
    /\ pc \in [Processes -> {"off"} \cup Starting \cup Up]
    /\ config \in [Processes -> [Fields -> Int]]
    /\ seen \in [Processes -> 0 .. Migrations]
    /\ flags \in [Processes -> FlagsGiven \cup {FlagDefault}]
    /\ delay \in [Processes -> 0 .. MaxInt]
    /\ settled \in BOOLEAN

Init ==
    /\ file \in Files
    /\ schema = 0
    /\ version = NoTable
    /\ pc = [p \in Processes |-> "off"]
    /\ config = [p \in Processes |-> Default]
    /\ seen = [p \in Processes |-> 0]
    /\ flags = [p \in Processes |-> FlagDefault]
    /\ delay = [p \in Processes |-> 0]
    /\ settled = FALSE

-----------------------------------------------------------------------------
(* The config.                                                              *)

(* A zero is taken for a field that was left out.                            *)
ApplyDefaults(values) ==
    [f \in Fields |-> IF values[f] = 0 THEN Default[f] ELSE values[f]]

AtLeast ==
    [readeckTimeout |-> 0, pageSize |-> 1, temperature |-> 0, maxInputChars |-> 1,
     maxLabels |-> 1, minConfidence |-> 0, interval |-> 1, jitter |-> 0]

AtMost == [temperature |-> 200, minConfidence |-> 100]

Valid(values) ==
    /\ \A f \in DOMAIN AtLeast : values[f] >= AtLeast[f]
    /\ \A f \in DOMAIN AtMost : values[f] <= AtMost[f]

(* A file that cannot be read or parsed, names a variable that is not set,   *)
(* lacks a required field or has an empty group, does not load.              *)
Loads(f) == f.defects = {} /\ Valid(ApplyDefaults(f.values))

-----------------------------------------------------------------------------
Goto(p, where) ==
    /\ pc' = [pc EXCEPT ![p] = where]
    /\ UNCHANGED <<config, flags, delay>>

(* The process ends, its database handle with it.                            *)
Exit(p) ==
    /\ pc' = [pc EXCEPT ![p] = "off"]
    /\ config' = [config EXCEPT ![p] = Default]
    /\ seen' = [seen EXCEPT ![p] = 0]
    /\ flags' = [flags EXCEPT ![p] = FlagDefault]
    /\ delay' = [delay EXCEPT ![p] = 0]

(* A command is given: its config loads, or the process is over at once.     *)
Load(p) ==
    /\ pc[p] = "off" /\ Loads(file)
    /\ pc' = [pc EXCEPT ![p] = "open"]
    /\ config' = [config EXCEPT ![p] = ApplyDefaults(file.values)]
    /\ UNCHANGED <<file, database, seen, flags, delay, settled>>

(* The directory, the file and the ping.                                     *)
Open(p) ==
    /\ pc[p] = "open"
    /\ Goto(p, "table")
    /\ UNCHANGED <<file, database, seen, settled>>

(* goose.Up: is there a table of versions?                                   *)
EnsureDBVersion(p) ==
    /\ pc[p] = "table"
    /\ Goto(p, IF version = NoTable THEN "create" ELSE "current")
    /\ UNCHANGED <<file, database, seen, settled>>

(* Another process may have made it meanwhile: then CREATE TABLE fails.      *)
CreateVersionTable(p) ==
    /\ pc[p] = "create"
    /\ IF version = NoTable
       THEN version' = 0 /\ Goto(p, "current") /\ UNCHANGED seen
       ELSE Exit(p) /\ UNCHANGED version
    /\ UNCHANGED <<file, schema, settled>>

(* goose.Up's loop: what is the last migration, and is there another?        *)
GetDBVersion(p) ==
    /\ pc[p] = "current"
    /\ seen' = [seen EXCEPT ![p] = version]
    /\ Goto(p, IF version = Migrations THEN "up" ELSE "migrate")
    /\ UNCHANGED <<file, database, settled>>

(* One migration is one transaction: its tables and its version, or neither. *)
(* Its tables are there already if another process was faster.               *)
MigrateUntransacted(p) ==
    /\ pc[p] = "migrate"
    /\ \/ /\ schema = seen[p] /\ schema' = schema + 1 /\ version' = schema + 1
          /\ Goto(p, "current") /\ UNCHANGED seen
       \/ schema = seen[p] /\ schema' = schema + 1 /\ UNCHANGED version /\ Exit(p)
       \/ schema > seen[p] /\ UNCHANGED database /\ Exit(p)
    /\ UNCHANGED <<file, settled>>

MigrateIfMissing(p) ==
    /\ pc[p] = "migrate"
    /\ IF schema = seen[p]
       THEN schema' = schema + 1 /\ version' = schema + 1 /\ Goto(p, "current") /\ UNCHANGED seen
       ELSE UNCHANGED database /\ Goto(p, "up") /\ UNCHANGED seen
    /\ UNCHANGED <<file, settled>>

Migrate(p) ==
    /\ pc[p] = "migrate"
    /\ IF schema = seen[p]
       THEN schema' = schema + 1 /\ version' = schema + 1 /\ Goto(p, "current") /\ UNCHANGED seen
       ELSE UNCHANGED database /\ Exit(p)
    /\ UNCHANGED <<file, settled>>

-----------------------------------------------------------------------------
(* What follows: any command but serve does its work and closes the store.   *)

Finish(p) ==
    /\ pc[p] = "up"
    /\ Exit(p)
    /\ UNCHANGED <<file, database, settled>>

(* serve takes the interval and the jitter of its flags.                     *)
Serve(p) ==
    /\ pc[p] = "up"
    /\ flags' \in {[flags EXCEPT ![p] = f] : f \in FlagsGiven \cup {FlagDefault}}
    /\ pc' = [pc EXCEPT ![p] = "pass"]
    /\ UNCHANGED <<file, database, config, seen, delay, settled>>

(* NewDaemon puts right what makes no sense.                                 *)
Every(p) == IF flags[p].interval <= 0 THEN FlagDefault.interval ELSE flags[p].interval

Jitter(p) == IF flags[p].jitter < 0 THEN 0 ELSE flags[p].jitter

(* int64 arithmetic, for sums that overflow once at most.                    *)
Wrapped(n) ==
    CASE n > MaxInt -> n - 2 * (MaxInt + 1)
      [] n < MinInt -> n + 2 * (MaxInt + 1)
      [] OTHER -> n

(* rand.Int64N panics unless its argument is positive.                       *)
Range(p) == Wrapped(2 * Jitter(p) + 1)

Unclamped(n) == n

Clamped(n) == IF n < 0 THEN 0 ELSE n

NextDelay(p, random) == Clamped(Wrapped(Every(p) + (random - Jitter(p))))

(* A pass is over, and the timer is set; or nextDelay panics.                *)
Wait(p) ==
    /\ pc[p] = "pass"
    /\ \/ \E random \in 0 .. Range(p) - 1 :
             /\ delay' = [delay EXCEPT ![p] = NextDelay(p, random)]
             /\ pc' = [pc EXCEPT ![p] = "wait"]
             /\ UNCHANGED <<config, seen, flags>>
       \/ Range(p) <= 0 /\ Exit(p)
    /\ UNCHANGED <<file, database, settled>>

Tick(p) ==
    /\ pc[p] = "wait"
    /\ pc' = [pc EXCEPT ![p] = "pass"]
    /\ delay' = [delay EXCEPT ![p] = 0]
    /\ UNCHANGED <<file, database, config, seen, flags, settled>>

-----------------------------------------------------------------------------
(* What may happen meanwhile, until things settle.                           *)

(* MkdirAll, Ping or a statement of goose fails, SQLITE_BUSY among others.   *)
Fails(p) ==
    /\ "store" \in Unreliable /\ ~settled
    /\ pc[p] \in Starting
    /\ Exit(p)
    /\ UNCHANGED <<file, database, settled>>

(* A signal that ends the daemon, or death at any point.                     *)
Dies(p) ==
    /\ "crash" \in Unreliable /\ ~settled
    /\ pc[p] # "off"
    /\ Exit(p)
    /\ UNCHANGED <<file, database, settled>>

UserEdits ==
    /\ "edit" \in Unreliable /\ ~settled
    /\ file' \in Files
    /\ UNCHANGED <<database, processVars, settled>>

Settle ==
    /\ ~settled /\ settled' = TRUE
    /\ UNCHANGED <<file, database, processVars>>

-----------------------------------------------------------------------------
Step(p) ==
    \/ Load(p) \/ Open(p)
    \/ EnsureDBVersion(p) \/ CreateVersionTable(p) \/ GetDBVersion(p) \/ Migrate(p)
    \/ Finish(p) \/ Serve(p) \/ Wait(p) \/ Tick(p)

(* No command can start with a file that does not load.                      *)
NothingStarts == ~Loads(file) /\ settled /\ UNCHANGED vars

Next ==
    \/ \E p \in Processes : Step(p) \/ Fails(p) \/ Dies(p)
    \/ UserEdits \/ Settle \/ NothingStarts

Spec == Init /\ [][Next]_vars

(* Fairness: a process that has ended is started again, by a service manager *)
(* or by hand, each process takes its steps, and disturbances end.           *)
FairSpec == Spec /\ WF_vars(Settle) /\ \A p \in Processes : WF_vars(Step(p))

-----------------------------------------------------------------------------
(* Properties.                                                               *)

(* A command that runs has every table it will use, and a config that keeps  *)
(* what the other modules assume of it (Runner: PagesAssumption, Consult:    *)
(* ConsultAssumption; a threshold an answer can reach), also when processes  *)
(* race for the migrations or die among them (store.go:63-65).               *)
UpIsSound ==
    \A p \in Processes : pc[p] \in Up =>
        /\ schema = Migrations /\ version = Migrations
        /\ config[p].pageSize > 0 /\ config[p].maxInputChars > 0
        /\ config[p].minConfidence \in 0 .. 100

(* No accident spoils the database for good: with a config that loads, every *)
(* process that is started often enough comes up.                            *)
ComesUp ==
    []<>Loads(file) => \A p \in Processes : []<>(pc[p] \in Up)

(* The daemon waits its interval, give or take the jitter, and never less    *)
(* than nothing, as long as their sum can be written (daemon.go:78-79).      *)
DelayInRange ==
    \A p \in Processes : pc[p] = "wait" /\ Every(p) + Jitter(p) <= MaxInt =>
        /\ delay[p] >= 0
        /\ delay[p] \in Every(p) - Jitter(p) .. Every(p) + Jitter(p)

(* What configs/readeckorator.example.yaml:84-86 says: the interval and the  *)
(* jitter of the file are those of serve.                                    *)
ServesAsConfigured ==
    \A p \in Processes : pc[p] = "wait" /\ flags[p] = FlagDefault =>
        delay[p] \in config[p].interval - config[p].jitter .. config[p].interval + config[p].jitter
=============================================================================
