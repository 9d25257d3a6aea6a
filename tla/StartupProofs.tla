--------------------------- MODULE StartupProofs ---------------------------
(***************************************************************************)
(* Startup, for any processes, config files, number of migrations and width *)
(* of a duration: the types, that a command only runs on a database that is *)
(* up to date with a config that validate has passed, and the daemon's      *)
(* delay.                                                                   *)
(***************************************************************************)
EXTENDS Startup, TLAPS

(* The tables of the database are those of the version it states.            *)
Transacted == IF version = NoTable THEN schema = 0 ELSE schema = version

(* What a process may rely on, from the step it has taken.                   *)
Relied(p) ==
    /\ pc[p] \in {"current", "migrate"} \cup Up => version # NoTable
    /\ pc[p] = "migrate" => seen[p] < Migrations /\ seen[p] <= version
    /\ pc[p] \in Up => version = Migrations
    /\ pc[p] # "off" => Valid(config[p])

Inv == TypeOK /\ Transacted /\ \A p \in Processes : Relied(p)

-----------------------------------------------------------------------------
(* nextDelay: its random term is at most twice the jitter, or there is none, *)
(* and what it returns can be waited for.                                    *)
LEMMA DelayFits ==
    ASSUME NEW every \in 1 .. MaxInt, NEW jitter \in 0 .. MaxInt,
           NEW random \in 0 .. Wrapped(2 * jitter + 1) - 1
    PROVE  LET delay_ == Clamped(Wrapped(every + (random - jitter)))
           IN  /\ delay_ \in 0 .. MaxInt
               /\ every + jitter <= MaxInt => delay_ \in every - jitter .. every + jitter
<1>1. MaxInt \in Nat
  BY DurationAssumption
<1>2. random \in Int /\ 0 <= random /\ random <= 2 * jitter
  BY <1>1 DEF Wrapped, MinInt
<1>3. every + (random - jitter) \in Int /\ every + (random - jitter) > MinInt
  BY <1>1, <1>2 DEF MinInt
<1>4. /\ every + (random - jitter) <= every + jitter
      /\ every + (random - jitter) >= every - jitter
  BY <1>1, <1>2
<1> QED
  BY <1>1, <1>2, <1>3, <1>4 DEF Wrapped, Clamped, MinInt

(* What NewDaemon makes of any flags.                                        *)
LEMMA FlagsFit ==
    ASSUME TypeOK, NEW p \in Processes
    PROVE  Every(p) \in 1 .. MaxInt /\ Jitter(p) \in 0 .. MaxInt
<1>1. /\ MaxInt \in Nat
      /\ FlagDefault.interval \in MinInt .. MaxInt /\ FlagDefault.interval > 0
      /\ flags[p].interval \in MinInt .. MaxInt /\ flags[p].jitter \in MinInt .. MaxInt
  BY DurationAssumption DEF TypeOK
<1> QED
  BY <1>1 DEF Every, Jitter, MinInt

LEMMA NextDelayFits ==
    ASSUME TypeOK, NEW p \in Processes, NEW random \in 0 .. Range(p) - 1
    PROVE  /\ NextDelay(p, random) \in 0 .. MaxInt
           /\ Every(p) + Jitter(p) <= MaxInt =>
                 NextDelay(p, random) \in Every(p) - Jitter(p) .. Every(p) + Jitter(p)
<1>1. Every(p) \in 1 .. MaxInt /\ Jitter(p) \in 0 .. MaxInt
  BY FlagsFit
<1> QED
  BY <1>1, DelayFits DEF Range, NextDelay

LEMMA AppliedDefaults ==
    ASSUME TypeOK PROVE ApplyDefaults(file.values) \in [Fields -> Int]
<1>1. file.values \in [Fields -> Int]
  BY FilesAssumption DEF TypeOK
<1> QED
  BY <1>1, DefaultAssumption DEF ApplyDefaults

-----------------------------------------------------------------------------
LEMMA InitInv == Init => Inv
<1> SUFFICES ASSUME Init PROVE Inv
  OBVIOUS
<1>1. TypeOK
  <2>1. /\ config \in [Processes -> [Fields -> Int]] /\ schema \in 0 .. Migrations
        /\ seen \in [Processes -> 0 .. Migrations] /\ delay \in [Processes -> 0 .. MaxInt]
    BY DefaultAssumption, MigrationsAssumption, DurationAssumption DEF Init
  <2>2. /\ pc \in [Processes -> {"off"} \cup Starting \cup Up]
        /\ flags \in [Processes -> FlagsGiven \cup {FlagDefault}]
        /\ file \in Files /\ version = NoTable /\ settled \in BOOLEAN
    BY DEF Init
  <2> QED
    BY <2>1, <2>2 DEF TypeOK
<1>2. Transacted
  BY DEF Init, Transacted
<1>3. \A p \in Processes : Relied(p)
  BY DEF Init, Relied, Up
<1> QED
  BY <1>1, <1>2, <1>3 DEF Inv

(* A process that ends relies on nothing, and disturbs no other.             *)
LEMMA ExitKeeps ==
    ASSUME Inv, NEW p \in Processes, Exit(p),
           file' = file, schema' = schema, version' = version, settled' = settled
    PROVE  Inv'
<1>1. TypeOK'
  BY DefaultAssumption, MigrationsAssumption, DurationAssumption DEF Inv, TypeOK, Exit
<1>2. Transacted'
  BY DEF Inv, Transacted
<1>3. ASSUME NEW q \in Processes PROVE Relied(q)'
  BY DEF Inv, TypeOK, Relied, Exit, Up, Valid
<1> QED
  BY <1>1, <1>2, <1>3 DEF Inv

LEMMA StepInv ==
    ASSUME Inv, NEW p \in Processes, Step(p)
    PROVE  Inv'
<1> USE DEF Goto
<1>a. /\ TypeOK /\ Transacted /\ \A q \in Processes : Relied(q)
      /\ Migrations \in Nat /\ NoTable \notin Int /\ MaxInt \in Nat
  BY MigrationsAssumption, DurationAssumption DEF Inv
<1>1. CASE Load(p)
  <2>1. TypeOK'
    BY <1>1, <1>a, AppliedDefaults DEF Load, TypeOK, database, Starting
  <2>2. Transacted'
    BY <1>1, <1>a DEF Load, Transacted, database
  <2>3. ASSUME NEW q \in Processes PROVE Relied(q)'
    BY <1>1, <1>a DEF Load, Loads, Relied, TypeOK, database, Up, Valid
  <2> QED
    BY <2>1, <2>2, <2>3 DEF Inv
<1>2. CASE Open(p) \/ EnsureDBVersion(p)
  <2>1. TypeOK'
    BY <1>2, <1>a DEF Open, EnsureDBVersion, TypeOK, database, Starting
  <2>2. Transacted'
    BY <1>2, <1>a DEF Open, EnsureDBVersion, Transacted, database
  <2>3. ASSUME NEW q \in Processes PROVE Relied(q)'
    BY <1>2, <1>a DEF Open, EnsureDBVersion, Relied, TypeOK, database, Up, Valid
  <2> QED
    BY <2>1, <2>2, <2>3 DEF Inv
<1>3. CASE CreateVersionTable(p)
  <2>1. CASE version = NoTable
    <3>1. TypeOK'
      BY <1>3, <2>1, <1>a DEF CreateVersionTable, TypeOK, Starting
    <3>2. Transacted'
      BY <1>3, <2>1, <1>a DEF CreateVersionTable, Transacted
    <3>3. ASSUME NEW q \in Processes PROVE Relied(q)'
      BY <1>3, <2>1, <1>a DEF CreateVersionTable, Relied, TypeOK, Up, Valid
    <3> QED
      BY <3>1, <3>2, <3>3 DEF Inv
  <2>2. CASE version # NoTable
    BY <1>3, <2>2, ExitKeeps DEF CreateVersionTable
  <2> QED
    BY <2>1, <2>2
<1>4. CASE GetDBVersion(p)
  <2>1. version \in 0 .. Migrations
    BY <1>4, <1>a DEF GetDBVersion, Relied, TypeOK
  <2>2. TypeOK'
    BY <1>4, <1>a, <2>1 DEF GetDBVersion, TypeOK, database, Starting, Up
  <2>3. Transacted'
    BY <1>4, <1>a DEF GetDBVersion, Transacted, database
  <2>4. ASSUME NEW q \in Processes PROVE Relied(q)'
    <3>1. version # NoTable
      BY <2>1, <1>a
    <3>2. CASE q = p
      BY <1>4, <1>a, <2>1, <3>1, <3>2 DEF GetDBVersion, Relied, TypeOK, database, Up, Valid
    <3>3. CASE q # p
      BY <1>4, <1>a, <3>3 DEF GetDBVersion, Relied, TypeOK, database, Up, Valid
    <3> QED
      BY <3>2, <3>3
  <2> QED
    BY <2>2, <2>3, <2>4 DEF Inv
<1>5. CASE Migrate(p)
  <2>1. CASE schema = seen[p]
    <3>1. version = schema /\ schema < Migrations /\ schema \in Nat
      BY <1>5, <2>1, <1>a DEF Migrate, Relied, Transacted, TypeOK
    <3>2. TypeOK'
      BY <1>5, <2>1, <1>a, <3>1 DEF Migrate, TypeOK, Starting
    <3>3. Transacted'
      BY <1>5, <2>1, <1>a, <3>1 DEF Migrate, Transacted
    <3>4. ASSUME NEW q \in Processes PROVE Relied(q)'
      BY <1>5, <2>1, <1>a, <3>1 DEF Migrate, Relied, TypeOK, Up, Valid
    <3> QED
      BY <3>2, <3>3, <3>4 DEF Inv
  <2>2. CASE schema # seen[p]
    BY <1>5, <2>2, ExitKeeps DEF Migrate, database
  <2> QED
    BY <2>1, <2>2
<1>6. CASE Finish(p)
  BY <1>6, ExitKeeps DEF Finish, database
<1>7. CASE Serve(p)
  <2>1. TypeOK'
    BY <1>7, <1>a DEF Serve, TypeOK, database, Up
  <2>2. Transacted'
    BY <1>7, <1>a DEF Serve, Transacted, database
  <2>3. ASSUME NEW q \in Processes PROVE Relied(q)'
    BY <1>7, <1>a DEF Serve, Relied, TypeOK, database, Up, Valid
  <2> QED
    BY <2>1, <2>2, <2>3 DEF Inv
<1>8. CASE Wait(p)
  <2>1. ASSUME NEW random \in 0 .. Range(p) - 1,
               delay' = [delay EXCEPT ![p] = NextDelay(p, random)],
               pc' = [pc EXCEPT ![p] = "wait"],
               UNCHANGED <<config, seen, flags>>
        PROVE  Inv'
    <3>1. NextDelay(p, random) \in 0 .. MaxInt
      BY <1>a, NextDelayFits
    <3>2. TypeOK'
      BY <1>8, <1>a, <2>1, <3>1 DEF Wait, TypeOK, database, Up
    <3>3. Transacted'
      BY <1>8, <1>a DEF Wait, Transacted, database
    <3>4. ASSUME NEW q \in Processes PROVE Relied(q)'
      BY <1>8, <1>a, <2>1 DEF Wait, Relied, TypeOK, database, Up, Valid
    <3> QED
      BY <3>2, <3>3, <3>4 DEF Inv
  <2>2. CASE Exit(p)
    BY <1>8, <2>2, ExitKeeps DEF Wait, database
  <2> QED
    BY <1>8, <2>1, <2>2 DEF Wait
<1>9. CASE Tick(p)
  <2>1. TypeOK'
    BY <1>9, <1>a DEF Tick, TypeOK, database, Up
  <2>2. Transacted'
    BY <1>9, <1>a DEF Tick, Transacted, database
  <2>3. ASSUME NEW q \in Processes PROVE Relied(q)'
    BY <1>9, <1>a DEF Tick, Relied, TypeOK, database, Up, Valid
  <2> QED
    BY <2>1, <2>2, <2>3 DEF Inv
<1> QED
  BY <1>1, <1>2, <1>3, <1>4, <1>5, <1>6, <1>7, <1>8, <1>9 DEF Step

LEMMA NextInv == Inv /\ [Next]_vars => Inv'
<1> SUFFICES ASSUME Inv, [Next]_vars PROVE Inv'
  OBVIOUS
<1>1. ASSUME NEW p \in Processes, Step(p) PROVE Inv'
  BY <1>1, StepInv
<1>2. ASSUME NEW p \in Processes, Fails(p) \/ Dies(p) PROVE Inv'
  BY <1>2, ExitKeeps DEF Fails, Dies, database
<1>3. CASE UserEdits \/ Settle
  <2>1. TypeOK'
    BY <1>3 DEF Inv, UserEdits, Settle, TypeOK, database, processVars
  <2>2. Transacted' /\ \A p \in Processes : Relied(p)'
    BY <1>3 DEF Inv, UserEdits, Settle, Transacted, Relied, Valid, database, processVars
  <2> QED
    BY <2>1, <2>2 DEF Inv
<1>4. CASE NothingStarts \/ UNCHANGED vars
  BY <1>4 DEF NothingStarts, vars, Inv, TypeOK, Transacted, Relied, Valid
<1> QED
  BY <1>1, <1>2, <1>3, <1>4 DEF Next

LEMMA Invariance == Spec => []Inv
BY InitInv, NextInv, PTL DEF Spec

-----------------------------------------------------------------------------
(* Every reachable state is well typed, for any processes, files, migrations *)
(* and durations.                                                            *)
THEOREM StartupTypeCorrect == Spec => []TypeOK
<1>1. Inv => TypeOK
  BY DEF Inv
<1> QED
  BY <1>1, Invariance, PTL

(* However many processes race for the migrations, die or fail among them    *)
(* and whatever the user does to the file, a command only runs on the whole  *)
(* schema and with a config that is in range.                                *)
THEOREM CommandsStartSound == Spec => []UpIsSound
<1>1. Inv => UpIsSound
  <2> SUFFICES ASSUME Inv, NEW p \in Processes, pc[p] \in Up
               PROVE  /\ schema = Migrations /\ version = Migrations
                      /\ config[p].pageSize > 0 /\ config[p].maxInputChars > 0
                      /\ config[p].minConfidence \in 0 .. 100
    BY DEF UpIsSound
  <2>1. schema = Migrations /\ version = Migrations
    BY DEF Inv, Transacted, Relied
  <2>2. Valid(config[p]) /\ config[p] \in [Fields -> Int]
    BY DEF Inv, TypeOK, Relied, Up
  <2>3. config[p].pageSize >= 1 /\ config[p].maxInputChars >= 1 /\ config[p].minConfidence >= 0
    BY <2>2 DEF Valid, AtLeast
  <2>4. config[p].minConfidence <= 100
    BY <2>2 DEF Valid, AtMost
  <2>5. /\ config[p].pageSize \in Int /\ config[p].maxInputChars \in Int
        /\ config[p].minConfidence \in Int
    BY <2>2 DEF Fields
  <2> QED
    BY <2>1, <2>3, <2>4, <2>5
<1> QED
  BY <1>1, Invariance, PTL

(* For any flags: the daemon waits its interval, give or take the jitter.    *)
THEOREM DaemonDelaysInRange == Spec => []DelayInRange
<1>1. Init => DelayInRange
  BY DEF Init, DelayInRange
<1>2. Inv /\ DelayInRange /\ [Next]_vars => DelayInRange'
  <2> SUFFICES ASSUME Inv, DelayInRange, [Next]_vars, NEW q \in Processes,
                      pc'[q] = "wait", (Every(q) + Jitter(q) <= MaxInt)'
               PROVE  /\ delay'[q] >= 0
                      /\ delay'[q] \in (Every(q) - Jitter(q) .. Every(q) + Jitter(q))'
    BY DEF DelayInRange
  <2>a. TypeOK
    BY DEF Inv
  <2> DEFINE Stays == pc[q] = "wait" /\ delay'[q] = delay[q] /\ flags'[q] = flags[q]
             Drawn == /\ \E random \in 0 .. Range(q) - 1 : delay'[q] = NextDelay(q, random)
                      /\ flags'[q] = flags[q]
  <2>1. ASSUME NEW p \in Processes, Exit(p) PROVE Stays
    BY <2>1, <2>a DEF Exit, TypeOK
  <2>2. ASSUME NEW p \in Processes, Step(p) PROVE Stays \/ Drawn
    <3> USE DEF Goto
    <3>1. CASE Load(p) \/ Open(p) \/ EnsureDBVersion(p) \/ GetDBVersion(p)
      BY <3>1, <2>a DEF Load, Open, EnsureDBVersion, GetDBVersion, TypeOK
    <3>2. CASE CreateVersionTable(p) \/ Migrate(p)
      BY <3>2, <2>1, <2>a DEF CreateVersionTable, Migrate, TypeOK
    <3>3. CASE Finish(p)
      BY <3>3, <2>1 DEF Finish
    <3>4. CASE Serve(p) \/ Tick(p)
      BY <3>4, <2>a DEF Serve, Tick, TypeOK
    <3>5. CASE Wait(p)
      BY <3>5, <2>1, <2>a DEF Wait, TypeOK
    <3> QED
      BY <2>2, <3>1, <3>2, <3>3, <3>4, <3>5 DEF Step
  <2>3. ASSUME NEW p \in Processes, Fails(p) \/ Dies(p) PROVE Stays
    BY <2>3, <2>1 DEF Fails, Dies
  <2>4. ASSUME UserEdits \/ Settle \/ NothingStarts \/ UNCHANGED vars PROVE Stays
    BY <2>4 DEF UserEdits, Settle, NothingStarts, processVars, vars
  <2>5. Stays \/ Drawn
    BY <2>2, <2>3, <2>4 DEF Next
  <2>6. flags'[q] = flags[q] => Every(q)' = Every(q) /\ Jitter(q)' = Jitter(q)
    BY DEF Every, Jitter
  <2>7. CASE Stays
    BY <2>6, <2>7 DEF DelayInRange
  <2>8. CASE Drawn
    <3>1. PICK random \in 0 .. Range(q) - 1 : delay'[q] = NextDelay(q, random)
      BY <2>8
    <3>2. Every(q) + Jitter(q) <= MaxInt
      BY <2>6, <2>8
    <3> QED
      BY <3>1, <3>2, <2>6, <2>8, <2>a, NextDelayFits, DurationAssumption
  <2> QED
    BY <2>5, <2>7, <2>8
<1> QED
  BY <1>1, <1>2, Invariance, PTL DEF Spec
=============================================================================
