----------------------------- MODULE Reconciler -----------------------------
(***************************************************************************)
(* The collections pass (internal/collections/reconciler.go): list what is *)
(* on Readeck, then walk over the configured groups and POST the missing   *)
(* collections and PATCH the different ones.  Every pass of run, serve and *)
(* backfill opens with it (reconcile_on_start, on by default), and it is   *)
(* what "collections sync" does.  The snapshot of the first step decides   *)
(* all the others, while other processes and the user go on.               *)
(*                                                                         *)
(* Readeck is external: it gives each POST a new id, never uses an id      *)
(* twice, accepts two collections of one name, and returns a filter as it  *)
(* was sent.                                                               *)
(*                                                                         *)
(* A process started with --dry-run takes the same steps: neither Once nor *)
(* CollectionsSyncCmd.Run looks at the flag on this way.                   *)
(***************************************************************************)
EXTENDS Integers, Sequences, FiniteSets, Functions

CONSTANTS
    Names,       \* names of collections, of the config or not
    Groups,      \* [Processes -> Seq of groups]: collections.groups
    Ids,         \* bound: the ids that Readeck gives out
    Processes,
    Unreliable,  \* of {"readeck", "crash"}
    UserMay,     \* of {"create", "rename", "edit", "delete"}
    UserFilters, \* the filters a user gives to a collection
    NotListed

(* A label is the rank of its name in Go's string order.                     *)
Labels == Nat \ {0}

Group == [name : Names, labels : Seq(Labels)]

(* Two groups may have one name: config.validate does not object.            *)
ASSUME GroupsAssumption == Groups \in [Processes -> Seq(Group)]

ASSUME UserFiltersAssumption == UserFilters \subseteq Seq(Labels)

ASSUME NamesAssumption == Names # {}

ASSUME IdsAssumption == Ids \subseteq Nat /\ NotListed \notin Ids

VARIABLES
    status,      \* Readeck's collections, by id: unused, there or deleted
    nameOf,      \* Readeck: the name of each that is there
    filter,      \* Readeck: the labels filter of each
    made,        \* history: the group of each process that each id was made for, or 0
    doing,       \* idle, or walk: inside the loop over the groups
    byName,      \* its snapshot: the id listed under each name
    seen,        \* its snapshot: the filter of each id it kept
    at           \* the group it has come to

collections == <<status, nameOf, filter, made>>
processVars == <<doing, byName, seen, at>>
vars == <<status, nameOf, filter, made, doing, byName, seen, at>>

There == {id \in Ids : status[id] = "there"}

Unused == {id \in Ids : status[id] = "unused"}

(* Stands for the name of what is not there. *)
SomeName == CHOOSE name \in Names : TRUE

Named(name) == {id \in There : nameOf[id] = name}

TypeOK ==
    /\ status \in [Ids -> {"unused", "there", "deleted"}]
    /\ nameOf \in [Ids -> Names]
    /\ filter \in [Ids -> Seq(Labels)]
    /\ made \in [Processes -> [Ids -> Nat]]
    /\ doing \in [Processes -> {"idle", "walk"}]
    /\ byName \in [Processes -> [Names -> Ids \cup {NotListed}]]
    /\ seen \in [Processes -> [Ids -> Seq(Labels)]]
    /\ at \in [Processes -> Nat \ {0}]

Init ==
    /\ status = [id \in Ids |-> "unused"]
    /\ nameOf = [id \in Ids |-> SomeName]
    /\ filter = [id \in Ids |-> <<>>]
    /\ made = [p \in Processes |-> [id \in Ids |-> 0]]
    /\ doing = [p \in Processes |-> "idle"]
    /\ byName = [p \in Processes |-> [name \in Names |-> NotListed]]
    /\ seen = [p \in Processes |-> [id \in Ids |-> <<>>]]
    /\ at = [p \in Processes |-> 1]

-----------------------------------------------------------------------------
(* joinLabels: the filter does not depend on the order in the config.        *)
JoinedAsGiven(labels) == labels

AtMost(labels, l) == Cardinality({i \in DOMAIN labels : labels[i] <= l})

(* sort.Strings: in place k is the first label that has k up to it.          *)
Joined(labels) ==
    LET enough(k) == {l \in Range(labels) : AtMost(labels, l) >= k}
    IN [k \in DOMAIN labels |-> CHOOSE l \in enough(k) : \A m \in enough(k) : l <= m]

(* want, for each group.                                                     *)
Wanted == [p \in Processes |->
              [i \in DOMAIN Groups[p] |-> Joined(Groups[p][i].labels)]]

MayFail == "readeck" \in Unreliable

InWalk(p) == doing[p] = "walk" /\ at[p] <= Len(Groups[p])

Current(p) == Groups[p][at[p]]

(* Reconcile returns, with or without an error: its variables are gone.      *)
Return(p) ==
    /\ doing' = [doing EXCEPT ![p] = "idle"]
    /\ byName' = [byName EXCEPT ![p] = [name \in Names |-> NotListed]]
    /\ seen' = [seen EXCEPT ![p] = [id \in Ids |-> <<>>]]
    /\ at' = [at EXCEPT ![p] = 1]

NextGroup(p) ==
    /\ at' = [at EXCEPT ![p] = @ + 1]
    /\ UNCHANGED <<doing, byName, seen>>

-----------------------------------------------------------------------------
(* The pass.                                                                 *)

(* GET collections: the snapshot.  Of two collections of one name the map    *)
(* keeps the last listed: either may be, the order is Readeck's.  A listing  *)
(* that fails ends the pass with nothing done, which is no step here.        *)
ListNothing(p) ==
    /\ doing[p] = "idle" /\ Groups[p] # <<>>
    /\ doing' = [doing EXCEPT ![p] = "walk"]
    /\ UNCHANGED <<collections, byName, seen, at>>

ListCollections(p) ==
    /\ doing[p] = "idle" /\ Groups[p] # <<>>
    /\ \E listed \in [Names -> Ids \cup {NotListed}] :
          /\ \A name \in Names :
                IF Named(name) = {} THEN listed[name] = NotListed
                ELSE listed[name] \in Named(name)
          /\ byName' = [byName EXCEPT ![p] = listed]
    /\ seen' = [seen EXCEPT ![p] = [id \in Ids |->
                   IF \E name \in Names : byName'[p][name] = id THEN filter[id] ELSE <<>>]]
    /\ doing' = [doing EXCEPT ![p] = "walk"]
    /\ UNCHANGED <<collections, at>>

Made(name, labels, marks) ==
    \E id \in Unused :
        /\ \A other \in Unused : id <= other
        /\ status' = [status EXCEPT ![id] = "there"]
        /\ nameOf' = [nameOf EXCEPT ![id] = name]
        /\ filter' = [filter EXCEPT ![id] = labels]
        /\ made' = [p \in Processes |-> [made[p] EXCEPT ![id] = marks[p]]]

Unmarked(id) == made' = [p \in Processes |-> [made[p] EXCEPT ![id] = 0]]

MarkedBy(p) == [q \in Processes |-> IF q = p THEN at[p] ELSE 0]

MarkedByNone == [q \in Processes |-> 0]

(* A POST that fails may have made the collection: only its answer is lost.  *)
CreateCollection(p) ==
    /\ InWalk(p) /\ byName[p][Current(p).name] = NotListed
    /\ \/ /\ Made(Current(p).name, Wanted[p][at[p]], MarkedBy(p))
          /\ NextGroup(p) \/ (MayFail /\ Return(p))
       \/ MayFail /\ Return(p) /\ UNCHANGED collections

AlreadyThere(p) ==
    /\ InWalk(p) /\ byName[p][Current(p).name] # NotListed
    /\ NextGroup(p)
    /\ UNCHANGED collections

AlreadyInSync(p) ==
    /\ InWalk(p) /\ byName[p][Current(p).name] # NotListed
    /\ seen[p][byName[p][Current(p).name]] = Wanted[p][at[p]]
    /\ NextGroup(p)
    /\ UNCHANGED collections

PatchedSwapped(id, name, labels) ==
    /\ nameOf' = [nameOf EXCEPT ![id] = labels]
    /\ filter' = [filter EXCEPT ![id] = name]
    /\ UNCHANGED <<status, made>>

(* The PATCH carries the name as well as the filter.                         *)
Patched(id, name, labels) ==
    /\ nameOf' = [nameOf EXCEPT ![id] = name]
    /\ filter' = [filter EXCEPT ![id] = labels]
    /\ UNCHANGED <<status, made>>

UpdateAnyway(p) ==
    LET id == byName[p][Current(p).name]
    IN /\ InWalk(p) /\ id # NotListed
       /\ id \in There
       /\ Patched(id, Current(p).name, Wanted[p][at[p]])
       /\ NextGroup(p) \/ (MayFail /\ Return(p))

UpdateCollection(p) ==
    LET id == byName[p][Current(p).name]
    IN /\ InWalk(p) /\ id # NotListed
       /\ seen[p][id] # Wanted[p][at[p]]
       /\ \/ /\ id \in There
             /\ Patched(id, Current(p).name, Wanted[p][at[p]])
             /\ NextGroup(p) \/ (MayFail /\ Return(p))
          \/ /\ id \notin There \/ MayFail
             /\ Return(p)
             /\ UNCHANGED collections

EndPass(p) ==
    /\ doing[p] = "walk" /\ at[p] > Len(Groups[p])
    /\ Return(p)
    /\ UNCHANGED collections

Dies(p) ==
    /\ "crash" \in Unreliable /\ doing[p] # "idle"
    /\ Return(p)
    /\ UNCHANGED collections

-----------------------------------------------------------------------------
(* The user, and other tools.  They leave Readeck ids for one more pass.     *)

Room == \A p \in Processes : Cardinality(Unused) > Len(Groups[p])

UserCreates ==
    /\ "create" \in UserMay /\ Room
    /\ \E name \in Names, labels \in UserFilters : Made(name, labels, MarkedByNone)
    /\ UNCHANGED processVars

UserRenames(id) ==
    /\ "rename" \in UserMay /\ Room /\ id \in There
    /\ \E name \in Names \ {nameOf[id]} : nameOf' = [nameOf EXCEPT ![id] = name]
    /\ Unmarked(id)
    /\ UNCHANGED <<status, filter, processVars>>

UserEdits(id) ==
    /\ "edit" \in UserMay /\ id \in There
    /\ \E labels \in UserFilters : filter' = [filter EXCEPT ![id] = labels]
    /\ UNCHANGED <<status, nameOf, made, processVars>>

UserDeletes(id) ==
    /\ "delete" \in UserMay /\ Room /\ id \in There
    /\ status' = [status EXCEPT ![id] = "deleted"]
    /\ nameOf' = [nameOf EXCEPT ![id] = SomeName]
    /\ filter' = [filter EXCEPT ![id] = <<>>]
    /\ Unmarked(id)
    /\ UNCHANGED processVars

-----------------------------------------------------------------------------
Write(p) == CreateCollection(p) \/ UpdateCollection(p)

Step(p) ==
    \/ ListCollections(p) \/ Write(p) \/ AlreadyInSync(p) \/ EndPass(p)

User ==
    \/ UserCreates
    \/ \E id \in Ids : UserRenames(id) \/ UserEdits(id) \/ UserDeletes(id)

Next == User \/ \E p \in Processes : Step(p) \/ Dies(p)

Spec == Init /\ [][Next]_vars

(* A step that leaves a pass unfinished.                                     *)
Interrupts(p) == InWalk(p) /\ doing'[p] = "idle"

(* Fairness: passes follow one another (the daemon's timer), each process    *)
(* takes its steps, and outages, crashes and edits end at some time.         *)
FairSpec ==
    /\ Spec
    /\ \A p \in Processes : WF_vars(Step(p))
    /\ <>[][~User /\ \A p \in Processes : ~Interrupts(p)]_vars

-----------------------------------------------------------------------------
(* Properties.                                                               *)

(* A process makes no second collection for a group of its config while the  *)
(* one it made is there and no user renamed it, though a POST whose answer   *)
(* is lost is not remembered and a pass may die anywhere: the next pass      *)
(* lists before it creates (reconciler.go:58-83).  This is of each process   *)
(* alone: two that both list before either POSTs make one each, where        *)
(* config.go:111 has "a single Readeck collection".                          *)
OnePerGroup ==
    \A p \in Processes : \A i, j \in There :
        made[p][i] # 0 /\ made[p][i] = made[p][j] => i = j

GroupInSync(p, i) ==
    \E id \in Named(Groups[p][i].name) : filter[id] = Wanted[p][i]

InSync(p) == \A i \in DOMAIN Groups[p] : GroupInSync(p, i)

(* What the pass is for: in the end every group of the config has its        *)
(* collection, whatever was interrupted, edited or deleted on the way.       *)
Converges == <>[](\A p \in Processes : InSync(p))

(* And then it is quiet: the passes go on and write nothing, also when two   *)
(* processes list the labels of a group in different orders                  *)
(* (reconciler.go:99-102).                                                   *)
FallsSilent == <>[][\A p \in Processes : ~Write(p)]_vars

(* All that is on Readeck under the name of a group has its labels, and the  *)
(* snapshots that are still to be used say so.                               *)
Settled ==
    \A p \in Processes : \A i \in DOMAIN Groups[p] :
        LET name == Groups[p][i].name
        IN /\ Named(name) # {}
           /\ \A id \in Named(name) : filter[id] = Wanted[p][i]
           /\ doing[p] = "walk" /\ at[p] <= i =>
                 /\ byName[p][name] # NotListed
                 /\ seen[p][byName[p][name]] = Wanted[p][i]

(* What has settled stays so, and no process writes to it, in any later pass *)
(* and through any failure, until the user changes something: of two         *)
(* processes, or of two groups of one name, none undoes what the other did   *)
(* (reconciler.go:84-87).                                                    *)
StaysSettled ==
    [][Settled /\ ~User => Settled' /\ \A p \in Processes : ~Write(p)]_vars

(* Groups of one name have the same labels, in any order: in one config and  *)
(* in those of all processes.                                                *)
Agreed ==
    \A p, q \in Processes : \A i \in DOMAIN Groups[p], j \in DOMAIN Groups[q] :
        Groups[p][i].name = Groups[q][j].name => Wanted[p][i] = Wanted[q][j]

(* What a walk has done is done, and its snapshot is good enough for what it *)
(* has left to do: an id it will look at still has its name, and the labels  *)
(* that are wanted if the snapshot says so.                                  *)
OnCourse(p) ==
    doing[p] = "walk" => \A i \in DOMAIN Groups[p] :
        LET id == byName[p][Groups[p][i].name]
        IN IF i < at[p] THEN GroupInSync(p, i)
           ELSE id # NotListed =>
                    /\ id \in Named(Groups[p][i].name)
                    /\ seen[p][id] = Wanted[p][i] => filter[id] = Wanted[p][i]

(* While no user changes anything, no process throws another off its course, *)
(* whatever fails and whoever dies; a pass that comes to its end leaves      *)
(* every group of its config with its collection, and so it stays            *)
(* (reconciler.go:53-97).                                                    *)
PassesDeliver ==
    [][~User /\ (\A p \in Processes : OnCourse(p)) =>
        \A p \in Processes : /\ OnCourse(p)'
                             /\ InSync(p) \/ EndPass(p) => InSync(p)']_vars

(* What reconciler.go:6-9 says: a collection that is not in the config is    *)
(* left untouched.                                                           *)
OthersUntouched ==
    [][\A p \in Processes : Step(p) =>
        \A id \in There :
            (\A i \in DOMAIN Groups[p] : Groups[p][i].name # nameOf[id])
                => nameOf'[id] = nameOf[id] /\ filter'[id] = filter[id]]_vars
=============================================================================
