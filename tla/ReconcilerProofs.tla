------------------------- MODULE ReconcilerProofs -------------------------
(***************************************************************************)
(* For any number of processes, any groups (two of one name included), any *)
(* number of passes, failures and deaths anywhere, and any user: the model *)
(* keeps its types, a group has at most one collection that was made for   *)
(* it, what has settled stays so, and a pass delivers what it is for       *)
(* unless a user is in its way.                                            *)
(*                                                                         *)
(* Before that, joinLabels: the definition by ranks sorts, and one set of  *)
(* labels gives one filter whatever the order in the config.               *)
(***************************************************************************)
EXTENDS Reconciler, OrderLemmas, FunctionTheorems

-----------------------------------------------------------------------------
(* joinLabels.                                                               *)

LEMMA AtMostTyped ==
    ASSUME NEW labels \in Seq(Labels), NEW l \in Nat, NEW m \in Nat, l <= m
    PROVE  /\ AtMost(labels, l) \in 0 .. Len(labels)
           /\ AtMost(labels, l) <= AtMost(labels, m)
           /\ (\A i \in DOMAIN labels : labels[i] <= l) => AtMost(labels, l) = Len(labels)
<1> DEFINE Below(k) == {i \in DOMAIN labels : labels[i] <= k}
<1>1. Len(labels) \in Nat /\ DOMAIN labels = 1 .. Len(labels)
  OBVIOUS
<1>2. IsFiniteSet(DOMAIN labels) /\ Cardinality(DOMAIN labels) = Len(labels)
  BY <1>1, FS_Interval
<1>3. \A i \in DOMAIN labels : labels[i] \in Nat
  BY DEF Labels
<1>4. Below(l) \in SUBSET Below(m) /\ Below(m) \in SUBSET DOMAIN labels
  BY <1>3
<1>5. /\ IsFiniteSet(Below(m)) /\ IsFiniteSet(Below(l))
      /\ Cardinality(Below(m)) <= Len(labels)
      /\ Cardinality(Below(l)) <= Cardinality(Below(m))
  BY <1>2, <1>4, FS_Subset
<1>6. Cardinality(Below(l)) \in Nat /\ Cardinality(Below(m)) \in Nat
  BY <1>5, FS_CardinalityType
<1>7. (\A i \in DOMAIN labels : labels[i] <= l) => Below(l) = DOMAIN labels
  OBVIOUS
<1>8. AtMost(labels, l) = Cardinality(Below(l)) /\ AtMost(labels, m) = Cardinality(Below(m))
  BY DEF AtMost
<1> HIDE DEF Below
<1> QED
  BY <1>1, <1>2, <1>5, <1>6, <1>7, <1>8

(* The labels of a list are finitely many.                                   *)
LEMMA LabelsOf ==
    ASSUME NEW labels \in Seq(Labels)
    PROVE  /\ Range(labels) \in SUBSET Labels
           /\ IsFiniteSet(Range(labels))
           /\ \A i \in DOMAIN labels : labels[i] \in Range(labels)
           /\ \A l \in Range(labels) : \E i \in DOMAIN labels : labels[i] = l
<1>1. labels \in [1 .. Len(labels) -> Labels] /\ Len(labels) \in Nat
  OBVIOUS
<1>2. /\ Range(labels) \subseteq Labels
      /\ \A l \in Range(labels) : \E i \in 1 .. Len(labels) : labels[i] = l
      /\ labels \in Surjection(1 .. Len(labels), Range(labels))
  <2> DEFINE Places == 1 .. Len(labels)
  <2> HIDE DEF Places
  <2>1. labels \in [Places -> Labels]
    BY <1>1 DEF Places
  <2>2. /\ Range(labels) \subseteq Labels
        /\ \A l \in Range(labels) : \E i \in Places : labels[i] = l
        /\ labels \in Surjection(Places, Range(labels))
    BY <2>1, Fun_RangeProperties
  <2> QED
    BY <2>2 DEF Places
<1>3. IsFiniteSet(1 .. Len(labels))
  BY <1>1, FS_Interval
<1>4. IsFiniteSet(Range(labels))
  BY <1>2, <1>3, FS_Surjection
<1> QED
  BY <1>1, <1>2, <1>4 DEF Range

(* The CHOOSE of Joined has a choice: the greatest label has them all up to  *)
(* it.                                                                       *)
LEMMA JoinedIs ==
    ASSUME NEW labels \in Seq(Labels), NEW k \in DOMAIN labels
    PROVE  /\ Joined(labels)[k] \in Range(labels)
           /\ AtMost(labels, Joined(labels)[k]) >= k
           /\ \A m \in Range(labels) :
                 AtMost(labels, m) >= k => Joined(labels)[k] <= m
<1> DEFINE Enough == {l \in Range(labels) : AtMost(labels, l) >= k}
<1>1. Range(labels) \in SUBSET Nat /\ k \in 1 .. Len(labels) /\ Len(labels) \in Nat
  BY LabelsOf DEF Labels
<1>2. PICK g \in Range(labels) : \A m \in Range(labels) : g >= m
  BY <1>1, LabelsOf, FiniteHasGreatest
<1>3. AtMost(labels, g) = Len(labels)
  BY <1>1, <1>2, LabelsOf, AtMostTyped
<1>4. Enough \in SUBSET Nat /\ Enough # {}
  BY <1>1, <1>2, <1>3
<1>5. \E l \in Enough : \A m \in Enough : l <= m
  <2> HIDE DEF Enough
  <2> QED
    BY <1>4, HasLeast
<1>6. Joined(labels)[k] = CHOOSE l \in Enough : \A m \in Enough : l <= m
  BY DEF Joined
<1>7. Joined(labels)[k] \in Enough /\ \A m \in Enough : Joined(labels)[k] <= m
  <2> HIDE DEF Enough
  <2> QED
    BY <1>5, <1>6
<1> QED
  BY <1>7

(* Up to a label there are as many places of the sorted list as places of    *)
(* the given one, and they come first.                                       *)
LEMMA JoinedUpTo ==
    ASSUME NEW labels \in Seq(Labels), NEW k \in DOMAIN labels, NEW l \in Nat
    PROVE  Joined(labels)[k] <= l <=> k <= AtMost(labels, l)
<1> DEFINE here == Joined(labels)[k]
           below == {m \in Range(labels) : m <= l}
<1>1. Range(labels) \in SUBSET Nat /\ k \in 1 .. Len(labels) /\ Len(labels) \in Nat
  BY LabelsOf DEF Labels
<1>2. /\ here \in Range(labels) /\ AtMost(labels, here) >= k
      /\ \A m \in Range(labels) : AtMost(labels, m) >= k => here <= m
  BY JoinedIs
<1>3. here \in Nat
  BY <1>1, <1>2
<1> HIDE DEF here
<1>4. /\ AtMost(labels, l) \in Nat /\ AtMost(labels, here) \in Nat
      /\ here <= l => AtMost(labels, here) <= AtMost(labels, l)
  BY <1>3, AtMostTyped
<1>5. here <= l => k <= AtMost(labels, l)
  BY <1>1, <1>2, <1>4
<1>6. ASSUME k <= AtMost(labels, l) PROVE here <= l
  <2>1. PICK i \in DOMAIN labels : labels[i] <= l
    <3>1. {i \in DOMAIN labels : labels[i] <= l} = {} => AtMost(labels, l) = 0
      BY FS_EmptySet DEF AtMost
    <3>2. {i \in DOMAIN labels : labels[i] <= l} # {}
      BY <1>1, <1>6, <3>1
    <3> QED
      BY <3>2
  <2>2. below # {} /\ \A m \in below : m \in 0 .. l
    BY <1>1, <2>1, LabelsOf
  <2>3. PICK g \in below : \A m \in below : g >= m
    <3> HIDE DEF below
    <3> QED
      BY <2>2, HasGreatest
  <2>4. g \in Range(labels) /\ g <= l /\ g \in Nat
    BY <1>1, <2>3
  <2>5. {j \in DOMAIN labels : labels[j] <= l} = {j \in DOMAIN labels : labels[j] <= g}
    <3>1. ASSUME NEW j \in DOMAIN labels PROVE labels[j] <= l <=> labels[j] <= g
      <4>1. labels[j] \in Range(labels) /\ labels[j] \in Nat
        BY <1>1, LabelsOf
      <4> QED
        BY <2>3, <2>4, <4>1
    <3> QED
      BY <3>1
  <2>6. AtMost(labels, g) = AtMost(labels, l)
    BY <2>5 DEF AtMost
  <2>7. here <= g
    BY <1>2, <1>6, <2>4, <2>6
  <2> QED
    BY <1>3, <2>4, <2>7
<1> QED
  BY <1>5, <1>6 DEF here

(* Joined sorts: the same labels, each as often, in ascending order          *)
(* (sort.Strings, reconciler.go:108).  "As often" is said by the number of   *)
(* labels up to each one.                                                    *)
THEOREM JoinedSorts ==
    ASSUME NEW labels \in Seq(Labels)
    PROVE  /\ Joined(labels) \in Seq(Labels)
           /\ Len(Joined(labels)) = Len(labels)
           /\ \A i, j \in DOMAIN labels : i <= j => Joined(labels)[i] <= Joined(labels)[j]
           /\ \A l \in Nat : AtMost(Joined(labels), l) = AtMost(labels, l)
<1>1. Len(labels) \in Nat /\ DOMAIN labels = 1 .. Len(labels)
  OBVIOUS
<1>2. DOMAIN Joined(labels) = DOMAIN labels
  BY DEF Joined
<1>3. \A k \in DOMAIN labels : Joined(labels)[k] \in Labels
  BY JoinedIs, LabelsOf
<1>4. Joined(labels) \in [1 .. Len(labels) -> Labels]
  BY <1>1, <1>3 DEF Joined
<1>5. Joined(labels) \in Seq(Labels) /\ Len(Joined(labels)) = Len(labels)
  BY <1>1, <1>4
<1>6. ASSUME NEW i \in DOMAIN labels, NEW j \in DOMAIN labels, i <= j
      PROVE  Joined(labels)[i] <= Joined(labels)[j]
  <2>1. Joined(labels)[j] \in Nat
    BY <1>3 DEF Labels
  <2>2. j <= AtMost(labels, Joined(labels)[j]) /\ AtMost(labels, Joined(labels)[j]) \in Nat
    BY <2>1, JoinedUpTo, AtMostTyped
  <2>3. i <= AtMost(labels, Joined(labels)[j])
    BY <1>1, <1>6, <2>2
  <2> QED
    BY <2>1, <2>3, JoinedUpTo
<1>7. ASSUME NEW l \in Nat
      PROVE  AtMost(Joined(labels), l) = AtMost(labels, l)
  <2>1. AtMost(labels, l) \in 0 .. Len(labels)
    BY AtMostTyped
  <2>2. \A k \in DOMAIN labels : Joined(labels)[k] <= l <=> k <= AtMost(labels, l)
    BY JoinedUpTo
  <2>3. {k \in DOMAIN Joined(labels) : Joined(labels)[k] <= l} = 1 .. AtMost(labels, l)
    BY <1>1, <1>2, <2>1, <2>2
  <2>4. Cardinality(1 .. AtMost(labels, l)) = AtMost(labels, l)
    BY <2>1, FS_Interval
  <2> QED
    BY <2>3, <2>4 DEF AtMost
<1> QED
  BY <1>5, <1>6, <1>7

(* One set of labels, listed in two orders, gives one filter: the group of   *)
(* two processes, or of two versions of a config, is the same group          *)
(* (reconciler.go:99-102).                                                   *)
THEOREM JoinedIgnoresOrder ==
    ASSUME NEW a \in Seq(Labels), NEW b \in Seq(Labels),
           NEW f \in Bijection(DOMAIN a, DOMAIN b),
           \A i \in DOMAIN a : a[i] = b[f[i]]
    PROVE  Joined(a) = Joined(b)
<1>1. /\ f \in [DOMAIN a -> DOMAIN b]
      /\ \A i, j \in DOMAIN a : f[i] = f[j] => i = j
      /\ \A j \in DOMAIN b : \E i \in DOMAIN a : f[i] = j
  BY Fun_BijectionProperties
<1>2. /\ Len(a) \in Nat /\ DOMAIN a = 1 .. Len(a)
      /\ Len(b) \in Nat /\ DOMAIN b = 1 .. Len(b)
  OBVIOUS
<1>3. DOMAIN a = DOMAIN b
  <2>1. /\ IsFiniteSet(DOMAIN a) /\ Cardinality(DOMAIN a) = Len(a)
        /\ Cardinality(DOMAIN b) = Len(b)
    <3>1. \A n \in Nat : IsFiniteSet(1 .. n) /\ Cardinality(1 .. n) = n
      BY FS_Interval
    <3> QED
      BY <1>2, <3>1
  <2>2. ExistsBijection(DOMAIN a, DOMAIN b)
    BY Fun_ExistsBij
  <2>3. Cardinality(DOMAIN b) = Cardinality(DOMAIN a)
    BY <2>1, <2>2, FS_Bijection
  <2> QED
    BY <1>2, <2>1, <2>3
<1>4. Range(a) = Range(b)
  <2>1. ASSUME NEW l \in Range(a) PROVE l \in Range(b)
    <3>1. PICK i \in DOMAIN a : a[i] = l
      BY LabelsOf
    <3> QED
      BY <1>1, <3>1, LabelsOf
  <2>2. ASSUME NEW l \in Range(b) PROVE l \in Range(a)
    <3>1. PICK j \in DOMAIN b : b[j] = l
      BY LabelsOf
    <3>2. PICK i \in DOMAIN a : f[i] = j
      BY <1>1
    <3> QED
      BY <3>1, <3>2, LabelsOf
  <2> QED
    BY <2>1, <2>2
<1>5. ASSUME NEW l \in Nat
      PROVE  AtMost(a, l) = AtMost(b, l)
  <2> DEFINE A == {i \in DOMAIN a : a[i] <= l}
             B == {j \in DOMAIN b : b[j] <= l}
             g == [i \in A |-> f[i]]
  <2>1. g \in [A -> B] /\ \A i, j \in A : g[i] = g[j] => i = j
    BY <1>1
  <2>2. \A j \in B : \E i \in A : g[i] = j
    BY <1>1
  <2>3. IsFiniteSet(A)
    <3>1. A \in SUBSET DOMAIN a /\ IsFiniteSet(DOMAIN a)
      BY <1>2, FS_Interval
    <3> HIDE DEF A
    <3> QED
      BY <3>1, FS_Subset
  <2> HIDE DEF A, B, g
  <2>4. g \in Bijection(A, B)
    BY <2>1, <2>2, Fun_IsBij
  <2>5. Cardinality(B) = Cardinality(A)
    BY <2>3, <2>4, Fun_ExistsBij, FS_Bijection
  <2> QED
    BY <2>5 DEF A, B, AtMost
<1>6. ASSUME NEW k \in DOMAIN a
      PROVE  Joined(a)[k] = Joined(b)[k]
  <2>1. \A m \in Range(a) : AtMost(a, m) = AtMost(b, m)
    BY <1>5, LabelsOf DEF Labels
  <2>2. /\ Joined(a)[k] \in Range(a) /\ AtMost(a, Joined(a)[k]) >= k
        /\ \A m \in Range(a) : AtMost(a, m) >= k => Joined(a)[k] <= m
    BY JoinedIs
  <2>3. /\ Joined(b)[k] \in Range(b) /\ AtMost(b, Joined(b)[k]) >= k
        /\ \A m \in Range(b) : AtMost(b, m) >= k => Joined(b)[k] <= m
    BY <1>3, JoinedIs
  <2>4. Joined(a)[k] <= Joined(b)[k] /\ Joined(b)[k] <= Joined(a)[k]
    BY <1>4, <2>1, <2>2, <2>3
  <2>5. Joined(a)[k] \in Nat /\ Joined(b)[k] \in Nat
    BY <2>2, <2>3, LabelsOf DEF Labels
  <2> QED
    BY <2>4, <2>5
<1> QED
  BY <1>3, <1>6 DEF Joined

-----------------------------------------------------------------------------
Shape ==
    /\ status \in [Ids -> {"unused", "there", "deleted"}]
    /\ nameOf \in [Ids -> Names]
    /\ made \in [Processes -> [Ids -> Nat]]
    /\ doing \in [Processes -> {"idle", "walk"}]
    /\ byName \in [Processes -> [Names -> Ids \cup {NotListed}]]
    /\ at \in [Processes -> Nat \ {0}]

(* What was made for a group is there, under the name of the group.          *)
MadeUnderItsName ==
    \A p \in Processes, id \in Ids : made[p][id] # 0 =>
        /\ status[id] = "there"
        /\ made[p][id] \in DOMAIN Groups[p]
        /\ nameOf[id] = Groups[p][made[p][id]].name

(* What a snapshot still tells while time goes on: an id it lists was used,  *)
(* and has its name unless a user has renamed or deleted it.                 *)
SnapshotHolds ==
    \A q \in Processes, name \in Names :
        byName[q][name] # NotListed =>
            /\ status[byName[q][name]] # "unused"
            /\ \A p \in Processes :
                  made[p][byName[q][name]] # 0 => nameOf[byName[q][name]] = name

(* A group whose name was missing when the pass began still has no           *)
(* collection, unless the walk has come past the group.                      *)
MissingStillMissing ==
    \A p \in Processes : doing[p] = "walk" =>
        \A i \in DOMAIN Groups[p] :
            at[p] <= i /\ byName[p][Groups[p][i].name] = NotListed
                => \A id \in Ids : made[p][id] # i

CreateInv ==
    /\ Shape
    /\ MadeUnderItsName
    /\ SnapshotHolds
    /\ MissingStillMissing
    /\ OnePerGroup

(* What the lemmas on steps that leave Readeck as it is are about.           *)
NothingMade == UNCHANGED <<status, nameOf, made>>

LEMMA GroupTyped ==
    ASSUME NEW p \in Processes, NEW i \in DOMAIN Groups[p]
    PROVE  /\ Groups[p][i].name \in Names
           /\ i \in Nat \ {0}
           /\ Groups[p] \in Seq(Group)
<1>1. Groups[p] \in Seq(Group)
  BY GroupsAssumption
<1>2. i \in 1 .. Len(Groups[p]) /\ Len(Groups[p]) \in Nat
  BY <1>1
<1>3. Groups[p][i] \in Group
  BY <1>1, <1>2
<1>4. Groups[p][i].name \in Names
  BY <1>3 DEF Group
<1> QED
  BY <1>1, <1>2, <1>4

LEMMA WalkTyped ==
    ASSUME Shape, NEW p \in Processes, InWalk(p)
    PROVE  /\ at[p] \in DOMAIN Groups[p]
           /\ at[p] # 0
           /\ Current(p).name \in Names
           /\ doing[p] = "walk"
<1>1. at[p] \in Nat \ {0} /\ at[p] <= Len(Groups[p]) /\ doing[p] = "walk"
  BY DEF Shape, InWalk
<1>2. Groups[p] \in Seq(Group)
  BY GroupsAssumption
<1>3. at[p] \in DOMAIN Groups[p]
  BY <1>1, <1>2
<1> QED
  BY <1>1, <1>3, GroupTyped DEF Current

(* However a step ends, with the next group or with Return: a process that   *)
(* still walks has its old snapshot.                                         *)
LEMMA Onward ==
    ASSUME Shape, NEW p \in Processes, NextGroup(p) \/ Return(p)
    PROVE  /\ doing' \in [Processes -> {"idle", "walk"}]
           /\ at' \in [Processes -> Nat \ {0}]
           /\ byName' \in [Processes -> [Names -> Ids \cup {NotListed}]]
           /\ \A q \in Processes, name \in Names :
                 byName'[q][name] # NotListed => byName'[q][name] = byName[q][name]
           /\ \A q \in Processes : doing'[q] = "walk" =>
                 /\ doing[q] = "walk" /\ at[q] <= at'[q]
                 /\ byName'[q] = byName[q]
                 /\ q = p => at'[p] = at[p] + 1
<1>1. CASE NextGroup(p)
  BY <1>1 DEF NextGroup, Shape
<1>2. CASE Return(p)
  BY <1>2 DEF Return, Shape
<1> QED
  BY <1>1, <1>2

LEMMA SomeNameTyped == SomeName \in Names
BY NamesAssumption DEF SomeName

LEMMA InitCreate == Init => CreateInv
<1> SUFFICES ASSUME Init PROVE CreateInv
  OBVIOUS
<1>1. Shape
  BY SomeNameTyped DEF Init, Shape
<1>2. MadeUnderItsName /\ SnapshotHolds /\ MissingStillMissing /\ OnePerGroup
  BY DEF Init, MadeUnderItsName, SnapshotHolds, MissingStillMissing, OnePerGroup, There
<1> QED
  BY <1>1, <1>2 DEF CreateInv

-----------------------------------------------------------------------------
(* Steps that make nothing and rename nothing.                               *)

(* A process that returns forgets its snapshot.                              *)
LEMMA ReturnKeeps ==
    ASSUME CreateInv, NEW p \in Processes, Return(p), NothingMade
    PROVE  CreateInv'
<1> USE DEF CreateInv, NothingMade
<1>1. Shape'
  BY DEF Shape, Return
<1>2. MadeUnderItsName' /\ OnePerGroup'
  BY DEF MadeUnderItsName, OnePerGroup, There
<1>3. SnapshotHolds'
  BY DEF Shape, Return, SnapshotHolds
<1>4. MissingStillMissing'
  BY DEF Shape, Return, MissingStillMissing
<1> QED
  BY <1>1, <1>2, <1>3, <1>4

LEMMA NextGroupKeeps ==
    ASSUME CreateInv, NEW p \in Processes, NextGroup(p), NothingMade
    PROVE  CreateInv'
<1> USE DEF CreateInv, NothingMade
<1>1. Shape'
  BY DEF Shape, NextGroup
<1>2. MadeUnderItsName' /\ OnePerGroup'
  BY DEF MadeUnderItsName, OnePerGroup, There
<1>3. SnapshotHolds'
  BY DEF NextGroup, SnapshotHolds
<1>4. MissingStillMissing'
  <2> SUFFICES ASSUME NEW q \in Processes, doing[q] = "walk", NEW i \in DOMAIN Groups[q],
                      at'[q] <= i, byName[q][Groups[q][i].name] = NotListed
               PROVE  \A id \in Ids : made[q][id] # i
    BY DEF MissingStillMissing, NextGroup
  <2>1. at[q] <= i
    BY GroupTyped DEF NextGroup, Shape
  <2> QED
    BY <2>1 DEF MissingStillMissing
<1> QED
  BY <1>1, <1>2, <1>3, <1>4

LEMMA ListKeeps ==
    ASSUME CreateInv, NEW p \in Processes, ListCollections(p)
    PROVE  CreateInv'
<1> USE DEF CreateInv
<1> PICK listed \in [Names -> Ids \cup {NotListed}] :
          /\ \A name \in Names :
                IF Named(name) = {} THEN listed[name] = NotListed
                ELSE listed[name] \in Named(name)
          /\ byName' = [byName EXCEPT ![p] = listed]
  BY DEF ListCollections
<1>1. Shape' /\ NothingMade
  BY DEF Shape, ListCollections, collections, NothingMade
<1>2. MadeUnderItsName' /\ OnePerGroup'
  BY <1>1 DEF NothingMade, MadeUnderItsName, OnePerGroup, There
<1>3. SnapshotHolds'
  <2> SUFFICES ASSUME NEW q \in Processes, NEW name \in Names,
                      byName'[q][name] # NotListed
               PROVE  /\ status[byName'[q][name]] # "unused"
                      /\ \A r \in Processes : made[r][byName'[q][name]] # 0 =>
                            nameOf[byName'[q][name]] = name
    BY <1>1 DEF SnapshotHolds, NothingMade
  <2>1. CASE q = p
    BY <2>1 DEF Shape, Named, There
  <2>2. CASE q # p
    BY <2>2 DEF Shape, SnapshotHolds
  <2> QED
    BY <2>1, <2>2
<1>4. MissingStillMissing'
  <2> SUFFICES ASSUME NEW q \in Processes, doing'[q] = "walk", NEW i \in DOMAIN Groups[q],
                      at[q] <= i, byName'[q][Groups[q][i].name] = NotListed,
                      NEW id \in Ids, made[q][id] = i
               PROVE  FALSE
    BY <1>1 DEF MissingStillMissing, ListCollections, NothingMade
  <2>1. i # 0 /\ Groups[q][i].name \in Names
    BY GroupTyped
  <2>2. id \in Named(Groups[q][i].name)
    BY <2>1 DEF MadeUnderItsName, Named, There
  <2>3. CASE q = p
    BY <2>1, <2>2, <2>3, IdsAssumption DEF Shape, Named, There
  <2>4. CASE q # p
    BY <2>4 DEF MissingStillMissing, ListCollections, Shape
  <2> QED
    BY <2>3, <2>4
<1> QED
  BY <1>1, <1>2, <1>3, <1>4

-----------------------------------------------------------------------------
(* Steps that write.                                                         *)

(* A new id is in no snapshot, and was made for no group so far.             *)
LEMMA MadeIsNew ==
    ASSUME CreateInv, NEW name \in Names, NEW labels,
           NEW marks \in [Processes -> Nat], Made(name, labels, marks)
    PROVE  \E id \in Ids :
              /\ status[id] = "unused"
              /\ \A q \in Processes : made[q][id] = 0
              /\ \A q \in Processes, other \in Names : byName[q][other] # id
              /\ status' = [status EXCEPT ![id] = "there"]
              /\ nameOf' = [nameOf EXCEPT ![id] = name]
              /\ made' = [q \in Processes |-> [made[q] EXCEPT ![id] = marks[q]]]
<1> PICK id \in Unused :
        /\ status' = [status EXCEPT ![id] = "there"]
        /\ nameOf' = [nameOf EXCEPT ![id] = name]
        /\ made' = [q \in Processes |-> [made[q] EXCEPT ![id] = marks[q]]]
  BY DEF Made
<1>1. id \in Ids /\ status[id] = "unused"
  BY DEF Unused
<1>2. \A q \in Processes : made[q][id] = 0
  BY <1>1 DEF CreateInv, MadeUnderItsName
<1>3. \A q \in Processes, other \in Names : byName[q][other] # id
  BY <1>1, IdsAssumption DEF CreateInv, SnapshotHolds
<1> QED
  BY <1>1, <1>2, <1>3

LEMMA CreateKeeps ==
    ASSUME CreateInv, NEW p \in Processes, CreateCollection(p)
    PROVE  CreateInv'
<1>1. CASE Return(p) /\ UNCHANGED collections
  BY <1>1, ReturnKeeps DEF collections, NothingMade
<1>2. ASSUME Made(Current(p).name, Wanted[p][at[p]], MarkedBy(p)),
             NextGroup(p) \/ Return(p)
      PROVE  CreateInv'
  <2> USE DEF CreateInv
  <2>1. /\ Current(p).name \in Names /\ at[p] \in DOMAIN Groups[p] /\ at[p] # 0
        /\ doing[p] = "walk"
    BY WalkTyped DEF CreateCollection
  <2>2. at[p] \in Nat /\ MarkedBy(p) \in [Processes -> Nat]
    BY DEF Shape, MarkedBy
  <2>3. \A id \in Ids : made[p][id] # at[p]
    BY <2>1, <2>2 DEF CreateCollection, Current, MissingStillMissing
  <2>4. PICK id \in Ids :
            /\ status[id] = "unused"
            /\ \A q \in Processes : made[q][id] = 0
            /\ \A q \in Processes, other \in Names : byName[q][other] # id
            /\ status' = [status EXCEPT ![id] = "there"]
            /\ nameOf' = [nameOf EXCEPT ![id] = Current(p).name]
            /\ made' = [q \in Processes |-> [made[q] EXCEPT ![id] = MarkedBy(p)[q]]]
    BY <1>2, <2>1, <2>2, MadeIsNew
  <2>5. \A q \in Processes, other \in Ids :
            made'[q][other] = IF other # id THEN made[q][other]
                              ELSE IF q = p THEN at[p] ELSE 0
    BY <2>4 DEF Shape, MarkedBy
  <2>6. Shape'
    <3>1. made' \in [Processes -> [Ids -> Nat]]
      BY <2>2, <2>4 DEF Shape
    <3>2. nameOf' \in [Ids -> Names] /\ status' \in [Ids -> {"unused", "there", "deleted"}]
      BY <2>1, <2>4 DEF Shape
    <3> QED
      BY <1>2, <3>1, <3>2, Onward DEF Shape
  <2>7. MadeUnderItsName'
    BY <2>1, <2>4, <2>5 DEF Shape, MadeUnderItsName, Current
  <2>8. SnapshotHolds'
    <3> SUFFICES ASSUME NEW q \in Processes, NEW name \in Names,
                        byName'[q][name] # NotListed
                 PROVE  /\ status'[byName'[q][name]] # "unused"
                        /\ \A r \in Processes : made'[r][byName'[q][name]] # 0 =>
                              nameOf'[byName'[q][name]] = name
      BY DEF SnapshotHolds
    <3>1. byName'[q][name] = byName[q][name]
      BY <1>2, Onward
    <3>2. byName[q][name] \in Ids /\ byName[q][name] # id
      BY <2>4, <3>1 DEF Shape
    <3> QED
      BY <2>4, <2>5, <3>1, <3>2 DEF Shape, SnapshotHolds
  <2>9. MissingStillMissing'
    <3> SUFFICES ASSUME NEW q \in Processes, doing'[q] = "walk", NEW i \in DOMAIN Groups[q],
                        at'[q] <= i, byName'[q][Groups[q][i].name] = NotListed,
                        NEW other \in Ids
                 PROVE  made'[q][other] # i
      BY DEF MissingStillMissing
    <3>1. i \in Nat \ {0}
      BY GroupTyped
    <3>2. CASE q = p
      <4>1. /\ at'[p] = at[p] + 1 /\ at[p] \in Nat
            /\ byName[p][Groups[p][i].name] = NotListed
        BY <1>2, <2>2, <3>2, Onward
      <4>2. at[p] < i /\ byName[p][Groups[p][i].name] = NotListed
        BY <3>1, <3>2, <4>1
      <4>3. \A any \in Ids : made[p][any] # i
        BY <2>1, <2>2, <3>1, <3>2, <4>2 DEF MissingStillMissing
      <4> QED
        BY <2>2, <2>5, <3>1, <3>2, <4>2, <4>3
    <3>3. CASE q # p
      <4>1. doing[q] = "walk" /\ at[q] <= i /\ byName[q][Groups[q][i].name] = NotListed
        BY <1>2, <3>3 DEF NextGroup, Return, Shape
      <4> QED
        BY <2>5, <3>1, <3>3, <4>1 DEF MissingStillMissing
    <3> QED
      BY <3>2, <3>3
  <2>10. OnePerGroup'
    <3> SUFFICES ASSUME NEW q \in Processes, NEW i \in There', NEW j \in There',
                        made'[q][i] # 0, made'[q][i] = made'[q][j]
                 PROVE  i = j
      BY DEF OnePerGroup
    <3>1. i \in Ids /\ j \in Ids
      BY DEF There
    <3>2. CASE i # id /\ j # id
      BY <2>4, <2>5, <3>1, <3>2 DEF Shape, There, OnePerGroup
    <3>3. CASE i = id /\ j # id
      BY <2>3, <2>5, <3>1, <3>3
    <3>4. CASE i # id /\ j = id
      BY <2>3, <2>5, <3>1, <3>4
    <3> QED
      BY <3>2, <3>3, <3>4
  <2> QED
    BY <2>6, <2>7, <2>8, <2>9, <2>10
<1> QED
  BY <1>1, <1>2 DEF CreateCollection

(* A PATCH gives a collection that no user has renamed the name it has.      *)
LEMMA UpdateKeeps ==
    ASSUME CreateInv, NEW p \in Processes, UpdateCollection(p)
    PROVE  CreateInv'
<1> USE DEF CreateInv
<1>1. NextGroup(p) \/ Return(p)
  BY DEF UpdateCollection
<1>2. CASE UNCHANGED collections
  BY <1>1, <1>2, NextGroupKeeps, ReturnKeeps DEF collections, NothingMade
<1>3. CASE Patched(byName[p][Current(p).name], Current(p).name, Wanted[p][at[p]])
  <2> DEFINE id == byName[p][Current(p).name]
  <2>1. Current(p).name \in Names
    BY WalkTyped DEF UpdateCollection
  <2>2. id \in Ids /\ id # NotListed
    BY <2>1 DEF UpdateCollection, Shape
  <2>3. nameOf' = [nameOf EXCEPT ![id] = Current(p).name] /\ UNCHANGED <<status, made>>
    BY <1>3 DEF Patched
  <2>4. \A q \in Processes, other \in Ids :
            made[q][other] # 0 => nameOf'[other] = nameOf[other]
    BY <2>1, <2>2, <2>3 DEF Shape, SnapshotHolds
  <2>5. /\ doing' \in [Processes -> {"idle", "walk"}]
        /\ at' \in [Processes -> Nat \ {0}]
        /\ byName' \in [Processes -> [Names -> Ids \cup {NotListed}]]
        /\ \A q \in Processes, name \in Names :
              byName'[q][name] # NotListed => byName'[q][name] = byName[q][name]
    BY <1>1, Onward
  <2>6. Shape'
    BY <2>1, <2>3, <2>5 DEF Shape
  <2>7. MadeUnderItsName' /\ OnePerGroup'
    BY <2>3, <2>4 DEF MadeUnderItsName, OnePerGroup, There
  <2>8. SnapshotHolds'
    <3> SUFFICES ASSUME NEW q \in Processes, NEW name \in Names,
                        byName'[q][name] # NotListed
                 PROVE  /\ status[byName'[q][name]] # "unused"
                        /\ \A r \in Processes : made[r][byName'[q][name]] # 0 =>
                              nameOf'[byName'[q][name]] = name
      BY <2>3 DEF SnapshotHolds
    <3>1. byName'[q][name] = byName[q][name] /\ byName[q][name] \in Ids
      BY <2>5 DEF Shape
    <3> QED
      BY <2>4, <3>1 DEF SnapshotHolds
  <2>9. MissingStillMissing'
    <3> SUFFICES ASSUME NEW q \in Processes, doing'[q] = "walk", NEW i \in DOMAIN Groups[q],
                        at'[q] <= i, byName'[q][Groups[q][i].name] = NotListed
                 PROVE  \A other \in Ids : made[q][other] # i
      BY <2>3 DEF MissingStillMissing
    <3>1. i \in Nat \ {0}
      BY GroupTyped
    <3>2. doing[q] = "walk" /\ at[q] <= i /\ byName[q][Groups[q][i].name] = NotListed
      <4>1. doing[q] = "walk" /\ at[q] <= at'[q] /\ byName'[q] = byName[q]
        BY <1>1, Onward
      <4>2. at[q] \in Nat /\ at'[q] \in Nat
        BY <2>5 DEF Shape
      <4> QED
        BY <3>1, <4>1, <4>2
    <3> QED
      BY <3>2 DEF MissingStillMissing
  <2> QED
    BY <2>6, <2>7, <2>8, <2>9
<1> QED
  BY <1>2, <1>3 DEF UpdateCollection

-----------------------------------------------------------------------------
(* The user.  What is renamed or deleted is no longer counted as made.       *)
LEMMA UnmarkedKeeps ==
    ASSUME CreateInv, NEW id \in Ids, Unmarked(id), UNCHANGED processVars,
           status' \in [Ids -> {"unused", "there", "deleted"}],
           nameOf' \in [Ids -> Names],
           status[id] = "there", status'[id] # "unused",
           \A other \in Ids \ {id} :
              status'[other] = status[other] /\ nameOf'[other] = nameOf[other]
    PROVE  CreateInv'
<1> USE DEF CreateInv
<1>1. \A q \in Processes, other \in Ids :
          made'[q][other] = IF other = id THEN 0 ELSE made[q][other]
  BY DEF Unmarked, Shape
<1>2. Shape'
  BY DEF Shape, Unmarked, processVars
<1>3. MadeUnderItsName'
  BY <1>1 DEF MadeUnderItsName
<1>4. SnapshotHolds'
  BY <1>1 DEF SnapshotHolds, Shape, processVars
<1>5. MissingStillMissing'
  BY <1>1, GroupTyped DEF MissingStillMissing, processVars
<1>6. OnePerGroup'
  BY <1>1 DEF OnePerGroup, There, MadeUnderItsName
<1> QED
  BY <1>2, <1>3, <1>4, <1>5, <1>6

LEMMA UserKeeps ==
    ASSUME CreateInv, User
    PROVE  CreateInv'
<1> USE DEF CreateInv
<1>1. ASSUME UserCreates
      PROVE  CreateInv'
  <2>1. PICK name \in Names, labels \in UserFilters : Made(name, labels, MarkedByNone)
    BY <1>1 DEF UserCreates
  <2>2. MarkedByNone \in [Processes -> Nat] /\ \A q \in Processes : MarkedByNone[q] = 0
    BY DEF MarkedByNone
  <2>3. PICK id \in Ids :
            /\ status[id] = "unused"
            /\ \A q \in Processes : made[q][id] = 0
            /\ \A q \in Processes, other \in Names : byName[q][other] # id
            /\ status' = [status EXCEPT ![id] = "there"]
            /\ nameOf' = [nameOf EXCEPT ![id] = name]
            /\ made' = [q \in Processes |-> [made[q] EXCEPT ![id] = MarkedByNone[q]]]
    BY <2>1, <2>2, MadeIsNew
  <2>4. \A q \in Processes, other \in Ids : made'[q][other] = made[q][other]
    BY <2>2, <2>3 DEF Shape
  <2>5. UNCHANGED <<doing, byName, at>>
    BY <1>1 DEF UserCreates, processVars
  <2>6. Shape'
    BY <2>2, <2>3, <2>5 DEF Shape
  <2>7. MadeUnderItsName' /\ OnePerGroup'
    BY <2>3, <2>4 DEF Shape, MadeUnderItsName, OnePerGroup, There
  <2>8. SnapshotHolds'
    BY <2>3, <2>4, <2>5 DEF Shape, SnapshotHolds
  <2>9. MissingStillMissing'
    BY <2>4, <2>5 DEF MissingStillMissing
  <2> QED
    BY <2>6, <2>7, <2>8, <2>9
<1>2. ASSUME NEW id \in Ids, UserRenames(id)
      PROVE  CreateInv'
  <2>1. /\ Unmarked(id) /\ UNCHANGED processVars
        /\ status' = status /\ status[id] = "there"
        /\ nameOf' \in [Ids -> Names]
        /\ \A other \in Ids \ {id} : nameOf'[other] = nameOf[other]
    BY <1>2 DEF UserRenames, There, processVars, Shape
  <2> QED
    BY <2>1, UnmarkedKeeps DEF Shape
<1>3. ASSUME NEW id \in Ids, UserEdits(id)
      PROVE  CreateInv'
  BY <1>3 DEF UserEdits, processVars, Shape, SnapshotHolds, MissingStillMissing,
              MadeUnderItsName, OnePerGroup, There
<1>4. ASSUME NEW id \in Ids, UserDeletes(id)
      PROVE  CreateInv'
  <2>1. /\ Unmarked(id) /\ UNCHANGED processVars
        /\ status[id] = "there" /\ status'[id] = "deleted"
        /\ status' \in [Ids -> {"unused", "there", "deleted"}]
        /\ nameOf' \in [Ids -> Names]
        /\ \A other \in Ids \ {id} :
              status'[other] = status[other] /\ nameOf'[other] = nameOf[other]
    BY <1>4, SomeNameTyped DEF UserDeletes, There, processVars, Shape
  <2> QED
    BY <2>1, UnmarkedKeeps
<1> QED
  BY <1>1, <1>2, <1>3, <1>4 DEF User

LEMMA NextKeeps == CreateInv /\ [Next]_vars => CreateInv'
<1> SUFFICES ASSUME CreateInv, [Next]_vars PROVE CreateInv'
  OBVIOUS
<1>1. ASSUME NEW p \in Processes, Step(p) \/ Dies(p)
      PROVE  CreateInv'
  <2>1. CASE AlreadyInSync(p)
    BY <2>1, NextGroupKeeps DEF AlreadyInSync, collections, NothingMade
  <2>2. CASE EndPass(p) \/ Dies(p)
    BY <2>2, ReturnKeeps DEF EndPass, Dies, collections, NothingMade
  <2> QED
    BY <1>1, <2>1, <2>2, ListKeeps, CreateKeeps, UpdateKeeps DEF Step, Write
<1>2. CASE UNCHANGED vars
  BY <1>2 DEF vars, CreateInv, Shape, SnapshotHolds, MissingStillMissing,
              MadeUnderItsName, OnePerGroup, There
<1> QED
  BY <1>1, <1>2, UserKeeps DEF Next

(* Reconcile lists before it creates, and remembers in one pass what it      *)
(* listed: no process ever makes a second collection for a group while its   *)
(* first is there under its name (reconciler.go:58-83).  What two processes  *)
(* make for their groups of one name may be two collections.                 *)
THEOREM GroupsHaveOneCollection == Spec => []OnePerGroup
<1>1. CreateInv => OnePerGroup
  BY DEF CreateInv
<1> QED
  BY <1>1, InitCreate, NextKeeps, PTL DEF Spec

-----------------------------------------------------------------------------
(* Types.  Shape says all of TypeOK but the filters.                         *)
Filters ==
    /\ filter \in [Ids -> Seq(Labels)]
    /\ seen \in [Processes -> [Ids -> Seq(Labels)]]

LEMMA WantedTyped ==
    ASSUME NEW p \in Processes, NEW i \in DOMAIN Groups[p]
    PROVE  Wanted[p][i] \in Seq(Labels)
<1>1. Groups[p] \in Seq(Group) /\ Groups[p][i] \in Group
  BY GroupsAssumption
<1>2. Groups[p][i].labels \in Seq(Labels)
  BY <1>1 DEF Group
<1>3. Wanted[p][i] = Joined(Groups[p][i].labels)
  BY DEF Wanted
<1> QED
  BY <1>2, <1>3, JoinedSorts

LEMMA NoLabels == <<>> \in Seq(Labels)
  OBVIOUS

LEMMA OnwardFilters ==
    ASSUME Filters, NEW p \in Processes, NextGroup(p) \/ Return(p)
    PROVE  seen' \in [Processes -> [Ids -> Seq(Labels)]]
<1>1. [id \in Ids |-> <<>>] \in [Ids -> Seq(Labels)]
  BY NoLabels
<1>2. CASE NextGroup(p)
  BY <1>2 DEF Filters, NextGroup
<1>3. CASE Return(p)
  BY <1>1, <1>3 DEF Filters, Return
<1> QED
  BY <1>2, <1>3

LEMMA StepFilters ==
    ASSUME Shape, Filters, NEW p \in Processes, Step(p) \/ Dies(p)
    PROVE  Filters'
<1>1. CASE ListCollections(p)
  <2>1. filter' = filter
    BY <1>1 DEF ListCollections, collections
  <2>2. seen' = [seen EXCEPT ![p] = [id \in Ids |->
            IF \E name \in Names : byName'[p][name] = id THEN filter[id] ELSE <<>>]]
    BY <1>1 DEF ListCollections
  <2> QED
    BY <2>1, <2>2, NoLabels DEF Filters
<1>2. CASE Write(p)
  <2>1. InWalk(p) /\ (NextGroup(p) \/ Return(p))
    BY <1>2 DEF Write, CreateCollection, UpdateCollection
  <2>2. Wanted[p][at[p]] \in Seq(Labels)
    BY <2>1, WalkTyped, WantedTyped
  <2>3. filter' \in [Ids -> Seq(Labels)]
    BY <1>2, <2>2 DEF Filters, Write, CreateCollection, UpdateCollection, Made, Patched,
                      collections
  <2> QED
    BY <2>1, <2>3, OnwardFilters DEF Filters
<1>3. CASE AlreadyInSync(p) \/ EndPass(p) \/ Dies(p)
  <2>1. NextGroup(p) \/ Return(p)
    BY <1>3 DEF AlreadyInSync, EndPass, Dies
  <2>2. filter' = filter
    BY <1>3 DEF AlreadyInSync, EndPass, Dies, collections
  <2> QED
    BY <2>1, <2>2, OnwardFilters DEF Filters
<1> QED
  BY <1>1, <1>2, <1>3 DEF Step

LEMMA UserFiltersTyped ==
    ASSUME Filters, User
    PROVE  Filters'
<1>1. seen' = seen
  BY DEF User, UserCreates, UserRenames, UserEdits, UserDeletes, processVars
<1>2. filter' \in [Ids -> Seq(Labels)]
  BY UserFiltersAssumption, NoLabels
     DEF Filters, User, UserCreates, UserRenames, UserEdits, UserDeletes, Made
<1> QED
  BY <1>1, <1>2 DEF Filters

LEMMA TypedInv == Spec => [](CreateInv /\ Filters)
<1>1. Init => CreateInv /\ Filters
  BY InitCreate, NoLabels DEF Init, Filters
<1>2. CreateInv /\ Filters /\ [Next]_vars => Filters'
  <2> SUFFICES ASSUME CreateInv, Filters, [Next]_vars PROVE Filters'
    OBVIOUS
  <2>1. CASE UNCHANGED vars
    BY <2>1 DEF vars, Filters
  <2> QED
    BY <2>1, StepFilters, UserFiltersTyped DEF Next, CreateInv
<1> QED
  BY <1>1, <1>2, NextKeeps, PTL DEF Spec

(* Every filter on Readeck and in a snapshot is a list of labels, every      *)
(* snapshot knows ids and nothing else, and no process points before its     *)
(* first group (reconciler.go:58-97).                                        *)
THEOREM ReconcilerTypeCorrect == Spec => []TypeOK
<1>1. CreateInv /\ Filters => TypeOK
  BY DEF CreateInv, Shape, Filters, TypeOK
<1> QED
  BY <1>1, TypedInv, PTL

-----------------------------------------------------------------------------
(* What has settled.                                                         *)

(* Every comparison of a pass comes out equal.                               *)
LEMMA NothingToWrite ==
    ASSUME Shape, Settled, NEW p \in Processes
    PROVE  ~CreateCollection(p) /\ ~UpdateCollection(p)
<1>1. ASSUME InWalk(p)
      PROVE  /\ byName[p][Current(p).name] # NotListed
             /\ seen[p][byName[p][Current(p).name]] = Wanted[p][at[p]]
  <2>1. at[p] \in DOMAIN Groups[p] /\ doing[p] = "walk"
    BY <1>1, WalkTyped
  <2>2. at[p] <= at[p]
    BY <2>1 DEF Shape
  <2> QED
    BY <2>1, <2>2 DEF Settled, Current
<1> QED
  BY <1>1 DEF CreateCollection, UpdateCollection

(* A new snapshot is taken of settled collections.                           *)
LEMMA ListStaysSettled ==
    ASSUME Shape, Filters, Settled, NEW p \in Processes, ListCollections(p)
    PROVE  Settled'
<1>1. PICK listed \in [Names -> Ids \cup {NotListed}] :
          /\ \A name \in Names :
                IF Named(name) = {} THEN listed[name] = NotListed
                ELSE listed[name] \in Named(name)
          /\ byName' = [byName EXCEPT ![p] = listed]
  BY DEF ListCollections
<1>2. seen' = [seen EXCEPT ![p] = [id \in Ids |->
          IF \E name \in Names : byName'[p][name] = id THEN filter[id] ELSE <<>>]]
  BY DEF ListCollections
<1>3. /\ UNCHANGED <<status, nameOf, filter, at>>
      /\ \A q \in Processes \ {p} : doing'[q] = doing[q]
  BY DEF ListCollections, collections, Shape
<1>4. \A name : Named(name)' = Named(name)
  BY <1>3 DEF Named, There
<1> SUFFICES ASSUME NEW q \in Processes, NEW i \in DOMAIN Groups[q],
                    NEW name, name = Groups[q][i].name
             PROVE  /\ Named(name) # {}
                    /\ \A id \in Named(name) : filter[id] = Wanted[q][i]
                    /\ doing'[q] = "walk" /\ at[q] <= i =>
                          /\ byName'[q][name] # NotListed
                          /\ seen'[q][byName'[q][name]] = Wanted[q][i]
  BY <1>3, <1>4 DEF Settled
<1>5. /\ Named(name) # {}
      /\ \A id \in Named(name) : filter[id] = Wanted[q][i]
      /\ doing[q] = "walk" /\ at[q] <= i =>
            /\ byName[q][name] # NotListed
            /\ seen[q][byName[q][name]] = Wanted[q][i]
  BY DEF Settled
<1>6. name \in Names
  BY GroupTyped
<1>7. CASE q = p
  <2>1. byName'[q] = listed /\ listed[name] \in Named(name)
    BY <1>1, <1>5, <1>6, <1>7 DEF Shape
  <2>2. listed[name] \in Ids /\ listed[name] # NotListed
    BY <2>1, IdsAssumption DEF Named, There
  <2>3. seen'[q][listed[name]] = filter[listed[name]]
    BY <1>2, <1>6, <1>7, <2>1, <2>2 DEF Filters
  <2> QED
    BY <1>5, <2>1, <2>2, <2>3
<1>8. CASE q # p
  BY <1>1, <1>2, <1>3, <1>5, <1>8 DEF Shape, Filters
<1> QED
  BY <1>7, <1>8

(* A process that goes on, or forgets, leaves the others their snapshots.    *)
LEMMA OnwardStaysSettled ==
    ASSUME Shape, Filters, Settled, NEW p \in Processes,
           NextGroup(p) \/ Return(p), UNCHANGED collections
    PROVE  Settled'
<1>1. UNCHANGED <<status, nameOf, filter>>
  BY DEF collections
<1>2. \A name : Named(name)' = Named(name)
  BY <1>1 DEF Named, There
<1>3. \A q \in Processes : doing'[q] = "walk" =>
          /\ doing[q] = "walk" /\ at[q] <= at'[q]
          /\ byName'[q] = byName[q] /\ seen'[q] = seen[q]
  <2>1. \A q \in Processes : doing'[q] = "walk" => seen'[q] = seen[q]
    BY DEF Shape, Filters, NextGroup, Return
  <2> QED
    BY <2>1, Onward
<1>4. at \in [Processes -> Nat \ {0}] /\ at' \in [Processes -> Nat \ {0}]
  BY Onward DEF Shape
<1> SUFFICES ASSUME NEW q \in Processes, NEW i \in DOMAIN Groups[q],
                    NEW name, name = Groups[q][i].name
             PROVE  /\ Named(name) # {}
                    /\ \A id \in Named(name) : filter[id] = Wanted[q][i]
                    /\ doing'[q] = "walk" /\ at'[q] <= i =>
                          /\ byName'[q][name] # NotListed
                          /\ seen'[q][byName'[q][name]] = Wanted[q][i]
  BY <1>1, <1>2 DEF Settled
<1>5. i \in Nat
  BY GroupTyped
<1>6. doing'[q] = "walk" /\ at'[q] <= i => doing[q] = "walk" /\ at[q] <= i
  BY <1>3, <1>4, <1>5
<1> QED
  BY <1>3, <1>6 DEF Settled

(* Once all under the names of the groups has the labels of the groups, and  *)
(* the snapshots in use agree, it stays so until a user acts, and no process *)
(* writes: not in a later pass, not after a lost answer or a crash, and not  *)
(* between processes that have the group in common (reconciler.go:84-87).    *)
THEOREM SettledStaysSettled == Spec => StaysSettled
<1>1. CreateInv /\ Filters /\ [Next]_vars =>
          [Settled /\ ~User => Settled' /\ \A p \in Processes : ~Write(p)]_vars
  <2> SUFFICES ASSUME CreateInv, Filters, Next, Settled, ~User
               PROVE  Settled' /\ \A p \in Processes : ~Write(p)
    OBVIOUS
  <2>1. Shape /\ \A p \in Processes : ~Write(p)
    BY NothingToWrite DEF CreateInv, Write
  <2>2. PICK p \in Processes : Step(p) \/ Dies(p)
    BY DEF Next
  <2>3. CASE ListCollections(p)
    BY <2>1, <2>3, ListStaysSettled
  <2>4. CASE AlreadyInSync(p) \/ EndPass(p) \/ Dies(p)
    BY <2>1, <2>4, OnwardStaysSettled DEF AlreadyInSync, EndPass, Dies
  <2> QED
    BY <2>1, <2>2, <2>3, <2>4 DEF Step
<1> QED
  BY <1>1, TypedInv, PTL DEF Spec, StaysSettled

-----------------------------------------------------------------------------
(* What a pass delivers.                                                     *)

IdleAtFirst == \A p \in Processes : doing[p] = "idle" => at[p] = 1

LEMMA IdleInv == Spec => [](CreateInv /\ Filters /\ IdleAtFirst)
<1>1. Init => IdleAtFirst
  BY DEF Init, IdleAtFirst
<1>2. CreateInv /\ IdleAtFirst /\ [Next]_vars => IdleAtFirst'
  <2> SUFFICES ASSUME Shape, IdleAtFirst, [Next]_vars PROVE IdleAtFirst'
    BY DEF CreateInv
  <2>1. ASSUME NEW p \in Processes, NextGroup(p) \/ Return(p), doing[p] = "walk"
        PROVE  IdleAtFirst'
    BY <2>1 DEF NextGroup, Return, Shape, IdleAtFirst
  <2>2. ASSUME NEW p \in Processes, ListCollections(p)
        PROVE  IdleAtFirst'
    BY <2>2 DEF ListCollections, Shape, IdleAtFirst
  <2>3. ASSUME NEW p \in Processes, Step(p) \/ Dies(p), ~ListCollections(p)
        PROVE  (NextGroup(p) \/ Return(p)) /\ doing[p] = "walk"
    BY <2>3 DEF Step, Dies, Write, CreateCollection, UpdateCollection, AlreadyInSync,
                EndPass, InWalk, Shape
  <2>4. CASE User \/ UNCHANGED vars
    BY <2>4 DEF User, UserCreates, UserRenames, UserEdits, UserDeletes, processVars, vars,
                IdleAtFirst
  <2> QED
    BY <2>1, <2>2, <2>3, <2>4 DEF Next
<1> QED
  BY <1>1, <1>2, TypedInv, PTL DEF Spec

(* A process on its course takes nothing off the list of a name, and changes *)
(* only filters under the name of its current group, to those of the group.  *)
LEMMA OnlyItsGroup ==
    ASSUME Shape, Filters, NEW p \in Processes, Step(p) \/ Dies(p), OnCourse(p),
           NEW name \in Names, NEW id \in Named(name)
    PROVE  /\ id \in Named(name)'
           /\ \/ filter'[id] = filter[id]
              \/ /\ InWalk(p) /\ name = Current(p).name
                 /\ filter'[id] = Wanted[p][at[p]]
<1>1. id \in Ids /\ status[id] = "there" /\ nameOf[id] = name
  BY DEF Named, There
<1>2. CASE UNCHANGED collections
  BY <1>1, <1>2 DEF collections, Named, There
<1>3. CASE CreateCollection(p) /\ Made(Current(p).name, Wanted[p][at[p]], MarkedBy(p))
  <2>1. PICK new \in Unused : /\ status' = [status EXCEPT ![new] = "there"]
                              /\ nameOf' = [nameOf EXCEPT ![new] = Current(p).name]
                              /\ filter' = [filter EXCEPT ![new] = Wanted[p][at[p]]]
    BY <1>3 DEF Made
  <2>2. id # new /\ new \in Ids
    BY <1>1 DEF Unused
  <2> QED
    BY <1>1, <2>1, <2>2 DEF Shape, Filters, Named, There
<1>4. CASE UpdateCollection(p) /\ ~UNCHANGED collections
  <2> DEFINE old == byName[p][Current(p).name]
  <2>1. InWalk(p) /\ old # NotListed /\ Patched(old, Current(p).name, Wanted[p][at[p]])
    BY <1>4 DEF UpdateCollection
  <2>2. old \in Named(Current(p).name)
    <3>1. at[p] \in DOMAIN Groups[p] /\ doing[p] = "walk" /\ ~(at[p] < at[p])
      BY <2>1, WalkTyped DEF Shape
    <3> QED
      BY <2>1, <3>1 DEF OnCourse, Current
  <2>3. old \in Ids /\ nameOf[old] = Current(p).name
    BY <2>2 DEF Named, There
  <2>4. /\ status' = status
        /\ nameOf' = [nameOf EXCEPT ![old] = Current(p).name]
        /\ filter' = [filter EXCEPT ![old] = Wanted[p][at[p]]]
    BY <2>1 DEF Patched
  <2> HIDE DEF old
  <2>5. id \in Named(name)'
    BY <1>1, <2>3, <2>4 DEF Shape, Named, There
  <2>6. CASE id = old
    BY <1>1, <2>1, <2>3, <2>4, <2>5, <2>6 DEF Filters
  <2>7. CASE id # old
    BY <1>1, <2>3, <2>4, <2>5, <2>7 DEF Filters
  <2> QED
    BY <2>6, <2>7
<1>5. \/ UNCHANGED collections
      \/ CreateCollection(p) /\ Made(Current(p).name, Wanted[p][at[p]], MarkedBy(p))
      \/ UpdateCollection(p)
  BY DEF Step, Dies, Write, CreateCollection, ListCollections, AlreadyInSync, EndPass
<1> QED
  BY <1>2, <1>3, <1>4, <1>5

(* So a filter that is the one wanted of a group, by any process, stays.     *)
LEMMA WantedStays ==
    ASSUME Agreed, Shape, Filters, NEW p \in Processes, Step(p) \/ Dies(p), OnCourse(p),
           NEW q \in Processes, NEW i \in DOMAIN Groups[q],
           NEW id \in Named(Groups[q][i].name)
    PROVE  /\ id \in Named(Groups[q][i].name)'
           /\ filter[id] = Wanted[q][i] => filter'[id] = Wanted[q][i]
<1>1. Groups[q][i].name \in Names
  BY GroupTyped
<1>2. /\ id \in Named(Groups[q][i].name)'
      /\ \/ filter'[id] = filter[id]
         \/ /\ InWalk(p) /\ Groups[q][i].name = Current(p).name
            /\ filter'[id] = Wanted[p][at[p]]
  BY <1>1, OnlyItsGroup
<1>3. InWalk(p) => at[p] \in DOMAIN Groups[p]
  BY WalkTyped
<1>4. InWalk(p) /\ Groups[q][i].name = Current(p).name => Wanted[p][at[p]] = Wanted[q][i]
  BY <1>3 DEF Agreed, Current
<1> QED
  BY <1>2, <1>4

LEMMA InSyncStays ==
    ASSUME Agreed, Shape, Filters, NEW p \in Processes, Step(p) \/ Dies(p), OnCourse(p),
           NEW q \in Processes, NEW i \in DOMAIN Groups[q], GroupInSync(q, i)
    PROVE  GroupInSync(q, i)'
<1>1. PICK id \in Named(Groups[q][i].name) : filter[id] = Wanted[q][i]
  BY DEF GroupInSync
<1>2. id \in Named(Groups[q][i].name)' /\ filter'[id] = Wanted[q][i]
  BY <1>1, WantedStays
<1> QED
  BY <1>2 DEF GroupInSync

(* The group that a pass goes on from is in sync.                            *)
LEMMA DoneIsDone ==
    ASSUME Shape, Filters, NEW p \in Processes, OnCourse(p), NextGroup(p),
           Write(p) \/ AlreadyInSync(p), NEW i \in Nat, i = at[p]
    PROVE  GroupInSync(p, i)'
<1> DEFINE name == Groups[p][i].name
           listed == byName[p][name]
<1>1. InWalk(p)
  BY DEF Write, CreateCollection, UpdateCollection, AlreadyInSync
<1>2. /\ i \in DOMAIN Groups[p] /\ doing[p] = "walk" /\ ~(i < at[p])
      /\ name \in Names /\ name = Current(p).name
  BY <1>1, WalkTyped DEF Shape, Current
<1>3. listed # NotListed =>
          /\ listed \in Named(name)
          /\ seen[p][listed] = Wanted[p][i] => filter[listed] = Wanted[p][i]
  BY <1>2 DEF OnCourse
<1>4. ~Return(p)
  BY <1>2 DEF NextGroup, Return, Shape
<1> SUFFICES \E id \in Named(name)' : filter'[id] = Wanted[p][i]
  BY DEF GroupInSync
<1>5. CASE CreateCollection(p)
  <2>1. Made(name, Wanted[p][i], MarkedBy(p))
    BY <1>2, <1>4, <1>5 DEF CreateCollection
  <2>2. PICK id \in Ids : /\ status' = [status EXCEPT ![id] = "there"]
                          /\ nameOf' = [nameOf EXCEPT ![id] = name]
                          /\ filter' = [filter EXCEPT ![id] = Wanted[p][i]]
    BY <2>1 DEF Made, Unused
  <2> QED
    BY <2>2 DEF Shape, Filters, Named, There
<1>6. CASE UpdateCollection(p)
  <2>1. listed # NotListed /\ Patched(listed, name, Wanted[p][i])
    BY <1>2, <1>4, <1>6 DEF UpdateCollection
  <2>2. listed \in Ids /\ status[listed] = "there"
    BY <1>3, <2>1 DEF Named, There
  <2> QED
    BY <2>1, <2>2 DEF Patched, Shape, Filters, Named, There
<1>7. CASE AlreadyInSync(p)
  <2>1. /\ listed # NotListed /\ seen[p][listed] = Wanted[p][i]
        /\ UNCHANGED <<status, nameOf, filter>>
    BY <1>2, <1>7 DEF AlreadyInSync, collections
  <2> QED
    BY <1>3, <2>1 DEF Named, There
<1> QED
  BY <1>5, <1>6, <1>7 DEF Write

(* The process that steps stays on its course.                               *)
LEMMA StepsOnCourse ==
    ASSUME Agreed, Shape, Filters, IdleAtFirst, NEW p \in Processes,
           Step(p) \/ Dies(p), OnCourse(p)
    PROVE  OnCourse(p)'
<1>1. CASE ListCollections(p)
  <2>1. PICK listed \in [Names -> Ids \cup {NotListed}] :
            /\ \A name \in Names :
                  IF Named(name) = {} THEN listed[name] = NotListed
                  ELSE listed[name] \in Named(name)
            /\ byName' = [byName EXCEPT ![p] = listed]
    BY <1>1 DEF ListCollections
  <2>2. /\ UNCHANGED <<status, nameOf, filter>>
        /\ at'[p] = 1
        /\ seen' = [seen EXCEPT ![p] = [id \in Ids |->
              IF \E name \in Names : byName'[p][name] = id THEN filter[id] ELSE <<>>]]
    BY <1>1 DEF ListCollections, collections, IdleAtFirst
  <2>3. \A name : Named(name)' = Named(name)
    BY <2>2 DEF Named, There
  <2> SUFFICES ASSUME NEW i \in DOMAIN Groups[p],
                      byName'[p][Groups[p][i].name] # NotListed
               PROVE  /\ ~(i < 1)
                      /\ byName'[p][Groups[p][i].name] \in Named(Groups[p][i].name)
                      /\ seen'[p][byName'[p][Groups[p][i].name]]
                            = filter[byName'[p][Groups[p][i].name]]
    <3>1. \A i \in DOMAIN Groups[p] : ~(i < 1)
      BY GroupTyped
    <3> QED
      BY <2>2, <2>3, <3>1 DEF OnCourse
  <2>4. Groups[p][i].name \in Names /\ i \in Nat \ {0}
    BY GroupTyped
  <2>5. byName'[p][Groups[p][i].name] \in Named(Groups[p][i].name)
    BY <2>1, <2>4 DEF Shape
  <2>6. byName'[p][Groups[p][i].name] \in Ids
    BY <2>5 DEF Named, There
  <2> QED
    BY <2>2, <2>4, <2>5, <2>6 DEF Filters
<1>2. CASE Return(p)
  BY <1>2 DEF Return, OnCourse, Shape
<1>3. CASE NextGroup(p) /\ (Write(p) \/ AlreadyInSync(p))
  <2>1. \A i \in Nat : i = at[p] => GroupInSync(p, i)'
    BY <1>3, DoneIsDone
  <2>2. /\ at'[p] = at[p] + 1 /\ at[p] \in Nat /\ doing[p] = "walk"
        /\ byName' = byName /\ seen' = seen
    BY <1>3, WalkTyped
       DEF NextGroup, Shape, Write, CreateCollection, UpdateCollection, AlreadyInSync
  <2> SUFFICES ASSUME NEW i \in DOMAIN Groups[p]
               PROVE  LET id == byName[p][Groups[p][i].name]
                      IN IF i < at[p] + 1 THEN GroupInSync(p, i)'
                         ELSE id # NotListed =>
                                  /\ id \in Named(Groups[p][i].name)'
                                  /\ seen[p][id] = Wanted[p][i] => filter'[id] = Wanted[p][i]
    BY <2>2 DEF OnCourse, GroupInSync
  <2>3. i \in Nat
    BY GroupTyped
  <2>4. CASE i < at[p]
    BY <2>2, <2>3, <2>4, InSyncStays DEF OnCourse
  <2>5. CASE i = at[p]
    <3>1. i < at[p] + 1
      BY <2>2, <2>5
    <3>2. GroupInSync(p, i)'
      BY <2>1, <2>3, <2>5
    <3> QED
      BY <3>1, <3>2
  <2>6. CASE i > at[p]
    <3>1. ~(i < at[p]) /\ ~(i < at[p] + 1)
      BY <2>2, <2>3, <2>6
    <3>2. byName[p][Groups[p][i].name] # NotListed =>
              /\ byName[p][Groups[p][i].name] \in Named(Groups[p][i].name)
              /\ seen[p][byName[p][Groups[p][i].name]] = Wanted[p][i]
                    => filter[byName[p][Groups[p][i].name]] = Wanted[p][i]
      BY <2>2, <3>1 DEF OnCourse
    <3> QED
      BY <3>1, <3>2, WantedStays
  <2> QED
    BY <2>2, <2>3, <2>4, <2>5, <2>6
<1>4. ListCollections(p) \/ Return(p) \/ (NextGroup(p) /\ (Write(p) \/ AlreadyInSync(p)))
  BY DEF Step, Dies, Write, CreateCollection, UpdateCollection, AlreadyInSync, EndPass
<1> QED
  BY <1>1, <1>2, <1>3, <1>4

(* And so do the others.                                                     *)
LEMMA OthersOnCourse ==
    ASSUME Agreed, Shape, Filters, NEW p \in Processes, Step(p) \/ Dies(p), OnCourse(p),
           NEW q \in Processes \ {p}, OnCourse(q)
    PROVE  OnCourse(q)'
<1>1. doing'[q] = doing[q] /\ at'[q] = at[q] /\ byName'[q] = byName[q] /\ seen'[q] = seen[q]
  <2>1. NextGroup(p) \/ Return(p) \/ ListCollections(p)
    BY DEF Step, Dies, Write, CreateCollection, UpdateCollection, AlreadyInSync, EndPass
  <2> QED
    BY <2>1 DEF NextGroup, Return, ListCollections, Shape, Filters
<1> SUFFICES ASSUME doing[q] = "walk", NEW i \in DOMAIN Groups[q]
             PROVE  LET id == byName[q][Groups[q][i].name]
                    IN IF i < at[q] THEN GroupInSync(q, i)'
                       ELSE id # NotListed =>
                                /\ id \in Named(Groups[q][i].name)'
                                /\ seen[q][id] = Wanted[q][i] => filter'[id] = Wanted[q][i]
  BY <1>1 DEF OnCourse, GroupInSync
<1>2. CASE i < at[q]
  BY <1>2, InSyncStays DEF OnCourse
<1>3. CASE ~(i < at[q])
  <2>1. byName[q][Groups[q][i].name] # NotListed =>
            /\ byName[q][Groups[q][i].name] \in Named(Groups[q][i].name)
            /\ seen[q][byName[q][Groups[q][i].name]] = Wanted[q][i]
                  => filter[byName[q][Groups[q][i].name]] = Wanted[q][i]
    BY <1>3 DEF OnCourse
  <2> QED
    BY <1>3, <2>1, WantedStays
<1> QED
  BY <1>2, <1>3

(* Configs that agree on the labels of the names they share: while no user   *)
(* acts, a pass that comes to its end has put every group of its config in   *)
(* sync, in whatever order the steps of the processes fall and whichever of  *)
(* them fail, and no later step undoes it (reconciler.go:53-97).             *)
THEOREM PassesDoDeliver ==
    ASSUME Agreed
    PROVE  Spec => PassesDeliver
<1>1. CreateInv /\ Filters /\ IdleAtFirst /\ [Next]_vars =>
          [~User /\ (\A p \in Processes : OnCourse(p)) =>
              \A p \in Processes : /\ OnCourse(p)'
                                   /\ InSync(p) \/ EndPass(p) => InSync(p)']_vars
  <2> SUFFICES ASSUME Shape, Filters, IdleAtFirst, Next, ~User,
                      \A p \in Processes : OnCourse(p),
                      NEW q \in Processes
               PROVE  /\ OnCourse(q)'
                      /\ InSync(q) \/ EndPass(q) => InSync(q)'
    BY DEF CreateInv
  <2>1. PICK p \in Processes : Step(p) \/ Dies(p)
    BY DEF Next
  <2>2. OnCourse(q)'
    BY <2>1, StepsOnCourse, OthersOnCourse
  <2>3. EndPass(q) => InSync(q)
    <3> SUFFICES ASSUME EndPass(q), NEW i \in DOMAIN Groups[q]
                 PROVE  GroupInSync(q, i)
      BY DEF InSync
    <3>1. i \in 1 .. Len(Groups[q]) /\ Len(Groups[q]) \in Nat /\ at[q] \in Nat
      BY GroupTyped DEF Shape
    <3>2. doing[q] = "walk" /\ i < at[q]
      BY <3>1 DEF EndPass
    <3> QED
      BY <3>2 DEF OnCourse
  <2>4. ASSUME InSync(q) PROVE InSync(q)'
    <3>1. \A i \in DOMAIN Groups[q] : GroupInSync(q, i)
      BY <2>4 DEF InSync
    <3>2. \A i \in DOMAIN Groups[q] : GroupInSync(q, i)'
      BY <2>1, <3>1, InSyncStays
    <3> QED
      BY <3>2 DEF InSync
  <2> QED
    BY <2>2, <2>3, <2>4
<1> QED
  BY <1>1, IdleInv, PTL DEF Spec, PassesDeliver
=============================================================================
