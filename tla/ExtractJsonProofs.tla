------------------------- MODULE ExtractJsonProofs -------------------------
(***************************************************************************)
(* The scanner of ExtractJson stops with the value it started on, at any    *)
(* depth.  Its number is the stack's count of the first kind of bracket;    *)
(* that bracket is at the bottom of the stack, so the number is zero        *)
(* exactly when the stack is empty.                                         *)
(***************************************************************************)
EXTENDS ExtractJson, FiniteSetTheorems, SequenceTheorems, TLAPS

USE DEF Openers, Closers, Characters, Closing

Positions(stack, b) == {i \in 1 .. Len(stack) : stack[i] = b}

HowMany(stack, b) == Cardinality(Positions(stack, b))

(* The empty stack holds none of any kind.                                   *)
LEMMA NoneIsOpen ==
    ASSUME NEW b \in Openers
    PROVE  <<>> \in Seq(Openers) /\ Positions(<<>>, b) = {} /\ HowMany(<<>>, b) = 0
<1>1. <<>> \in Seq(Openers) /\ Len(<<>>) = 0
  BY EmptySeq
<1>2. Positions(<<>>, b) = {}
  BY <1>1 DEF Positions
<1> QED
  BY <1>1, <1>2, FS_EmptySet DEF HowMany

(* How many of a kind a stack holds is a number.                             *)
LEMMA HowManyType ==
    ASSUME NEW stack \in Seq(Openers), NEW b \in Openers
    PROVE  /\ IsFiniteSet(Positions(stack, b))
           /\ HowMany(stack, b) \in Nat
           /\ HowMany(stack, b) = 0 <=> Positions(stack, b) = {}
<1>1. IsFiniteSet(1 .. Len(stack)) /\ Positions(stack, b) \in SUBSET (1 .. Len(stack))
  BY FS_Interval DEF Positions
<1> QED
  BY <1>1, FS_Subset, FS_CardinalityType, FS_EmptySet DEF HowMany

(* Opening a bracket adds one of its kind.                                   *)
LEMMA PushCounts ==
    ASSUME NEW stack \in Seq(Openers), NEW c \in Openers, NEW b \in Openers
    PROVE  HowMany(Append(stack, c), b) = HowMany(stack, b) + IF c = b THEN 1 ELSE 0
<1>1. Positions(Append(stack, c), b) =
          IF c = b THEN Positions(stack, b) \cup {Len(stack) + 1} ELSE Positions(stack, b)
  BY DEF Positions
<1>2. Len(stack) + 1 \notin Positions(stack, b)
  BY DEF Positions
<1>3. IsFiniteSet(Positions(stack, b)) /\ HowMany(stack, b) \in Nat
  BY HowManyType
<1>4. Cardinality(Positions(stack, b) \cup {Len(stack) + 1}) = HowMany(stack, b) + 1
  BY <1>2, <1>3, FS_AddElement DEF HowMany
<1> QED
  BY <1>1, <1>3, <1>4 DEF HowMany

(* The beginning of a stack.                                                 *)
LEMMA Prefix ==
    ASSUME NEW stack \in Seq(Openers), NEW n \in 0 .. Len(stack)
    PROVE  /\ SubSeq(stack, 1, n) \in Seq(Openers)
           /\ Len(SubSeq(stack, 1, n)) = n
           /\ \A i \in 1 .. n : SubSeq(stack, 1, n)[i] = stack[i]
  OBVIOUS

(* Closing the bracket on top takes one of its kind away.                    *)
LEMMA PopCounts ==
    ASSUME NEW stack \in Seq(Openers), stack # <<>>, NEW b \in Openers
    PROVE  LET rest == SubSeq(stack, 1, Len(stack) - 1)
               top == stack[Len(stack)]
           IN /\ rest \in Seq(Openers)
              /\ HowMany(rest, b) = HowMany(stack, b) - IF top = b THEN 1 ELSE 0
              /\ rest # <<>> => rest[1] = stack[1]
              /\ rest = <<>> => top = stack[1]
<1> DEFINE rest == SubSeq(stack, 1, Len(stack) - 1)
           top == stack[Len(stack)]
<1>1. Len(stack) \in Nat \ {0} /\ Len(stack) - 1 \in 0 .. Len(stack) /\ top \in Openers
  BY EmptySeq
<1>2. /\ rest \in Seq(Openers) /\ Len(rest) = Len(stack) - 1
      /\ \A i \in 1 .. Len(stack) - 1 : rest[i] = stack[i]
  BY <1>1, Prefix
<1>3. Append(rest, top) = stack
  <2>1. /\ Append(rest, top) \in Seq(Openers) /\ Len(Append(rest, top)) = Len(stack)
        /\ \A i \in 1 .. Len(stack) : Append(rest, top)[i] = stack[i]
    BY <1>1, <1>2
  <2> QED
    BY <2>1, SeqEqual
<1>4. HowMany(stack, b) = HowMany(rest, b) + IF top = b THEN 1 ELSE 0
  BY <1>1, <1>2, <1>3, PushCounts
<1>5. HowMany(rest, b) \in Nat
  BY <1>2, HowManyType
<1>6. HowMany(rest, b) = HowMany(stack, b) - IF top = b THEN 1 ELSE 0
  BY <1>4, <1>5
<1>7. rest # <<>> => rest[1] = stack[1]
  BY <1>1, <1>2
<1>8. rest = <<>> => top = stack[1]
  <2>1. rest = <<>> => Len(rest) = 0
    BY EmptySeq
  <2> QED
    BY <1>1, <1>2, <2>1
<1> QED
  BY <1>2, <1>6, <1>7, <1>8

-----------------------------------------------------------------------------
(* The scanner's variables say of proper text what the parser's do.          *)
InStep ==
    /\ inString <=> lexeme # "value"
    /\ escaped <=> lexeme = "escape"
    /\ depth = HowMany(nest, open)
    /\ nest # <<>> => nest[1] = open
    /\ where = "inside" <=> nest # <<>>

ScanInv ==
    /\ TypeOK
    /\ where = "before" =>
        ~inString /\ ~escaped /\ lexeme = "value" /\ nest = <<>> /\ depth = 0 /\ proper
    /\ where = "inside" => depth > 0
    /\ where \in {"inside", "returned"} /\ proper => InStep

LEMMA StartKeepsInv ==
    ASSUME ScanInv, NEW c \in Characters, FindStart(c)
    PROVE  ScanInv'
<1>1. CASE c \in Openers
  <2>1. HowMany(<<c>>, c) = 1
    <3>1. Positions(<<c>>, c) = {1}
      BY DEF Positions
    <3> QED
      BY <3>1, FS_Singleton DEF HowMany
  <2>2. <<c>> \in Seq(Openers) /\ <<c>> # <<>> /\ <<c>>[1] = c
    BY <1>1
  <2>3. /\ where' = "inside" /\ open' = c /\ depth' = 1 /\ nest' = <<c>>
        /\ lexeme' = "value" /\ ~inString' /\ ~escaped' /\ proper'
        /\ UNCHANGED <<inString, escaped, lexeme, proper>>
    BY <1>1 DEF FindStart, ScanInv
  <2>4. TypeOK'
    BY <1>1, <2>2, <2>3 DEF ScanInv, TypeOK
  <2>5. InStep'
    BY <2>1, <2>2, <2>3 DEF InStep
  <2> QED
    BY <2>3, <2>4, <2>5 DEF ScanInv
<1>2. CASE c \notin Openers
  BY <1>2 DEF FindStart, ScanInv, TypeOK, InStep, scanVars
<1> QED
  BY <1>1, <1>2

LEMMA InStringKeepsInv ==
    ASSUME ScanInv, NEW c \in Characters, Follow(c),
           Skip(c) \/ Escape(c) \/ Quote(c) \/ Quoted(c)
    PROVE  ScanInv'
<1> USE DEF ScanInv, TypeOK, InStep, Follow, FollowValue, FollowString, scanner, reader
<1>1. CASE Skip(c)
  BY <1>1 DEF Skip
<1>2. CASE Escape(c)
  BY <1>2 DEF Escape
<1>3. CASE Quote(c)
  BY <1>3 DEF Quote
<1>4. CASE Quoted(c)
  BY <1>4 DEF Quoted
<1> QED
  BY <1>1, <1>2, <1>3, <1>4

LEMMA CountKeepsInv ==
    ASSUME ScanInv, NEW c \in Characters, Follow(c), Count(c)
    PROVE  ScanInv'
<1> USE DEF ScanInv, TypeOK
<1>1. /\ where = "inside" /\ ~escaped /\ ~inString /\ c # "quote" /\ depth \in Nat \ {0}
      /\ UNCHANGED <<open, inString, escaped>>
      /\ depth' = CASE c = open -> depth + 1
                    [] c = Closing[open] -> depth - 1
                    [] OTHER -> depth
      /\ where' = IF c = Closing[open] /\ depth' = 0 THEN "returned" ELSE "inside"
  BY DEF Count
<1>2. depth' \in Nat /\ (where' = "inside" => depth' > 0)
  BY <1>1
<1>3. CASE ~proper
  BY <1>1, <1>2, <1>3 DEF Follow, reader
<1>4. CASE proper
  <2>1. lexeme = "value" /\ FollowValue(c) /\ InStep
    BY <1>1, <1>4 DEF Follow, InStep
  <2>2. CASE c \in Openers
    <3>1. nest' = Append(nest, c) /\ nest' # <<>> /\ nest'[1] = nest[1]
      BY <1>1, <2>1, <2>2 DEF FollowValue, InStep
    <3>2. HowMany(nest', open) = HowMany(nest, open) + IF c = open THEN 1 ELSE 0
      BY <3>1, <2>2, PushCounts
    <3> QED
      BY <1>1, <1>2, <1>4, <2>1, <2>2, <3>1, <3>2 DEF FollowValue, InStep
  <2>3. CASE c \in Closers /\ Pops(c)
    <3> DEFINE top == nest[Len(nest)]
    <3>1. /\ nest # <<>> /\ top \in Openers /\ c = Closing[top]
          /\ nest' = SubSeq(nest, 1, Len(nest) - 1)
      BY <2>1, <2>3, EmptySeq DEF FollowValue, Pops
    <3>2. /\ nest' \in Seq(Openers)
          /\ HowMany(nest', open) = HowMany(nest, open) - IF top = open THEN 1 ELSE 0
          /\ nest' # <<>> => nest'[1] = nest[1]
          /\ nest' = <<>> => top = nest[1]
      BY <3>1, PopCounts
    <3>3. c = Closing[open] <=> top = open
      BY <3>1
    <3>4. depth' = HowMany(nest', open)
      BY <1>1, <2>1, <2>3, <3>2, <3>3 DEF InStep
    <3>5. nest' = <<>> <=> depth' = 0 /\ c = Closing[open]
      <4>1. ASSUME nest' = <<>>
            PROVE  depth' = 0 /\ c = Closing[open]
        <5>1. top = open
          BY <4>1, <2>1, <3>1, <3>2 DEF InStep
        <5>2. HowMany(nest', open) = 0
          BY <4>1, NoneIsOpen
        <5> QED
          BY <5>1, <5>2, <3>3, <3>4
      <4>2. ASSUME nest' # <<>>
            PROVE  depth' # 0
        <5>1. 1 \in Positions(nest', open)
          BY <4>2, <2>1, <3>1, <3>2, EmptySeq DEF InStep, Positions
        <5> QED
          BY <5>1, <3>2, <3>4, HowManyType
      <4> QED
        BY <4>1, <4>2
    <3>6. InStep'
      BY <1>1, <2>1, <2>3, <3>1, <3>2, <3>4, <3>5 DEF FollowValue, InStep
    <3> QED
      BY <1>1, <1>2, <2>1, <2>3, <3>2, <3>6 DEF FollowValue
  <2>4. CASE c \in Closers /\ ~Pops(c)
    BY <1>1, <1>2, <2>1, <2>4 DEF FollowValue
  <2>5. CASE c \notin Openers \cup Closers
    BY <1>1, <1>2, <2>1, <2>5 DEF FollowValue, InStep
  <2> QED
    BY <2>2, <2>3, <2>4, <2>5
<1> QED
  BY <1>3, <1>4

LEMMA ScanInvHolds == Spec => []ScanInv
<1>1. Init => ScanInv
  <2> SUFFICES ASSUME Init PROVE ScanInv
    OBVIOUS
  <2>1. nest \in Seq(Openers) /\ depth \in Nat
    BY NoneIsOpen DEF Init
  <2> QED
    BY <2>1 DEF Init, ScanInv, TypeOK
<1>2. ScanInv /\ [Next]_scanVars => ScanInv'
  <2> SUFFICES ASSUME ScanInv, [Next]_scanVars
               PROVE  ScanInv'
    OBVIOUS
  <2>1. ASSUME NEW c \in Characters, FindStart(c) \/ Scan(c)
        PROVE  ScanInv'
    BY <2>1, StartKeepsInv, InStringKeepsInv, CountKeepsInv DEF Scan
  <2>2. CASE EndOfText
    BY <2>2 DEF EndOfText, ScanInv, TypeOK, InStep, reader
  <2>3. CASE UNCHANGED scanVars
    BY <2>3 DEF scanVars, ScanInv, TypeOK, InStep
  <2> QED
    BY <2>1, <2>2, <2>3 DEF Next, Read
<1> QED
  BY <1>1, <1>2, PTL DEF Spec

(* At every depth, proper JSON ends for the scanner where it ends for a      *)
(* parser (classifier.go:90-125).                                            *)
THEOREM ScannerStopsWithTheValue == Spec => []StopsWithTheValue
<1>1. ScanInv => StopsWithTheValue
  BY DEF ScanInv, InStep, StopsWithTheValue, TypeOK
<1> QED
  BY <1>1, ScanInvHolds, PTL

(* And keeps to its types: the count of the brackets never goes below zero.  *)
LEMMA ScannerTyped == Spec => []TypeOK
<1>1. ScanInv => TypeOK
  BY DEF ScanInv
<1> QED
  BY <1>1, ScanInvHolds, PTL
=============================================================================
