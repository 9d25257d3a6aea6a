---------------------------- MODULE ExtractJson ----------------------------
(***************************************************************************)
(* extractJSON (internal/llm/classifier.go): finding the JSON value in what *)
(* an LLM wrote around it.  The scanner keeps a number where a parser keeps *)
(* a stack: it counts the brackets of the kind it met first, and leaves     *)
(* those of the other kind alone.                                           *)
(*                                                                         *)
(* The text is whatever the LLM answered, and becomes known character by    *)
(* character.  "lexeme", "nest" and "proper" are history variables: a       *)
(* parser that reads along, with its own idea of strings and a real stack.  *)
(***************************************************************************)
EXTENDS Integers, Sequences, FiniteSets

CONSTANT MaxDepth       \* bound: brackets open at a time

VARIABLES
    where,      \* before the first bracket, inside, or how the scan ended
    open,       \* the first bracket
    depth, inString, escaped,
    lexeme,     \* history: value, string, or escape (after a \ in a string)
    nest,       \* history: the brackets that are open
    proper      \* history: has every bracket closed the one it had to close?

scanner == <<where, open, depth, inString, escaped>>
reader == <<lexeme, nest, proper>>
scanVars == <<where, open, depth, inString, escaped, lexeme, nest, proper>>

Openers == {"lbrace", "lbracket"}

Closing == [b \in Openers |-> IF b = "lbrace" THEN "rbrace" ELSE "rbracket"]

Closers == {"rbrace", "rbracket"}

(* "x" is any other character. *)
Characters == Openers \cup Closers \cup {"quote", "backslash", "x"}

TypeOK ==
    /\ where \in {"before", "inside", "returned", "unbalanced", "unchanged"}
    /\ open \in Openers
    /\ depth \in Nat
    /\ inString \in BOOLEAN /\ escaped \in BOOLEAN
    /\ lexeme \in {"value", "string", "escape"}
    /\ nest \in Seq(Openers)
    /\ proper \in BOOLEAN

Init ==
    /\ where = "before"
    /\ open = "lbrace"
    /\ depth = 0
    /\ inString = FALSE /\ escaped = FALSE
    /\ lexeme = "value"
    /\ nest = <<>>
    /\ proper = TRUE

-----------------------------------------------------------------------------
(* The parser that reads along.                                             *)

Pops(c) == nest # <<>> /\ c = Closing[nest[Len(nest)]]

FollowValue(c) ==
    /\ lexeme' = IF c = "quote" THEN "string" ELSE "value"
    /\ nest' = CASE c \in Openers -> Append(nest, c)
                 [] c \in Closers /\ Pops(c) -> SubSeq(nest, 1, Len(nest) - 1)
                 [] OTHER -> nest
    /\ proper' = (proper /\ c # "backslash" /\ (c \in Closers => Pops(c)))

FollowString(c) ==
    /\ lexeme' = CASE lexeme = "escape" -> "string"
                   [] lexeme = "string" /\ c = "backslash" -> "escape"
                   [] lexeme = "string" /\ c = "quote" -> "value"
                   [] OTHER -> lexeme
    /\ UNCHANGED <<nest, proper>>

(* Once the text is no JSON there is nothing to follow.                      *)
Follow(c) ==
    IF ~proper THEN UNCHANGED reader
    ELSE IF lexeme = "value" THEN FollowValue(c)
    ELSE FollowString(c)

-----------------------------------------------------------------------------
(* The scanner.                                                              *)

(* strings.IndexAny(s, "{["), then the loop's first turn, at the bracket.    *)
FindStart(c) ==
    /\ where = "before"
    /\ IF c \in Openers
       THEN /\ where' = "inside" /\ open' = c /\ depth' = 1
            /\ nest' = <<c>>
            /\ UNCHANGED <<inString, escaped, lexeme, proper>>
       ELSE UNCHANGED scanVars

Skip(c) ==
    /\ where = "inside" /\ escaped
    /\ escaped' = FALSE
    /\ UNCHANGED <<where, open, depth, inString>>

IgnoreBackslash(c) ==
    /\ where = "inside" /\ ~escaped /\ inString /\ c = "backslash"
    /\ UNCHANGED scanner

Escape(c) ==
    /\ where = "inside" /\ ~escaped /\ inString /\ c = "backslash"
    /\ escaped' = TRUE
    /\ UNCHANGED <<where, open, depth, inString>>

Quote(c) ==
    /\ where = "inside" /\ ~escaped /\ c = "quote"
    /\ inString' = ~inString
    /\ UNCHANGED <<where, open, depth, escaped>>

Quoted(c) ==
    /\ where = "inside" /\ ~escaped /\ inString /\ c \notin {"backslash", "quote"}
    /\ UNCHANGED scanner

(* Outside strings, only the first kind of bracket counts.                   *)
Count(c) ==
    /\ where = "inside" /\ ~escaped /\ ~inString /\ c # "quote"
    /\ c \in Openers => depth < MaxDepth /\ Len(nest) < MaxDepth
    /\ depth' = CASE c = open -> depth + 1
                  [] c = Closing[open] -> depth - 1
                  [] OTHER -> depth
    /\ where' = IF c = Closing[open] /\ depth' = 0 THEN "returned" ELSE "inside"
    /\ UNCHANGED <<open, inString, escaped>>

Scan(c) == (Skip(c) \/ Escape(c) \/ Quote(c) \/ Quoted(c) \/ Count(c)) /\ Follow(c)

(* The text ends: all of it is the answer, or what came since the bracket.   *)
EndOfText ==
    /\ where \in {"before", "inside"}
    /\ where' = IF where = "before" THEN "unchanged" ELSE "unbalanced"
    /\ UNCHANGED <<open, depth, inString, escaped, reader>>

Read == \E c \in Characters : FindStart(c) \/ Scan(c)

Next == Read \/ EndOfText

Spec == Init /\ [][Next]_scanVars

-----------------------------------------------------------------------------
(* As long as the text from the first bracket on is proper JSON, the scanner *)
(* returns with the bracket that closes the first one, neither earlier nor   *)
(* later, though it has no stack: brackets of the other kind, and brackets,  *)
(* quotes and backslashes in strings do not mislead it                       *)
(* (classifier.go:90-125).                                                   *)
StopsWithTheValue ==
    proper /\ where \in {"inside", "returned"} => (where = "returned" <=> nest = <<>>)
=============================================================================
