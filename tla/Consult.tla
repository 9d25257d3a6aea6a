------------------------------ MODULE Consult ------------------------------
(***************************************************************************)
(* Asking the LLM about one bookmark (internal/classifier/pipeline.go,      *)
(* steps 5 and 6 of Classify): the article is cut to fit into the prompt,   *)
(* the call of LlmChat is made, and what it answers is read by the scanner  *)
(* of ExtractJson and decoded.  Pipeline takes all of it as one step.       *)
(*                                                                         *)
(* A text is a sequence of bytes: a space, any other byte that is a         *)
(* character, and the first and second byte of a character of two.          *)
(***************************************************************************)
EXTENDS LlmChat, Sequences, FiniteSets

CONSTANTS
    Articles,       \* article bodies, sequences of Bytes
    MaxInputChars,  \* llm.max_input_chars
    Confidences,    \* what the LLM may write as its confidence, in percent
    MaxDepth        \* bound: brackets open at a time in an answer

Bytes == {"space", "letter", "lead", "tail"}

ASSUME ConsultAssumption ==
    /\ Articles \subseteq Seq(Bytes)
    /\ MaxInputChars \in Nat \ {0}
    /\ Confidences \subseteq Int

VARIABLES
    step,       \* where Classify is in steps 5 and 6
    body,       \* the article
    prompt,     \* what the prompt holds of it
    confidence, \* what step 6 ends with, or None
    where, open, depth, inString, escaped, lexeme, nest, proper

Scanner == INSTANCE ExtractJson

scanned == <<where, open, depth, inString, escaped, lexeme, nest, proper>>
consultVars == <<vars, step, body, prompt, confidence, scanned>>

None == -1

ConsultTypeOK ==
    /\ TypeOK /\ Scanner!TypeOK
    /\ step \in {"prompt", "ask", "chat", "read", "decoded", "failed"}
    /\ body \in Seq(Bytes) /\ prompt \in Seq(Bytes)
    /\ confidence \in {None} \cup 0 .. 100

ConsultInit ==
    /\ Init /\ Scanner!Init
    /\ step = "prompt"
    /\ body \in Articles
    /\ prompt = <<>>
    /\ confidence = None

-----------------------------------------------------------------------------
(* Truncate: the prompt takes so many runes of the article, and no part of   *)
(* a word unless the first word alone is too long.                           *)

Greatest(S) == CHOOSE i \in S : \A j \in S : i >= j

RuneCount(text) == Cardinality({i \in DOMAIN text : text[i] # "tail"})

(* The loop over the runes: the length, in bytes, of the first max runes.    *)
ByteIndex(text, max) ==
    Greatest({i \in DOMAIN text : RuneCount(SubSeq(text, 1, i)) = max})

SpacesOf(text) == {i \in DOMAIN text : text[i] = "space"}

FirstSpace(text) ==
    IF SpacesOf(text) = {} THEN 0
    ELSE CHOOSE i \in SpacesOf(text) : \A j \in SpacesOf(text) : i <= j

LastSpace(text) == Greatest(SpacesOf(text) \cup {0})

Truncate(text, max) ==
    LET prefix == SubSeq(text, 1, ByteIndex(text, max))
    IN CASE max <= 0 -> <<>>
         [] max > 0 /\ RuneCount(text) <= max -> text
         [] OTHER -> IF LastSpace(prefix) = 0 THEN prefix
                     ELSE SubSeq(prefix, 1, LastSpace(prefix) - 1)

BuildUserPrompt ==
    /\ step = "prompt"
    /\ prompt' = Truncate(body, MaxInputChars)
    /\ step' = "ask"
    /\ UNCHANGED <<vars, body, confidence, scanned>>

(* The request is on its way, and its text is not looked at again.           *)
StartChat ==
    /\ step = "ask"
    /\ step' = "chat"
    /\ body' = <<>> /\ prompt' = <<>>
    /\ UNCHANGED <<vars, confidence, scanned>>

ChatStep ==
    /\ step = "chat"
    /\ Step
    /\ step' = CASE phase' = "answered" -> "read"
                 [] phase' = "failed" -> "failed"
                 [] OTHER -> "chat"
    /\ UNCHANGED <<body, prompt, confidence, scanned>>

ReadAnswer ==
    /\ step = "read"
    /\ Scanner!Next
    /\ UNCHANGED <<vars, step, body, prompt, confidence>>

-----------------------------------------------------------------------------
(* ParseClassification, after extractJSON.  Only an object decodes, or an    *)
(* answer without brackets that is the literal null; and an object need not  *)
(* be of the right form.                                                     *)

Unclamped(percent) == percent

Clamped(percent) ==
    CASE percent < 0 -> 0
      [] percent > 100 -> 100
      [] OTHER -> percent

MayDecode ==
    \/ where = "returned" /\ proper /\ open = "lbrace"
    \/ where = "unchanged"

ParseClassification ==
    /\ step = "read" /\ where \in {"returned", "unbalanced", "unchanged"}
    /\ \/ /\ MayDecode
          /\ \E percent \in IF where = "returned" THEN Confidences ELSE {0} :
                confidence' = Clamped(percent)
          /\ step' = "decoded"
       \/ /\ step' = "failed"
          /\ UNCHANGED confidence
    /\ UNCHANGED <<vars, body, prompt, scanned>>

-----------------------------------------------------------------------------
(* The signal may come at any time; it is local work that does not see it.   *)
CancelAnywhere ==
    /\ Cancel
    /\ UNCHANGED <<step, body, prompt, confidence, scanned>>

ConsultStep == BuildUserPrompt \/ StartChat \/ ChatStep \/ ReadAnswer \/ ParseClassification

(* Classify goes on, or has returned its error.                              *)
ConsultOver == step \in {"decoded", "failed"} /\ UNCHANGED consultVars

ConsultNext == ConsultStep \/ CancelAnywhere \/ ConsultOver

ConsultSafety == ConsultInit /\ [][ConsultNext]_consultVars

(* A Go routine that waits for nothing but the call's timers and requests;   *)
(* a request comes to an end if it has a deadline, or its context is closed. *)
ConsultSpec == ConsultSafety /\ WF_consultVars(~Hangs /\ ConsultStep)

-----------------------------------------------------------------------------
(* Properties.                                                               *)

Begins(text, longer) ==
    Len(text) <= Len(longer) /\ text = SubSeq(longer, 1, Len(text))

WithinLimit(text, i) == RuneCount(SubSeq(text, 1, i)) <= MaxInputChars

(* The prompt holds as much of the beginning of the article as Truncate's    *)
(* loops leave (truncate.go:16-45): all of it if it has max_input_chars      *)
(* characters or fewer.  Else it ends right before a space that is one of    *)
(* the first max_input_chars characters, and no later one is; or, if none of *)
(* them is a space, it is all of them.  A last word that ends at the limit   *)
(* is dropped, though the comment (truncate.go:7-9) would keep it.           *)
PromptFits ==
    step = "ask" =>
        /\ Begins(prompt, body)
        /\ RuneCount(body) <= MaxInputChars => prompt = body
        /\ RuneCount(body) > MaxInputChars =>
              LET spaces == {i \in DOMAIN body : body[i] = "space" /\ WithinLimit(body, i)}
                  end == Len(prompt) + 1
              IN IF spaces = {} THEN RuneCount(prompt) = MaxInputChars /\ body[end] # "tail"
                 ELSE end \in spaces /\ \A i \in spaces : i <= end

(* See ExtractJson: the answer is cut where its JSON value ends.             *)
StopsWithTheValue == Scanner!StopsWithTheValue
=============================================================================
