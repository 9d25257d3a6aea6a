-------------------------------- MODULE Call --------------------------------
(***************************************************************************)
(* What Pipeline takes a call of the LLM client to be: it is answered, once *)
(* and only while its context is open, or it fails; a signal closes the     *)
(* context.  LlmChat is shown to implement this.                            *)
(***************************************************************************)
VARIABLES outcome, signalled

callVars == <<outcome, signalled>>

Init == outcome = "open" /\ signalled \in BOOLEAN

Answer ==
    /\ outcome = "open" /\ ~signalled
    /\ outcome' = "answered"
    /\ UNCHANGED signalled

Fail ==
    /\ outcome = "open"
    /\ outcome' = "failed"
    /\ UNCHANGED signalled

Signal ==
    /\ ~signalled /\ signalled' = TRUE
    /\ UNCHANGED outcome

Next == Answer \/ Fail \/ Signal

Spec == Init /\ [][Next]_callVars
=============================================================================
