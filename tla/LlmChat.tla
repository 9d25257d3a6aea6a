------------------------------ MODULE LlmChat ------------------------------
(***************************************************************************)
(* One call of llm.Client.Chat (internal/llm/client.go): a request to the  *)
(* LLM, retried after 429 and 5xx with a growing delay, inside a context   *)
(* that a signal cancels.  Pipeline takes the whole call as one step that  *)
(* answers or fails; this module says that it does either, and how soon,   *)
(* or waits for a request without a deadline.                              *)
(*                                                                         *)
(* Time is counted in ticks, of any length.  A step takes the time that is *)
(* added to "elapsed"; what it does between two waits takes none.          *)
(***************************************************************************)
EXTENDS Integers

CONSTANTS
    MaxRetries,     \* maxRetries
    BaseBackoff,    \* baseBackoff, in ticks
    MaxBackoff,     \* maxBackoff, in ticks
    BackoffJitter,  \* backoffJitter, in ticks: the jitter is below it
    Timeouts,       \* what llm.timeout may be, in ticks: nothing checks it
    Forever         \* bound: times are not told apart from here on

ASSUME BackoffAssumption ==
    /\ MaxRetries \in Nat /\ BaseBackoff \in Nat /\ MaxBackoff \in Nat
    /\ BackoffJitter \in Nat \ {0} /\ Timeouts \subseteq Int /\ Forever \in Nat

VARIABLES
    phase,      \* where the call is
    attempt,    \* the loop's counter
    last,       \* the outcome of the last request, none before the first
    requests,   \* history: the requests sent
    elapsed,    \* history: time since the call began
    cancelled,  \* the context
    timeout     \* the http.Client's timeout; a negative one means no deadline

vars == <<phase, attempt, last, requests, elapsed, cancelled, timeout>>

Outcomes == {"none", "answer", "retryable", "permanent"}

Returned == {"answered", "failed"}

TypeOK ==
    /\ phase \in {"loop", "sleep", "woken", "request"} \cup Returned
    /\ attempt \in 0 .. MaxRetries + 1
    /\ last \in Outcomes
    /\ requests \in 0 .. MaxRetries + 1
    /\ elapsed \in 0 .. Forever
    /\ cancelled \in BOOLEAN
    /\ timeout \in Timeouts

Init ==
    /\ phase = "loop"
    /\ attempt = 0
    /\ last = "none"
    /\ requests = 0
    /\ elapsed = 0
    /\ cancelled \in BOOLEAN
    /\ timeout \in Timeouts

-----------------------------------------------------------------------------
Goto(where) ==
    /\ phase' = where
    /\ UNCHANGED <<attempt, last, requests, elapsed, cancelled, timeout>>

Passes(time) ==
    elapsed' = IF elapsed + time < Forever THEN elapsed + time ELSE Forever

(* sleepWithBackoff's delay: 1 << (attempt - 1) times the base, capped.      *)
Delay(n) ==
    LET delay == BaseBackoff * 2 ^ (n - 1)
    IN IF delay > MaxBackoff THEN MaxBackoff ELSE delay

(* The head of the loop: its condition, then the context.                    *)
GiveUpQuietly ==
    /\ phase = "loop" /\ attempt > MaxRetries
    /\ Goto("answered")

GiveUp ==
    /\ phase = "loop" /\ attempt > MaxRetries
    /\ Goto("failed")

SeeCancelled ==
    /\ phase = "loop" /\ attempt <= MaxRetries /\ cancelled
    /\ Goto("failed")

TryForever ==
    /\ phase = "loop" /\ ~cancelled
    /\ Goto(IF attempt > 0 THEN "sleep" ELSE "request")

TryAgain ==
    /\ phase = "loop" /\ attempt <= MaxRetries /\ ~cancelled
    /\ Goto(IF attempt > 0 THEN "sleep" ELSE "request")

(* The timer runs out, or the context is done first (at a time Cancel gives). *)
Sleep ==
    /\ phase = "sleep" /\ ~cancelled
    /\ \E jitter \in 0 .. BackoffJitter - 1 : Passes(Delay(attempt) + jitter)
    /\ phase' = "woken"
    /\ UNCHANGED <<attempt, last, requests, cancelled, timeout>>

Interrupted == phase = "sleep" /\ cancelled /\ Goto("failed")

(* select: of a timer and a context that are both ready, either is taken.    *)
Wake == phase = "woken" /\ (Goto("request") \/ (cancelled /\ Goto("failed")))

RetryAlways(outcome) == TRUE

(* Only a 429 or a 5xx is a retryableError: not a timeout, a refused         *)
(* connection, a bad status, a body that does not parse, or no content.      *)
ShouldRetry(outcome) == outcome = "retryable"

Fails(outcome) ==
    /\ last' = outcome
    /\ IF ShouldRetry(outcome)
       THEN phase' = "loop" /\ attempt' = attempt + 1
       ELSE phase' = "failed" /\ UNCHANGED attempt

(* How long the http.Client lets a request take.                             *)
LongestUntimed == Forever

Longest == IF timeout > 0 THEN timeout ELSE Forever

(* doOnce.  With a cancelled context nothing is sent, and the error is not   *)
(* one to retry; a timeout is not either.                                    *)
RequestAnyway ==
    /\ phase = "request"
    /\ requests' = requests + 1
    /\ \E time \in 0 .. Longest :
          /\ Passes(time)
          /\ \/ last' = "answer" /\ phase' = "answered" /\ UNCHANGED attempt
             \/ \E outcome \in {"retryable", "permanent"} : Fails(outcome)
    /\ UNCHANGED <<cancelled, timeout>>

Request ==
    /\ phase = "request"
    /\ IF cancelled THEN Fails("permanent") /\ UNCHANGED <<requests, elapsed>>
       ELSE /\ requests' = requests + 1
            /\ \E time \in 0 .. Longest :
                  /\ Passes(time)
                  /\ \/ last' = "answer" /\ phase' = "answered" /\ UNCHANGED attempt
                     \/ \E outcome \in {"retryable", "permanent"} : Fails(outcome)
    /\ UNCHANGED <<cancelled, timeout>>

(* The signal, at any time of a wait.  A request on the wire is cut short by *)
(* it: it then counts as one that failed in the time so far, which Request   *)
(* allows.                                                                   *)
Cancel ==
    /\ ~cancelled
    /\ cancelled' = TRUE
    /\ IF phase = "sleep"
       THEN \E time \in 0 .. Delay(attempt) + BackoffJitter - 1 : Passes(time)
       ELSE UNCHANGED elapsed
    /\ UNCHANGED <<phase, attempt, last, requests, timeout>>

(* The call has returned, and its process goes on with other things.         *)
Over == phase \in Returned /\ UNCHANGED vars

Step == GiveUp \/ SeeCancelled \/ TryAgain \/ Sleep \/ Interrupted \/ Wake \/ Request

Next == Step \/ Cancel \/ Over

Spec == Init /\ [][Next]_vars

(* A request without a deadline may never be answered: then only the signal  *)
(* ends it.                                                                  *)
Hangs == phase = "request" /\ timeout <= 0 /\ ~cancelled

-----------------------------------------------------------------------------
(* Properties.                                                               *)

(* However the server behaves, a call whose requests have a deadline takes no *)
(* longer than they can and the delays between them: the daemon that waits   *)
(* for it is held up so long and no longer (client.go:66-69, 182-196).       *)
TimeBound ==
    (MaxRetries + 1) * timeout + MaxRetries * (MaxBackoff + BackoffJitter - 1)

CallIsBounded == timeout > 0 => elapsed <= TimeBound

(* Nothing is sent after an answer or an error that will not go away by      *)
(* itself (client.go:22-24), nor after the signal; and the signal is seen in *)
(* no time, from every wait (client.go:77).                                  *)
NothingSentInVain ==
    [][requests' # requests => last \in {"none", "retryable"}]_vars

CancelledAtOnce == [][cancelled => UNCHANGED <<requests, elapsed>>]_vars

(* Outside, the retries cannot be told: the call is answered or it fails,    *)
(* and no answer gets through a context that is closed, not even when the    *)
(* timer of a retry wins the select (client.go:198-206).                     *)
Outcome == IF phase \in Returned THEN phase ELSE "open"

Outside == INSTANCE Call WITH outcome <- Outcome, signalled <- cancelled

ImplementsCall == Outside!Spec

(* The call returns, with the answer if and only if its last request got it;  *)
(* or a request without a deadline is never answered, and no signal comes.   *)
(* llm.timeout may be negative (config.go:289-303), and then it does not     *)
(* matter what the server does before the signal: it is seen (client.go:77). *)
Returns ==
    \/ <>(phase = (IF last = "answer" THEN "answered" ELSE "failed"))
    \/ <>[]Hangs
=============================================================================
