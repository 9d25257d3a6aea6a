--------------------------- MODULE LlmChatProofs ---------------------------
(***************************************************************************)
(* A call of Chat is bounded in requests and in time, and sends nothing in *)
(* vain, for every number of retries and every delay, if its requests have *)
(* a deadline; it is the call that Pipeline takes it for, also inside a    *)
(* consultation.                                                           *)
(*                                                                         *)
(* And of the consultation around it: the prompt holds a beginning of the  *)
(* article that fits, and what comes out of the answer is in range.        *)
(***************************************************************************)
EXTENDS Consult, OrderLemmas, TLAPS

Scanned == INSTANCE ExtractJsonProofs

LongestWait == MaxBackoff + BackoffJitter - 1

(* The bound of a call, with or without a deadline.                          *)
Bound == (MaxRetries + 1) * Longest + MaxRetries * LongestWait

LEMMA LongestTyped ==
    ASSUME timeout \in Int
    PROVE  Longest \in Nat
BY BackoffAssumption DEF Longest

(* Sleep comes between the first line of the loop and the request: until it  *)
(* ends, or the signal ends it, the delay of this attempt is not counted.    *)
Slept ==
    IF (phase = "loop" \/ (phase = "sleep" /\ ~cancelled)) /\ attempt > 0
    THEN attempt - 1 ELSE attempt

(* One request per attempt so far, one delay per attempt but the first.      *)
CountInv ==
    /\ phase \in {"loop", "sleep", "woken", "request"} \cup Returned
    /\ attempt \in Nat /\ elapsed \in Int /\ cancelled \in BOOLEAN
    /\ timeout \in Timeouts /\ timeout \in Int
    /\ phase \notin Returned =>
         /\ attempt <= MaxRetries + 1
         /\ phase # "loop" => attempt <= MaxRetries
         /\ phase \in {"sleep", "woken"} => attempt > 0
         /\ elapsed <= attempt * Longest + Slept * LongestWait
         /\ last = (IF attempt > 0 THEN "retryable" ELSE "none")
    /\ phase \in Returned => elapsed <= Bound

LEMMA CountTyped ==
    ASSUME timeout \in Int
    PROVE  LongestWait \in Nat /\ Longest \in Nat /\ MaxRetries \in Nat
BY LongestTyped, BackoffAssumption DEF LongestWait

(* The client keeps its timeout.                                             *)
LEMMA SameDeadline ==
    ASSUME UNCHANGED timeout
    PROVE  Longest' = Longest /\ Bound' = Bound
BY DEF Longest, Bound

LEMMA DelayCapped ==
    ASSUME NEW n \in Nat \ {0}
    PROVE  Delay(n) \in Int /\ Delay(n) <= MaxBackoff
<1>1. n - 1 \in Nat
  OBVIOUS
<1>2. 2 ^ (n - 1) \in Int
  BY <1>1, SMT
<1>3. BaseBackoff * 2 ^ (n - 1) \in Int
  BY <1>2, BackoffAssumption
<1> QED
  BY <1>3, BackoffAssumption DEF Delay

LEMMA OneMore ==
    ASSUME NEW n \in Int, NEW x \in Int
    PROVE  (n + 1) * x = n * x + x
OBVIOUS

LEMMA NoMore ==
    ASSUME NEW m \in Nat, NEW n \in Nat, m <= n, NEW x \in Nat
    PROVE  m * x <= n * x
OBVIOUS

LEMMA PassesAtMost ==
    ASSUME elapsed \in Int, NEW time \in Int, Passes(time)
    PROVE  elapsed' \in Int /\ elapsed' <= elapsed + time
BY BackoffAssumption DEF Passes

(* What may have passed in any attempt is within the bound of the call.      *)
LEMMA WithinBound ==
    ASSUME timeout \in Int,
           NEW n \in Nat, n <= MaxRetries + 1, NEW m \in Nat, m <= MaxRetries
    PROVE  n * Longest + m * LongestWait <= Bound
<1>1. LongestWait \in Nat /\ Longest \in Nat /\ MaxRetries \in Nat
  BY CountTyped
<1>2. n * Longest <= (MaxRetries + 1) * Longest
  BY <1>1, NoMore
<1>3. m * LongestWait <= MaxRetries * LongestWait
  BY <1>1, NoMore
<1> QED
  BY <1>1, <1>2, <1>3 DEF Bound

LEMMA InitCount == Init => CountInv
<1> SUFFICES ASSUME Init PROVE CountInv
  OBVIOUS
<1>1. /\ Slept = 0 /\ timeout \in Timeouts /\ timeout \in Int
      /\ LongestWait \in Nat /\ Longest \in Nat /\ MaxRetries \in Nat
  BY CountTyped, BackoffAssumption DEF Init, Slept
<1>2. elapsed <= attempt * Longest + Slept * LongestWait
  BY <1>1 DEF Init
<1> QED
  BY <1>1, <1>2 DEF Init, CountInv, Returned

-----------------------------------------------------------------------------
(* The call returns: what it has taken so far is all it takes.               *)
LEMMA GotoReturned ==
    ASSUME CountInv, phase \notin Returned, phase' \in Returned,
           attempt' \in Nat, elapsed' \in Int, cancelled' \in BOOLEAN,
           elapsed' <= elapsed, UNCHANGED timeout
    PROVE  CountInv'
<1>1. attempt \in Nat /\ attempt <= MaxRetries + 1 /\ elapsed \in Int /\ timeout \in Int
  BY DEF CountInv
<1>2. Slept \in Nat /\ Slept <= MaxRetries
  <2>1. MaxRetries \in Nat
    BY BackoffAssumption
  <2>2. phase # "loop" => attempt <= MaxRetries
    BY DEF CountInv
  <2> QED
    BY <1>1, <2>1, <2>2 DEF Slept
<1>3. attempt * Longest + Slept * LongestWait <= Bound
  BY <1>1, <1>2, WithinBound
<1>4. elapsed <= attempt * Longest + Slept * LongestWait
  BY DEF CountInv
<1>5. Bound \in Int /\ attempt * Longest \in Int /\ Slept * LongestWait \in Int
  BY <1>1, <1>2, CountTyped DEF Bound
<1>6. elapsed' <= Bound
  BY <1>1, <1>3, <1>4, <1>5
<1> QED
  BY <1>6, SameDeadline DEF CountInv, Returned

(* The delay of this attempt, all of it or a part, is over.                  *)
LEMMA DelayCounts ==
    ASSUME CountInv, phase = "sleep", ~cancelled, NEW time \in Int, Passes(time),
           time <= LongestWait
    PROVE  elapsed' \in Int /\ elapsed' <= attempt * Longest + attempt * LongestWait
<1>1. attempt \in Nat \ {0} /\ attempt <= MaxRetries /\ elapsed \in Int /\ timeout \in Int
  BY DEF CountInv, Returned
<1>2. elapsed' \in Int /\ elapsed' <= elapsed + time
  BY <1>1, PassesAtMost
<1>3. elapsed <= attempt * Longest + (attempt - 1) * LongestWait
  BY <1>1 DEF CountInv, Returned, Slept
<1>4. LongestWait \in Int /\ attempt * Longest \in Int
  BY <1>1, CountTyped
<1>5. ((attempt - 1) + 1) * LongestWait = (attempt - 1) * LongestWait + LongestWait
  BY <1>1, <1>4, OneMore
<1> QED
  BY <1>1, <1>2, <1>3, <1>4, <1>5

LEMMA SleepCounts ==
    ASSUME CountInv, Sleep
    PROVE  CountInv'
<1>1. attempt \in Nat \ {0} /\ attempt <= MaxRetries
  BY DEF CountInv, Sleep, Returned
<1>2. PICK jitter \in 0 .. BackoffJitter - 1 : Passes(Delay(attempt) + jitter)
  BY DEF Sleep
<1>3. Delay(attempt) \in Int /\ Delay(attempt) <= MaxBackoff
  BY <1>1, DelayCapped
<1>4. Delay(attempt) + jitter \in Int /\ Delay(attempt) + jitter <= LongestWait
  BY <1>3, BackoffAssumption DEF LongestWait
<1>5. elapsed' \in Int /\ elapsed' <= attempt * Longest + attempt * LongestWait
  BY <1>2, <1>4, DelayCounts DEF Sleep
<1>6. Slept' = attempt /\ Longest' = Longest
  BY SameDeadline DEF Slept, Sleep
<1> QED
  BY <1>1, <1>5, <1>6 DEF CountInv, Sleep, Returned

LEMMA CancelCounts ==
    ASSUME CountInv, Cancel
    PROVE  CountInv'
<1>1. CASE phase = "sleep"
  <2>1. attempt \in Nat \ {0} /\ attempt <= MaxRetries
    BY <1>1 DEF CountInv, Returned
  <2>2. Delay(attempt) \in Int /\ Delay(attempt) <= MaxBackoff
    BY <2>1, DelayCapped
  <2>3. PICK time \in 0 .. Delay(attempt) + BackoffJitter - 1 : Passes(time)
    BY <1>1 DEF Cancel
  <2>4. time \in Int /\ time <= LongestWait
    BY <2>2, <2>3, BackoffAssumption DEF LongestWait
  <2>5. elapsed' \in Int /\ elapsed' <= attempt * Longest + attempt * LongestWait
    BY <1>1, <2>3, <2>4, DelayCounts DEF Cancel
  <2>6. Slept' = attempt /\ Longest' = Longest
    BY <1>1, SameDeadline DEF Cancel, Slept
  <2> QED
    BY <1>1, <2>1, <2>5, <2>6 DEF CountInv, Cancel, Returned
<1>2. CASE phase # "sleep"
  <2>1. Slept' = Slept /\ Longest' = Longest /\ Bound' = Bound
    BY <1>2, SameDeadline DEF Cancel, Slept
  <2> QED
    BY <1>2, <2>1 DEF Cancel, CountInv
<1> QED
  BY <1>1, <1>2

LEMMA SentCounts ==
    ASSUME CountInv, phase = "request", NEW time \in 0 .. Longest, Passes(time),
           UNCHANGED <<cancelled, timeout>>
    PROVE  /\ last' = "answer" /\ phase' = "answered" /\ UNCHANGED attempt => CountInv'
           /\ \A outcome \in {"retryable", "permanent"} : Fails(outcome) => CountInv'
<1>1. /\ attempt \in Nat /\ attempt <= MaxRetries /\ elapsed \in Int /\ cancelled \in BOOLEAN
      /\ timeout \in Timeouts /\ timeout \in Int
      /\ Longest' = Longest /\ Bound' = Bound
  BY SameDeadline DEF CountInv, Returned
<1>2. LongestWait \in Nat /\ Longest \in Nat /\ MaxRetries \in Nat
  BY <1>1, CountTyped
<1>3. elapsed <= attempt * Longest + attempt * LongestWait
  BY DEF CountInv, Returned, Slept
<1>4. elapsed' \in Int /\ elapsed' <= elapsed + time
  BY <1>1, PassesAtMost
<1>5. (attempt + 1) * Longest = attempt * Longest + Longest
  BY <1>1, <1>2, OneMore
<1>6. attempt * Longest \in Int /\ attempt * LongestWait \in Int
  BY <1>1, <1>2
<1>7. elapsed' <= (attempt + 1) * Longest + attempt * LongestWait
  BY <1>1, <1>2, <1>3, <1>4, <1>5, <1>6
<1>8. (attempt + 1) * Longest + attempt * LongestWait <= Bound
  <2>1. attempt + 1 \in Nat /\ attempt + 1 <= MaxRetries + 1 /\ MaxRetries \in Nat
    BY <1>1, <1>2
  <2>2. attempt \in Nat /\ attempt <= MaxRetries
    BY <1>1
  <2> QED
    BY <1>1, <2>1, <2>2, WithinBound
<1>9. Bound \in Int /\ (attempt + 1) * Longest \in Int
  BY <1>1, <1>2 DEF Bound
<1>10. elapsed' <= Bound
  BY <1>4, <1>6, <1>7, <1>8, <1>9
<1>11. ASSUME UNCHANGED attempt, phase' \in Returned
       PROVE  CountInv'
  BY <1>1, <1>4, <1>10, <1>11 DEF CountInv, Returned
<1>12. ASSUME Fails("retryable")
       PROVE  CountInv'
  <2>1. attempt' = attempt + 1 /\ phase' = "loop" /\ last' = "retryable"
    BY <1>12 DEF Fails, ShouldRetry
  <2>2. Slept' = attempt
    BY <1>1, <2>1 DEF Slept
  <2> QED
    BY <1>1, <1>2, <1>4, <1>7, <2>1, <2>2 DEF CountInv, Returned
<1>13. ASSUME Fails("permanent")
       PROVE  CountInv'
  BY <1>11, <1>13 DEF Fails, ShouldRetry, Returned
<1> QED
  BY <1>11, <1>12, <1>13 DEF Returned

LEMMA RequestCounts ==
    ASSUME CountInv, Request
    PROVE  CountInv'
<1>1. CASE cancelled
  <2>1. UNCHANGED <<attempt, elapsed, cancelled, timeout>> /\ phase' = "failed"
    BY <1>1 DEF Request, Fails, ShouldRetry
  <2> QED
    BY <2>1, GotoReturned DEF CountInv, Returned, Request
<1>2. CASE ~cancelled
  <2>1. PICK time \in 0 .. Longest :
          /\ Passes(time)
          /\ \/ last' = "answer" /\ phase' = "answered" /\ UNCHANGED attempt
             \/ \E outcome \in {"retryable", "permanent"} : Fails(outcome)
    BY <1>2 DEF Request
  <2> QED
    BY <2>1, SentCounts DEF Request
<1> QED
  BY <1>1, <1>2

(* Steps that take no time and change no count.                              *)
LEMMA GotoCounts ==
    ASSUME CountInv, GiveUp \/ SeeCancelled \/ TryAgain \/ Interrupted \/ Wake
    PROVE  CountInv'
<1>1. CASE phase' \in Returned
  BY <1>1, GotoReturned
     DEF CountInv, Returned, GiveUp, SeeCancelled, TryAgain, Interrupted, Wake, Goto
<1>2. CASE TryAgain
  <2>1. Slept' = Slept /\ Longest' = Longest
    BY <1>2, SameDeadline, BackoffAssumption DEF Slept, TryAgain, Goto, CountInv
  <2> QED
    BY <1>2, <2>1 DEF TryAgain, Goto, CountInv, Returned
<1>3. CASE Wake /\ Goto("request")
  <2>1. Slept' = Slept /\ Longest' = Longest
    BY <1>3, SameDeadline DEF Slept, Wake, Goto
  <2> QED
    BY <1>3, <2>1 DEF Wake, Goto, CountInv, Returned
<1> QED
  BY <1>1, <1>2, <1>3 DEF GiveUp, SeeCancelled, Interrupted, Wake, Goto, Returned

LEMMA NextCounts == CountInv /\ [Next]_vars => CountInv'
<1> SUFFICES ASSUME CountInv, [Next]_vars PROVE CountInv'
  OBVIOUS
<1>1. CASE UNCHANGED vars
  <2>1. Slept' = Slept /\ Longest' = Longest /\ Bound' = Bound
    BY <1>1, SameDeadline DEF vars, Slept
  <2> QED
    BY <1>1, <2>1 DEF vars, CountInv
<1> QED
  BY <1>1, SleepCounts, RequestCounts, GotoCounts, CancelCounts DEF Next, Step, Over

-----------------------------------------------------------------------------
(* A call of Chat whose requests have a deadline, any deadline, ends its     *)
(* requests and its waits within TimeBound.  Without one it need not end.    *)
THEOREM ChatIsBounded == Spec => []CallIsBounded
<1>1. CountInv => elapsed <= Bound
  <2> SUFFICES ASSUME CountInv, phase \notin Returned PROVE elapsed <= Bound
    BY DEF CountInv
  <2>1. attempt \in Nat /\ attempt <= MaxRetries + 1 /\ elapsed \in Int /\ timeout \in Int
    BY DEF CountInv
  <2>2. Slept \in Nat /\ Slept <= MaxRetries
    BY <2>1, BackoffAssumption DEF Slept, CountInv
  <2>3. attempt * Longest + Slept * LongestWait <= Bound
    BY <2>1, <2>2, WithinBound
  <2>4. elapsed <= attempt * Longest + Slept * LongestWait
    BY DEF CountInv
  <2>5. Bound \in Int /\ attempt * Longest + Slept * LongestWait \in Int
    BY <2>1, <2>2, CountTyped DEF Bound
  <2> QED
    BY <2>1, <2>3, <2>4, <2>5
<1>2. timeout > 0 => Bound = TimeBound
  BY DEF Bound, TimeBound, Longest, LongestWait
<1>3. CountInv => CallIsBounded
  BY <1>1, <1>2 DEF CallIsBounded
<1> QED
  BY <1>3, InitCount, NextCounts, PTL DEF Spec

(* No request follows an answer or an error that is not to be retried.       *)
THEOREM ChatSendsNothingInVain == Spec => NothingSentInVain
<1>1. CountInv /\ [Next]_vars => [requests' # requests => last \in {"none", "retryable"}]_vars
  <2> SUFFICES ASSUME CountInv, [Next]_vars, requests' # requests
               PROVE  last \in {"none", "retryable"}
    OBVIOUS
  <2>1. phase = "request"
    BY DEF Next, Step, GiveUp, SeeCancelled, TryAgain, Sleep, Interrupted, Wake, Request,
           Cancel, Over, Goto, vars
  <2> QED
    BY <2>1 DEF CountInv, Returned
<1> QED
  BY <1>1, InitCount, NextCounts, PTL DEF Spec, NothingSentInVain

(* From the signal on, no request is sent and no time is waited.             *)
THEOREM ChatCancelledAtOnce == Spec => CancelledAtOnce
<1>1. [Next]_vars => [cancelled => UNCHANGED <<requests, elapsed>>]_vars
  BY DEF Next, Step, GiveUp, SeeCancelled, TryAgain, Sleep, Interrupted, Wake, Request,
         Cancel, Over, Goto, vars
<1> QED
  BY <1>1, PTL DEF Spec, CancelledAtOnce

-----------------------------------------------------------------------------
(* What there is of "the call returns" without fairness.                     *)

(* The steps that a call may still take: four to an attempt.                 *)
StepsLeft ==
    IF phase \in Returned THEN 0
    ELSE 4 * (MaxRetries + 1 - attempt) +
         CASE phase = "loop" -> 4
           [] phase = "sleep" -> 3
           [] phase = "woken" -> 2
           [] phase = "request" -> 1

LEMMA StepsLeftTyped ==
    ASSUME CountInv
    PROVE  /\ StepsLeft \in 0 .. 4 * (MaxRetries + 2)
           /\ phase \notin Returned => StepsLeft > 0
<1>1. CASE phase \in Returned
  BY <1>1, BackoffAssumption DEF StepsLeft
<1>2. CASE phase \in {"loop", "sleep", "woken", "request"}
  <2>1. attempt \in Nat /\ attempt <= MaxRetries + 1 /\ phase \notin Returned
    BY <1>2 DEF CountInv, Returned
  <2>2. \E k \in 1 .. 4 : StepsLeft = 4 * (MaxRetries + 1 - attempt) + k
    BY <1>2, <2>1 DEF StepsLeft
  <2> QED
    BY <2>1, <2>2, BackoffAssumption
<1> QED
  BY <1>1, <1>2 DEF CountInv

(* Every step of the loop brings the call nearer to its return, and there    *)
(* are at most four to an attempt: whatever the server answers and whenever  *)
(* the signal comes, the loop cannot go round for ever (client.go:88-109).   *)
THEOREM ChatGoesForward ==
    Spec => /\ [](StepsLeft \in 0 .. 4 * (MaxRetries + 2))
            /\ [][Step => StepsLeft' < StepsLeft]_vars
<1>1. CountInv /\ Step => StepsLeft' < StepsLeft
  <2> SUFFICES ASSUME CountInv, Step PROVE StepsLeft' < StepsLeft
    OBVIOUS
  <2>1. /\ phase \notin Returned /\ attempt \in Nat /\ MaxRetries \in Nat
        /\ StepsLeft > 0 /\ StepsLeft \in Int
    <3>1. phase \notin Returned
      BY DEF Step, GiveUp, SeeCancelled, TryAgain, Sleep, Interrupted, Wake, Request, Returned
    <3> QED
      BY <3>1, StepsLeftTyped, BackoffAssumption DEF CountInv
  <2>2. CASE phase' \in Returned
    BY <2>1, <2>2 DEF StepsLeft
  <2>3. CASE phase' \notin Returned
    <3>1. \/ phase = "loop" /\ phase' \in {"sleep", "request"} /\ attempt' = attempt
          \/ phase = "sleep" /\ phase' = "woken" /\ attempt' = attempt
          \/ phase = "woken" /\ phase' = "request" /\ attempt' = attempt
          \/ phase = "request" /\ phase' = "loop" /\ attempt' = attempt + 1
      BY <2>3 DEF Step, GiveUp, SeeCancelled, TryAgain, Sleep, Interrupted, Wake, Request,
                  Fails, Goto, Returned
    <3> QED
      BY <2>1, <2>3, <3>1 DEF StepsLeft
  <2> QED
    BY <2>2, <2>3
<1>2. CountInv /\ [Next]_vars => [Step => StepsLeft' < StepsLeft]_vars
  BY <1>1
<1>3. CountInv => StepsLeft \in 0 .. 4 * (MaxRetries + 2)
  BY StepsLeftTyped
<1> QED
  BY <1>2, <1>3, InitCount, NextCounts, PTL DEF Spec

(* A call that has returned has an answer exactly if its last request got    *)
(* one: neither running out of retries nor the signal makes an answer, or    *)
(* loses one (client.go:99-109).                                             *)
THEOREM ChatReturnsItsAnswer ==
    Spec => [](phase \in Returned => (phase = "answered" <=> last = "answer"))
<1> DEFINE Right == phase \in Returned => (phase = "answered" <=> last = "answer")
<1>1. Init => Right
  BY DEF Init, Returned
<1>2. CountInv /\ Right /\ [Next]_vars => Right'
  <2> SUFFICES ASSUME CountInv, Right, [Next]_vars PROVE Right'
    OBVIOUS
  <2>1. phase \notin Returned => last \in {"none", "retryable"}
    BY DEF CountInv
  <2>2. CASE GiveUp \/ SeeCancelled \/ Interrupted \/ Wake \/ TryAgain \/ Sleep
    BY <2>1, <2>2 DEF GiveUp, SeeCancelled, Interrupted, Wake, TryAgain, Sleep, Goto, Returned
  <2>3. CASE Request
    BY <2>3 DEF Request, Fails, ShouldRetry, Returned
  <2>4. CASE Cancel \/ Over \/ UNCHANGED vars
    BY <2>4 DEF Cancel, Over, vars
  <2> QED
    BY <2>2, <2>3, <2>4 DEF Next, Step
<1> QED
  BY <1>1, <1>2, InitCount, NextCounts, PTL DEF Spec

-----------------------------------------------------------------------------
(* A step of the call is invisible outside, or is its answer, its failure or *)
(* the signal; the answer comes to an open context only.                     *)
THEOREM ChatImplementsCall == Spec => ImplementsCall
<1>1. Init => Outside!Init
  BY DEF Init, Outside!Init, Outcome, Returned
<1>2. [Next]_vars => [Outside!Next]_<<Outcome, cancelled>>
  <2> SUFFICES ASSUME [Next]_vars PROVE [Outside!Next]_<<Outcome, cancelled>>
    OBVIOUS
  <2> USE DEF Outcome, Returned, Outside!Next, Outside!Answer, Outside!Fail, Outside!Signal
  <2>1. CASE GiveUp \/ SeeCancelled \/ Interrupted \/ Wake \/ TryAgain
    BY <2>1 DEF GiveUp, SeeCancelled, Interrupted, Wake, TryAgain, Goto
  <2>2. CASE Sleep
    BY <2>2 DEF Sleep
  <2>3. CASE Request
    BY <2>3 DEF Request, Fails
  <2>4. CASE Cancel
    BY <2>4 DEF Cancel
  <2>5. CASE Over \/ UNCHANGED vars
    BY <2>5 DEF Over, vars
  <2> QED
    BY <2>1, <2>2, <2>3, <2>4, <2>5 DEF Next, Step
<1> QED
  BY <1>1, <1>2, PTL DEF Spec, ImplementsCall, Outside!Spec, Outside!callVars

(* Cutting the article and reading the answer leave the call alone: all that *)
(* is proved of it holds of a consultation.                                  *)
THEOREM ConsultImplementsChat == ConsultSafety => Spec
<1>1. ConsultInit => Init
  BY DEF ConsultInit
<1>2. [ConsultNext]_consultVars => [Next]_vars
  <2> SUFFICES ASSUME [ConsultNext]_consultVars PROVE [Next]_vars
    OBVIOUS
  <2>1. CASE ChatStep
    BY <2>1 DEF ChatStep, Next
  <2>2. CASE CancelAnywhere
    BY <2>2 DEF CancelAnywhere, Next
  <2>3. CASE BuildUserPrompt \/ StartChat \/ ReadAnswer \/ ParseClassification
    BY <2>3 DEF BuildUserPrompt, StartChat, ReadAnswer, ParseClassification
  <2>4. CASE ConsultOver \/ UNCHANGED consultVars
    BY <2>4 DEF ConsultOver, consultVars
  <2> QED
    BY <2>1, <2>2, <2>3, <2>4 DEF ConsultNext, ConsultStep
<1> QED
  BY <1>1, <1>2, PTL DEF ConsultSafety, Spec

(* So a consultation is a call to Pipeline, too.                             *)
THEOREM ConsultIsACall == ConsultSafety => ImplementsCall
  BY ConsultImplementsChat, ChatImplementsCall, PTL

(* And its answer goes through the scanner.                                  *)
LEMMA ConsultScans == ConsultSafety => Scanned!Spec
<1>1. ConsultInit => Scanned!Init
  BY DEF ConsultInit, Scanner!Init, Scanned!Init
<1>2. Scanner!Next <=> Scanned!Next
  BY DEF Scanner!Next, Scanned!Next, Scanner!Read, Scanned!Read,
         Scanner!EndOfText, Scanned!EndOfText, Scanner!FindStart,
         Scanned!FindStart, Scanner!Scan, Scanned!Scan, Scanner!Skip,
         Scanned!Skip, Scanner!Escape, Scanned!Escape, Scanner!Quote,
         Scanned!Quote, Scanner!Quoted, Scanned!Quoted, Scanner!Count,
         Scanned!Count, Scanner!Follow, Scanned!Follow, Scanner!FollowValue,
         Scanned!FollowValue, Scanner!FollowString, Scanned!FollowString,
         Scanner!Pops, Scanned!Pops, Scanner!Closing, Scanned!Closing,
         Scanner!Openers, Scanned!Openers, Scanner!Closers, Scanned!Closers,
         Scanner!Characters, Scanned!Characters, Scanner!scanner,
         Scanned!scanner, Scanner!reader, Scanned!reader, Scanner!scanVars,
         Scanned!scanVars
<1>3. [ConsultNext]_consultVars => [Scanned!Next]_(Scanned!scanVars)
  <2> SUFFICES ASSUME [ConsultNext]_consultVars, ~UNCHANGED scanned PROVE Scanned!Next
    BY DEF scanned, Scanned!scanVars
  <2>1. ReadAnswer
    BY DEF ConsultNext, ConsultStep, BuildUserPrompt, StartChat, ChatStep,
           ParseClassification, CancelAnywhere, ConsultOver, consultVars, scanned
  <2> QED
    BY <2>1, <1>2 DEF ReadAnswer
<1> QED
  BY <1>1, <1>3, PTL DEF ConsultSafety, Scanned!Spec

(* It stops where the JSON value ends, for articles and answers of any       *)
(* length.                                                                   *)
THEOREM ConsultStopsWithTheValue == ConsultSafety => []StopsWithTheValue
<1>1. Scanned!StopsWithTheValue => StopsWithTheValue
  BY DEF StopsWithTheValue, Scanner!StopsWithTheValue, Scanned!StopsWithTheValue
<1> QED
  BY <1>1, ConsultScans, Scanned!ScannerStopsWithTheValue, PTL

-----------------------------------------------------------------------------
(* The prompt.  Runes are counted by the bytes that begin one.               *)
Beginnings(text) == {i \in DOMAIN text : text[i] # "tail"}

LEMMA BeginningsWithin ==
    ASSUME NEW text \in Seq(Bytes)
    PROVE  /\ Within(Beginnings(text), Len(text)) /\ Len(text) \in Nat
           /\ RuneCount(text) = Cardinality(Beginnings(text))
           /\ RuneCount(text) = CountUpTo(Beginnings(text), Len(text))
           /\ RuneCount(text) \in Nat
<1>1. Within(Beginnings(text), Len(text)) /\ Len(text) \in Nat
  BY DEF Within, Beginnings
<1>2. RuneCount(text) = Cardinality(Beginnings(text))
  BY DEF RuneCount, Beginnings
<1> QED
  BY <1>1, <1>2, CountType

(* The beginning of a text.                                                  *)
LEMMA Prefix ==
    ASSUME NEW text \in Seq(Bytes), NEW k \in 0 .. Len(text)
    PROVE  /\ SubSeq(text, 1, k) \in Seq(Bytes)
           /\ Len(SubSeq(text, 1, k)) = k
           /\ \A i \in 1 .. k : SubSeq(text, 1, k)[i] = text[i]
           /\ Begins(SubSeq(text, 1, k), text)
           /\ RuneCount(SubSeq(text, 1, k)) = CountUpTo(Beginnings(text), k)
           /\ RuneCount(SubSeq(text, 1, k)) <= RuneCount(text)
<1>1. /\ SubSeq(text, 1, k) \in Seq(Bytes)
      /\ Len(SubSeq(text, 1, k)) = k
      /\ \A i \in 1 .. k : SubSeq(text, 1, k)[i] = text[i]
  OBVIOUS
<1>2. Begins(SubSeq(text, 1, k), text)
  BY <1>1 DEF Begins
<1>3. Beginnings(SubSeq(text, 1, k)) = UpTo(Beginnings(text), k)
  BY <1>1 DEF Beginnings, UpTo
<1>4. RuneCount(SubSeq(text, 1, k)) = CountUpTo(Beginnings(text), k)
  BY <1>1, <1>3, BeginningsWithin DEF CountUpTo
<1>5. RuneCount(SubSeq(text, 1, k)) <= RuneCount(text)
  <2>1. Within(Beginnings(text), Len(text)) /\ Len(text) \in Nat /\ k \in Int /\ k <= Len(text)
    BY BeginningsWithin
  <2> QED
    BY <1>4, <2>1, BeginningsWithin, CountMonotone
<1> QED
  BY <1>1, <1>2, <1>4, <1>5

LEMMA GreatestIs ==
    ASSUME NEW n \in Nat, NEW S, S # {}, \A k \in S : k \in 0 .. n
    PROVE  Greatest(S) \in S /\ \A k \in S : Greatest(S) >= k
BY HasGreatest DEF Greatest

(* Where the loop over the runes stops: after max of them, and right before  *)
(* the beginning of the next.                                                *)
LEMMA ByteIndexCuts ==
    ASSUME NEW text \in Seq(Bytes), NEW max \in Nat \ {0}, RuneCount(text) > max
    PROVE  LET k == ByteIndex(text, max)
           IN /\ k \in 1 .. Len(text) - 1
              /\ RuneCount(SubSeq(text, 1, k)) = max
              /\ text[k + 1] # "tail"
<1> DEFINE starts == Beginnings(text)
           Cuts == {i \in DOMAIN text : RuneCount(SubSeq(text, 1, i)) = max}
           k == ByteIndex(text, max)
<1>1. /\ Within(starts, Len(text)) /\ Len(text) \in Nat
      /\ RuneCount(text) = Cardinality(starts) /\ RuneCount(text) \in Nat
      /\ CountUpTo(starts, Len(text)) = RuneCount(text)
  BY BeginningsWithin
<1>2. \A i \in 0 .. Len(text) : RuneCount(SubSeq(text, 1, i)) = CountUpTo(starts, i)
  BY Prefix
<1>3. PICK i \in starts : CountUpTo(starts, i) = max
  <2> max \in 1 .. Cardinality(starts)
    BY <1>1
  <2> HIDE DEF starts
  <2> QED
    BY <1>1, NthElement
<1>4. i \in Cuts
  <2>1. i \in DOMAIN text /\ i \in 0 .. Len(text)
    BY DEF Beginnings
  <2> QED
    BY <1>2, <1>3, <2>1
<1>5. k \in Cuts /\ \A j \in Cuts : k >= j
  <2>1. \A j \in Cuts : j \in 0 .. Len(text)
    OBVIOUS
  <2>2. k = Greatest(Cuts)
    BY DEF ByteIndex
  <2> HIDE DEF Cuts, k
  <2> QED
    BY <1>1, <1>4, <2>1, <2>2, GreatestIs
<1>6. k \in 1 .. Len(text) /\ RuneCount(SubSeq(text, 1, k)) = max /\ CountUpTo(starts, k) = max
  BY <1>2, <1>5
<1>7. k # Len(text)
  BY <1>1, <1>6
<1>8. text[k + 1] # "tail"
  <2>1. k \in Nat /\ k + 1 \in DOMAIN text /\ k + 1 \in 0 .. Len(text)
    BY <1>1, <1>6, <1>7
  <2>2. CountUpTo(starts, k + 1) = CountUpTo(starts, k) + IF k + 1 \in starts THEN 1 ELSE 0
    <3> HIDE DEF starts, k
    <3> QED
      BY <1>1, <2>1, CountStep
  <2>3. k + 1 \notin Cuts
    BY <1>5, <2>1
  <2>4. CountUpTo(starts, k + 1) # max
    BY <1>2, <2>1, <2>3
  <2>5. k + 1 \in starts
    BY <1>6, <2>2, <2>4
  <2> QED
    BY <2>5 DEF Beginnings
<1> QED
  BY <1>1, <1>6, <1>7, <1>8

LEMMA LastSpaceIs ==
    ASSUME NEW text \in Seq(Bytes)
    PROVE  /\ LastSpace(text) \in 0 .. Len(text)
           /\ LastSpace(text) # 0 => text[LastSpace(text)] = "space"
           /\ \A i \in DOMAIN text : text[i] = "space" => i <= LastSpace(text)
<1> DEFINE Spaces == SpacesOf(text) \cup {0}
<1>1. Len(text) \in Nat /\ 0 \in Spaces /\ \A i \in Spaces : i \in 0 .. Len(text)
  <2>1. Len(text) \in Nat /\ \A i \in DOMAIN text : i \in 0 .. Len(text)
    OBVIOUS
  <2> QED
    BY <2>1 DEF SpacesOf
<1>2. Greatest(Spaces) \in Spaces /\ \A i \in Spaces : Greatest(Spaces) >= i
  <2> HIDE DEF Spaces
  <2> QED
    BY <1>1, GreatestIs
<1>3. LastSpace(text) = Greatest(Spaces)
  BY DEF LastSpace
<1>4. \A i \in DOMAIN text : text[i] = "space" => i \in Spaces
  BY DEF SpacesOf
<1>5. Greatest(Spaces) # 0 => text[Greatest(Spaces)] = "space"
  BY <1>2 DEF SpacesOf
<1>6. Greatest(Spaces) \in 0 .. Len(text) /\ \A i \in DOMAIN text : i \in Int
  BY <1>1, <1>2
<1> HIDE DEF Spaces
<1> QED
  BY <1>2, <1>3, <1>4, <1>5, <1>6

(* What Truncate returns, for every text and every limit (truncate.go:16-45). *)
THEOREM TruncateFits ==
    ASSUME NEW text \in Seq(Bytes), NEW max \in Nat \ {0}
    PROVE  LET cut == Truncate(text, max)
               spaces == {i \in DOMAIN text :
                             text[i] = "space" /\ RuneCount(SubSeq(text, 1, i)) <= max}
               end == Len(cut) + 1
           IN /\ cut \in Seq(Bytes) /\ Begins(cut, text)
              /\ RuneCount(text) <= max => cut = text
              /\ RuneCount(text) > max =>
                    IF spaces = {} THEN RuneCount(cut) = max /\ text[end] # "tail"
                    ELSE end \in spaces /\ \A i \in spaces : i <= end
<1>1. RuneCount(text) \in Nat
  BY BeginningsWithin
<1>2. CASE RuneCount(text) <= max
  <2>1. Truncate(text, max) = text
    BY <1>2 DEF Truncate
  <2>2. Begins(text, text)
    BY DEF Begins
  <2> QED
    BY <1>1, <1>2, <2>1, <2>2
<1>3. CASE RuneCount(text) > max
  <2> DEFINE k == ByteIndex(text, max)
             prefix == SubSeq(text, 1, k)
             s == LastSpace(prefix)
             spaces == {i \in DOMAIN text :
                           text[i] = "space" /\ RuneCount(SubSeq(text, 1, i)) <= max}
  <2>1. k \in 1 .. Len(text) - 1 /\ RuneCount(prefix) = max /\ text[k + 1] # "tail"
    BY <1>3, ByteIndexCuts
  <2>2. /\ prefix \in Seq(Bytes) /\ Len(prefix) = k /\ Begins(prefix, text)
        /\ \A i \in 1 .. k : prefix[i] = text[i]
    BY <2>1, Prefix
  <2>3. Truncate(text, max) = IF s = 0 THEN prefix ELSE SubSeq(prefix, 1, s - 1)
    BY <1>1, <1>3 DEF Truncate
  <2>4. /\ s \in 0 .. k
        /\ s # 0 => prefix[s] = "space"
        /\ \A i \in DOMAIN prefix : prefix[i] = "space" => i <= s
    BY <2>2, LastSpaceIs
  <2>5. \A i \in DOMAIN text : i \in spaces <=> i <= k /\ text[i] = "space"
    <3> SUFFICES ASSUME NEW i \in DOMAIN text, text[i] = "space"
                 PROVE  RuneCount(SubSeq(text, 1, i)) <= max <=> i <= k
      BY DEF spaces
    <3>1. i \in 1 .. Len(text) /\ i \in 0 .. Len(text) /\ k \in 0 .. Len(text) /\ Len(text) \in Nat
      BY <2>1
    <3>2. /\ RuneCount(SubSeq(text, 1, i)) = CountUpTo(Beginnings(text), i)
          /\ CountUpTo(Beginnings(text), k) = max
      BY <2>1, <3>1, Prefix
    <3>3. Within(Beginnings(text), Len(text)) /\ i \in Beginnings(text)
      BY BeginningsWithin DEF Beginnings
    <3>4. i <= k => CountUpTo(Beginnings(text), i) <= CountUpTo(Beginnings(text), k)
      BY <3>1, <3>3, CountMonotone
    <3>5. k < i => CountUpTo(Beginnings(text), k) < CountUpTo(Beginnings(text), i)
      BY <3>1, <3>3, CountMonotone
    <3>6. CountUpTo(Beginnings(text), i) \in Int
      BY <3>1, <3>3, CountType
    <3> HIDE DEF k
    <3> QED
      BY <3>1, <3>2, <3>4, <3>5, <3>6
  <2> HIDE DEF prefix, k, s
  <2>6. CASE s = 0
    <3>1. Truncate(text, max) = prefix
      BY <2>3, <2>6
    <3>2. spaces = {}
      <4> SUFFICES ASSUME NEW i \in spaces PROVE FALSE
        OBVIOUS
      <4>1. i \in DOMAIN text /\ i <= k /\ text[i] = "space"
        BY <2>5
      <4>2. i \in 1 .. k /\ i \in DOMAIN prefix
        BY <2>1, <2>2, <4>1
      <4> QED
        BY <2>1, <2>2, <2>4, <2>6, <4>1, <4>2
    <3> QED
      BY <1>1, <1>3, <2>1, <2>2, <3>1, <3>2 DEF spaces
  <2>7. CASE s # 0
    <3>1. s - 1 \in 0 .. Len(text) /\ s - 1 \in 0 .. k /\ s \in 1 .. k /\ s \in DOMAIN text
      BY <2>1, <2>4, <2>7
    <3>2. SubSeq(prefix, 1, s - 1) = SubSeq(text, 1, s - 1)
      BY <2>1, <2>2, <3>1, Prefix
    <3> DEFINE cut == SubSeq(text, 1, s - 1)
    <3>3. Truncate(text, max) = cut
      BY <2>3, <2>7, <3>2
    <3>4. cut \in Seq(Bytes) /\ Len(cut) = s - 1 /\ Begins(cut, text)
      BY <3>1, Prefix
    <3>5. Len(cut) + 1 = s /\ s \in spaces
      BY <2>1, <2>2, <2>4, <2>5, <2>7, <3>1, <3>4
    <3>6. ASSUME NEW i \in spaces
          PROVE  i <= s
      <4>1. i \in DOMAIN text /\ i <= k /\ text[i] = "space"
        BY <2>5
      <4>2. i \in 1 .. k /\ i \in DOMAIN prefix
        BY <2>1, <2>2, <4>1
      <4> QED
        BY <2>2, <2>4, <4>1, <4>2
    <3>7. ~(RuneCount(text) <= max)
      BY <1>1, <1>3
    <3> HIDE DEF cut
    <3> QED
      BY <3>3, <3>4, <3>5, <3>6, <3>7 DEF spaces
  <2> QED
    BY <2>6, <2>7
<1> QED
  BY <1>1, <1>2, <1>3

-----------------------------------------------------------------------------
(* Types.  An attempt that is not over has sent one request for each before. *)
Tried ==
    /\ TypeOK
    /\ phase \notin Returned => requests = attempt

(* A delay is a shift to the left, so no time is less than none.             *)
LEMMA DelayTyped ==
    ASSUME NEW n \in Nat \ {0}
    PROVE  Delay(n) \in Nat
<1>1. n - 1 \in Nat
  OBVIOUS
<1>2. 2 ^ (n - 1) \in Nat
  BY <1>1, PowerOfTwo
<1>3. BaseBackoff * 2 ^ (n - 1) \in Nat
  BY <1>2, BackoffAssumption
<1> QED
  BY <1>3, BackoffAssumption DEF Delay

LEMMA PassesTyped ==
    ASSUME elapsed \in 0 .. Forever, NEW time \in Nat, Passes(time)
    PROVE  elapsed' \in 0 .. Forever
BY BackoffAssumption DEF Passes

LEMMA StepTyped ==
    ASSUME CountInv, Tried, [Next]_vars
    PROVE  Tried'
<1> USE DEF Tried, TypeOK, Returned, Outcomes
<1>1. CASE GiveUp \/ SeeCancelled \/ TryAgain \/ Interrupted \/ Wake
  BY <1>1 DEF GiveUp, SeeCancelled, TryAgain, Interrupted, Wake, Goto
<1>2. CASE Sleep
  <2>1. attempt \in Nat \ {0}
    BY <1>2 DEF Sleep, CountInv
  <2>2. \A jitter \in 0 .. BackoffJitter - 1 : Delay(attempt) + jitter \in Nat
    BY <2>1, DelayTyped, BackoffAssumption
  <2>3. elapsed' \in 0 .. Forever
    BY <1>2, <2>2, PassesTyped DEF Sleep
  <2> QED
    BY <1>2, <2>3 DEF Sleep
<1>3. CASE Request
  <2>1. attempt \in 0 .. MaxRetries /\ MaxRetries \in Nat
    BY <1>3, BackoffAssumption DEF Request, CountInv
  <2>2. elapsed' \in 0 .. Forever
    <3>1. CASE cancelled
      BY <1>3, <3>1 DEF Request
    <3>2. CASE ~cancelled
      <4>1. \E time \in 0 .. Longest : Passes(time)
        BY <1>3, <3>2 DEF Request
      <4>2. \A time \in 0 .. Longest : time \in Nat
        OBVIOUS
      <4> QED
        BY <4>1, <4>2, PassesTyped
    <3> QED
      BY <3>1, <3>2
  <2> QED
    BY <1>3, <2>1, <2>2 DEF Request, Fails, ShouldRetry
<1>4. CASE Cancel
  <2>1. elapsed' \in 0 .. Forever
    <3>1. CASE phase = "sleep"
      <4>1. attempt \in Nat \ {0}
        BY <3>1 DEF CountInv
      <4>2. \A time \in 0 .. Delay(attempt) + BackoffJitter - 1 : time \in Nat
        OBVIOUS
      <4> QED
        BY <1>4, <3>1, <4>2, PassesTyped DEF Cancel
    <3>2. CASE phase # "sleep"
      BY <1>4, <3>2 DEF Cancel
    <3> QED
      BY <3>1, <3>2
  <2> QED
    BY <1>4, <2>1 DEF Cancel
<1>5. CASE Over \/ UNCHANGED vars
  BY <1>5 DEF Over, vars
<1> QED
  BY <1>1, <1>2, <1>3, <1>4, <1>5 DEF Next, Step

LEMMA ChatTyped == Spec => []TypeOK
<1>1. Init => Tried
  BY BackoffAssumption DEF Init, Tried, TypeOK, Returned, Outcomes
<1>2. Tried => TypeOK
  BY DEF Tried
<1> QED
  BY <1>1, <1>2, InitCount, NextCounts, StepTyped, PTL DEF Spec

ConsultInv ==
    /\ step \in {"prompt", "ask", "chat", "read", "decoded", "failed"}
    /\ body \in Seq(Bytes) /\ prompt \in Seq(Bytes)
    /\ confidence \in {None} \cup 0 .. 100
    /\ PromptFits

LEMMA PromptCut ==
    ASSUME body \in Seq(Bytes), UNCHANGED body, prompt' = Truncate(body, MaxInputChars)
    PROVE  prompt' \in Seq(Bytes) /\ PromptFits'
<1>1. MaxInputChars \in Nat \ {0}
  BY ConsultAssumption
<1> DEFINE spaces == {i \in DOMAIN body : body[i] = "space" /\ WithinLimit(body, i)}
<1>2. spaces = {i \in DOMAIN body :
                   body[i] = "space" /\ RuneCount(SubSeq(body, 1, i)) <= MaxInputChars}
  BY DEF WithinLimit
<1>3. /\ prompt' \in Seq(Bytes) /\ Begins(prompt', body)
      /\ RuneCount(body) <= MaxInputChars => prompt' = body
      /\ RuneCount(body) > MaxInputChars =>
            IF spaces = {} THEN RuneCount(prompt') = MaxInputChars /\ body[Len(prompt') + 1] # "tail"
            ELSE Len(prompt') + 1 \in spaces /\ \A i \in spaces : i <= Len(prompt') + 1
  BY <1>1, <1>2, TruncateFits
<1>4. body' = body /\ spaces = {i \in DOMAIN body' : body'[i] = "space" /\ WithinLimit(body', i)}
  OBVIOUS
<1> HIDE DEF spaces
<1> QED
  BY <1>3, <1>4 DEF PromptFits, WithinLimit, RuneCount, Begins

LEMMA ConsultInvHolds == ConsultSafety => []ConsultInv
<1>1. ConsultInit => ConsultInv
  BY ConsultAssumption DEF ConsultInit, ConsultInv, PromptFits
<1>2. ConsultInv /\ [ConsultNext]_consultVars => ConsultInv'
  <2> SUFFICES ASSUME ConsultInv, [ConsultNext]_consultVars PROVE ConsultInv'
    OBVIOUS
  <2>1. CASE BuildUserPrompt
    <3>1. UNCHANGED <<body, confidence>> /\ step' = "ask" /\ prompt' = Truncate(body, MaxInputChars)
      BY <2>1 DEF BuildUserPrompt
    <3>2. MaxInputChars \in Nat \ {0} /\ body \in Seq(Bytes)
      BY ConsultAssumption DEF ConsultInv
    <3> QED
      BY <3>1, <3>2, PromptCut DEF ConsultInv
  <2>2. CASE StartChat
    BY <2>2 DEF StartChat, ConsultInv, PromptFits
  <2>3. CASE ChatStep
    BY <2>3 DEF ChatStep, ConsultInv, PromptFits
  <2>4. CASE ReadAnswer \/ CancelAnywhere \/ ConsultOver \/ UNCHANGED consultVars
    <3>1. UNCHANGED <<step, body, prompt, confidence>>
      BY <2>4 DEF ReadAnswer, CancelAnywhere, ConsultOver, consultVars
    <3> QED
      BY <3>1 DEF ConsultInv, PromptFits
  <2>5. CASE ParseClassification
    <3>1. \A percent \in Int : Clamped(percent) \in 0 .. 100
      BY DEF Clamped
    <3>2. confidence' \in {None} \cup 0 .. 100
      <4>1. \A percent \in Confidences \cup {0} : percent \in Int
        BY ConsultAssumption
      <4>2. \/ confidence' = confidence
            \/ \E percent \in Confidences \cup {0} : confidence' = Clamped(percent)
        BY <2>5 DEF ParseClassification
      <4>3. confidence' = confidence \/ confidence' \in 0 .. 100
        BY <3>1, <4>1, <4>2
      <4> QED
        BY <4>3 DEF ConsultInv
    <3> QED
      BY <2>5, <3>2 DEF ParseClassification, ConsultInv, PromptFits
  <2> QED
    BY <2>1, <2>2, <2>3, <2>4, <2>5 DEF ConsultNext, ConsultStep
<1> QED
  BY <1>1, <1>2, PTL DEF ConsultSafety

(* The prompt of every consultation is the article, or its beginning up to   *)
(* the last space among the characters that fit, or without a space all      *)
(* characters that fit (truncate.go:16-45).                                  *)
THEOREM ConsultPromptFits == ConsultSafety => []PromptFits
<1>1. ConsultInv => PromptFits
  BY DEF ConsultInv
<1> QED
  BY <1>1, ConsultInvHolds, PTL

(* Every consultation keeps to its types: the confidence that step 6 hands   *)
(* on is a fraction from 0 to 1 (classifier.go), whatever the LLM wrote.     *)
THEOREM ConsultTyped == ConsultSafety => []ConsultTypeOK
<1>1. Scanned!TypeOK => Scanner!TypeOK
  BY DEF Scanned!TypeOK, Scanner!TypeOK, Scanned!Openers, Scanner!Openers
<1>2. TypeOK /\ Scanner!TypeOK /\ ConsultInv => ConsultTypeOK
  BY DEF ConsultInv, ConsultTypeOK
<1> QED
  BY <1>1, <1>2, ConsultInvHolds, ConsultImplementsChat, ChatTyped, ConsultScans,
     Scanned!ScannerTyped, PTL
=============================================================================
