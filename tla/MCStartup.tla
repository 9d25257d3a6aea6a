----------------------------- MODULE MCStartup -----------------------------
(* Config files that leave all to the defaults, set some fields, set them    *)
(* wrong, and do not parse; durations of five bits.                          *)
EXTENDS Startup, TLC

CONSTANTS p1, p2

MCDefault ==
    [readeckTimeout |-> 6, pageSize |-> 50, llmTimeout |-> 12, temperature |-> 0,
     maxInputChars |-> 48, maxLabels |-> 5, minConfidence |-> 50, interval |-> 5, jitter |-> 1]

Empty == [f \in Fields |-> 0]

File(values) == [values |-> values, defects |-> {}]

MCFiles ==
    {File(Empty),
     File([Empty EXCEPT !.interval = 9, !.jitter = 2, !.minConfidence = 100]),
     File([Empty EXCEPT !.pageSize = -1]),
     [values |-> Empty, defects |-> {"unset variable"}]}

OneFile == {File([Empty EXCEPT !.interval = 9])}

MCFlagDefault == [interval |-> 5, jitter |-> 1]

MCFlagsGiven == {[interval |-> -1, jitter |-> -1], [interval |-> 2, jitter |-> 3],
                 [interval |-> 15, jitter |-> 7], [interval |-> 3, jitter |-> 8]}
=============================================================================
