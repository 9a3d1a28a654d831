---------------------------- MODULE MCWindowRun ----------------------------
(* Two windows, of one chunk and of two, and two budgets: one that stops    *)
(* within a window, after a window or at a repair, and one that allows all. *)
EXTENDS WindowRun

CONSTANTS c1, c2, c3

MCPlan == <<<<c1>>, <<c2, c3>>>>

MCBudgets ==
    {[calls |-> 2, repairs |-> 1, windows |-> 1, retryUncertain |-> TRUE,
      retryInvalid |-> FALSE, transportRetries |-> 1],
     [calls |-> 10, repairs |-> 10, windows |-> 2, retryUncertain |-> TRUE,
      retryInvalid |-> TRUE, transportRetries |-> 0]}
=============================================================================
