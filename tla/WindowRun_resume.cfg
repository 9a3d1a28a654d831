SPECIFICATION FairSpec
CONSTANTS
    c1 = c1
    c2 = c2
    c3 = c3
    Chunk = {c1, c2, c3}
    Plan <- MCPlan
    Modes = {"chunked", "whole-document"}
    MaxConcurrent = 2
    Budgets <- MCBudgets
    MaxFaults = 1
    None = None
INVARIANTS CallsReserved RepairNotSkipped WindowsInOrder StatusAccepts
PROPERTIES AnswersFinal RepairsBounded CompletesOrStuck
