---------------------------- MODULE MCStrategyRuns ----------------------------
EXTENDS StrategyRuns

MCTasks == (1..NSteps) \X (1..2)
===============================================================================
