SPECIFICATION TasksSpec
CONSTANTS
    MaxTasks = 2
    MaxRuns = 2
    MaxCrashes = 1
INVARIANTS SweepMissesNoLiveTask SubagentIsNotStuck
PROPERTIES DoneTaskStaysDone WaitingRunIsContinued
CHECK_DEADLOCK FALSE
