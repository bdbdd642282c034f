SPECIFICATION PipelineSpec
CONSTANTS
    r1 = r1
    r2 = r2
    Relay = {r1, r2}
    BatchLimit = 2
    MaxAttempts = 2
    MaxAppends = 2
    Faults = {"messages", "inbox", "commit", "lookup", "append", "settle", "lapse", "restart"}
    MaxLive = 5
    Room <- MCRoom
    StepRoom = 2
    MaxRuns = 1
    MaxFaults = 2
INVARIANTS CheckpointCoversEvents DeliveredIsProjected RowsAreFaithful FewFaultsLoseNothing
PROPERTIES EventIsSettled
CHECK_DEADLOCK FALSE
