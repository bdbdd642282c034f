SPECIFICATION PendingSpec
CONSTANTS
    l1 = l1
    f1 = f1
    e1 = e1
    r0 = r0
    None = None
    Root = r0
    Live = {l1}
    Foreground = {f1}
    Event = {e1}
    MaxFreezeAttempts = 2
    MaxSteps = 2
    MaxUserCalls = 2
INVARIANTS NoPhantomTriggers ConsumedAsLastEdited AnswerIsTrue EarlyIsConsumed
CHECK_DEADLOCK FALSE
