\* One notification, by a run or by a test; one change by the user at any moment.
SPECIFICATION FairSpec
CONSTANTS
    c1 = c1
    Calls <- MCCalls
    MaxChanges = 1
INVARIANTS
    TwiceOnlyAfterLostAnswer
    EveryChannelReports
PROPERTIES
    NotifyReturns
CHECK_DEADLOCK FALSE
