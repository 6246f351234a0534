CONSTANTS
    Objects <- AllObjects
    ThenCalls <- AllCalls
    ScriptsThrow = TRUE
    MaxOps = 4
    MaxPromises = 4
    MaxRecords = 8
SPECIFICATION FairSpec
INVARIANT TypeOK
INVARIANT OneResolver
INVARIANT HiddenFunctionsHeld
INVARIANT ReactionsInOrder
INVARIANT OutcomeDelivered
INVARIANT AdoptsOutcome
INVARIANT UnhandledExact
PROPERTY SettledForever
PROPERTY ReactionsRun
PROPERTY FollowersSettle
