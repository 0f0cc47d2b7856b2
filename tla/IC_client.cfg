SPECIFICATION FairSpec
CONSTANTS
    Settings <- MCSettings
    MaxRetries = 2
    MaxCalls = 4
    MaxFaults = 2
    MaxChanges = 2
INVARIANTS TypeOK EverySessionIsGivenBack RefusedIsNotUsedAgain
PROPERTIES GivesUpAfterEveryTry KeepsPromise EveryClientCloses
