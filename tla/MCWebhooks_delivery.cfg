SPECIFICATION FairSpec
CONSTANTS
    c1 = c1
    c2 = c2
    Callers <- MCCallers
    Names <- MCNames
    Types <- MCTypes
    Received = "webhook.received"
    MaxEvents = 2
    MaxHooks = 2
    MaxCalls = 3
    MaxCrashes = 1
CHECK_DEADLOCK FALSE
INVARIANTS HooksInv OutcomeLogged
PROPERTY EventReachesLog
