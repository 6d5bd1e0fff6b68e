SPECIFICATION FairSpec
CONSTANTS
    None = None
    PluginCount = 2
    Subscriptions <- FewSubscriptions
    Reactions = {r1}
    Loggers = {TRUE, FALSE}
CHECK_DEADLOCK FALSE
INVARIANTS
    TypeOK
    GuardCounts
    DrainIsLast
    
    RefusalObeyed
PROPERTIES
    ShutdownEnds
