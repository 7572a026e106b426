CONSTANTS
    Msgs = {m1, m2}
    Threads = {t1}
    Channels <- MCChannels
    Enabled = {"app"}
    Removable = {"app"}
    Priority <- MCPriority
    BeanOrder <- MCBeanOrder
    PushAll = {m2}
    LogOnly = {"system"}
    Refreshing = {"ding"}
    Discarding = {"ding"}
    Silent = {"app"}
    NextStop = {"ding"}
    MaxThrows = 3
SPECIFICATION FairSpec
CHECK_DEADLOCK FALSE
INVARIANTS
    TypeOK
    TrueMeansDelivered
    ChannelsAccounted
    AcceptedIsLogged
    RepeatsHaveACause
    StaleHasACause
PROPERTY StaleIsTemporary
