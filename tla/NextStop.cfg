CONSTANTS
    Msgs = {m1}
    Threads = {t1}
    Channels <- MCChannels
    Enabled = {"ding", "system"}
    Removable = {}
    Priority <- MCPriority
    BeanOrder <- MCBeanOrder
    PushAll = {}
    LogOnly = {"system"}
    Refreshing = {"ding"}
    Discarding = {"ding"}
    Silent = {"app"}
    NextStop = {"ding"}
    MaxThrows = 0
SPECIFICATION Spec
CHECK_DEADLOCK FALSE
INVARIANT NextStopHonoured
