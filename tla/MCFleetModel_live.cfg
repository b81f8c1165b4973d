SPECIFICATION FairSpec
CONSTANTS
    u1 = u1
    u2 = u2
    h1 = h1
    h2 = h2
    p1 = p1
    p2 = p2
    save = save
    s1 = s1
    s2 = s2
    t1 = t1
    t2 = t2
    t3 = t3
    None = None
    Saver = save
    DefaultPolicy = p1
    HostsAt <- MCHostsAt
    Config <- MCConfig
    Caller <- MCCaller
    Url = {u1, u2}
    BadUrl = {u2}
    Edit = {0, 1}
    Policy = {p1}
    Host = {h1}
    ScreenTask = {}
    Task = {t1, t2}
    Mobile = TRUE
    MaxSessions = 1
    MaxJobs = 1
PROPERTIES
    KeepsPolling
