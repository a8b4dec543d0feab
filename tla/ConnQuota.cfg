CONSTANTS
    c1 = c1  c2 = c2
    t1 = t1
    alice = alice  bob = bob
    gA = gA  gB = gB
    None = None
    Conns = {c1, c2}
    Tags = {t1}
    Emails = {alice, bob}
    Groups = {gA, gB}
    Records <- SharedRecords
    InboundOf <- OneInbound
    EmailOf <- AliceAndBob
    WsPushes <- SharedPushes
    HttpPushes <- HttpOnly
    CanRestart = TRUE
SPECIFICATION FairSpec
INVARIANTS
    CounterExact
    NoStaleKicker
PROPERTIES
    ImplementsSemaphore
    KickFreesQuota
