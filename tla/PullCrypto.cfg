CONSTANTS
    W = 2
    Handlers = {h1, h2}
    MaxSessions = 2
    MaxSeq = 3
    Ttl = 1
SPECIFICATION FairSpec
PROPERTIES
    ServedOnce
    Reconciled
