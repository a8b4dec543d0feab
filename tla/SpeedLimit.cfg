CONSTANTS
    c1 = c1
    t1 = t1  t2 = t2
    Connections = {c1}
    Inbounds = {t1, t2}
    TagOf <- MCTagOf
    Pushes <- MCPushes
    AutoRate = AutoRate
    Unlimited = Unlimited
    HubIds = {1, 2}
    MaxHubs = 2
    BucketIds = {1, 2}
    MaxRestores = 1
    Nil = Nil
SPECIFICATION SpeedSpec
INVARIANTS
    StaticEnforced
    AutoCoversNew
    
