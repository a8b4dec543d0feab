CONSTANTS
    h1 = h1  h2 = h2
    t1 = t1
    c1 = c1
    o1 = o1
    m1 = m1
    bad = bad
    u1 = u1
    Handlers = {h1, h2}
    Tags = {t1}
    Clients = {c1}
    Outs = {o1}
    Marks = {m1, bad}
    BadMarks = {bad}
    Emails = {u1}
    Initial <- MCInitial
    None = None
    Empty = Empty
    Torn = Torn
    Requests <- MCRequests
    Overlapping <- MCRaces
    MaxFaults = 2
SPECIFICATION Spec
PROPERTIES
    
    RolledBackExactly
    
    ClientsKept
SYMMETRY SameHandlers
