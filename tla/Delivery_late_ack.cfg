SPECIFICATION Spec
CONSTANTS
    r1 = r1
    r2 = r2
    m1 = m1
    m2 = m2
    p1 = p1
    relay = relay
    op = op
    Runs = {r1}
    Movers = {m1}
    Procs = {p1}
    ProcOf <- OneProcess
    Relays = {}
    Operators = {}
    MaxDeliver = 1
    None = None
INVARIANTS
    FailOnlyWithoutComplete
CHECK_DEADLOCK FALSE
