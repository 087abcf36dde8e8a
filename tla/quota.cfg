SPECIFICATION Spec
CONSTANTS
    Task = {1, 2, 3}
    Tenant = {acme, globex}
    acme = acme
    globex = globex
    Handler = {h1, h2}
    ConcurrentLimit <- Concurrent
    DailyLimit <- Daily
INVARIANTS
    DailyOverrun
