CONSTANTS
    Callers = {c1, c2, c3}
    Gates = {g1, g2, g3}
    Tenants = {t1, t2}
    MaxKeys = 2
    NoCaller = NoCaller
    NoGate = NoGate
    NoTenant = NoTenant
SPECIFICATION TableSpec
INVARIANTS
    TenantExclusive
