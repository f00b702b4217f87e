SPECIFICATION Spec
CONSTANTS
    Areas = {"platform", "tenant"}
    Tabs = {t1, t2}
    Requests = {r1}
    Tenants = {acme, bora}
    Addresses = {acme}
    Impersonations = {i1}
    ImpTenant <- MCImpTenant
    ImpersonatedTenant = bora
    NONE = NONE
    AccessTtl = 1
    ImpTtl = 1
    PlatformTtl = 1
    TenantTtl = 2
    PortalServesApi = TRUE
    MaxTime = 2
    MaxSessions = 3
INVARIANTS
    TypeOK
    LiveImpersonationIsMarked
    CallsStayInTenant
    EndedImpersonationIsDead
CHECK_DEADLOCK FALSE
