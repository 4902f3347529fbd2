CONSTANTS
    Hour = 2
    MaxTime = 5
    Admins = {a1}
    MaxAdmin = 1
    MaxRestarts = 1
    Faults = {"get_active", "create_sale", "create_items", "migrate", "migrate_commit"}
    MaxFaults = 1
    NFiles = 2
    NoTime = NoTime
    BadTime = BadTime
SPECIFICATION Spec
INVARIANT TypeOK SchedulerSalesDisjoint MigrationsRecordedOnce MigratedBeforeServing
