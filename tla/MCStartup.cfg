CONSTANTS
    Migrations = {1, 2}
    Shipped = {}
    DataOnly = {2}
    Failing = {1}
    Runners = {1, 2}
    Targets <- MCTargets
    Entries <- MCEntries
    TableOf <- MCTableOf
    MaxFaults = 1
    MaxChanges = 2
SPECIFICATION Spec
INVARIANTS
    AppliedOnce
    AppliedInOrder
PROPERTIES
    CatalogueSettles
CHECK_DEADLOCK FALSE
