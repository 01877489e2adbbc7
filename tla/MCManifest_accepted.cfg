SPECIFICATION Spec
CONSTANTS
    Manifests <- MCManifests
    Prefixes <- MCPrefixes
    Filters <- MCFilters
INVARIANTS
    KeysApart
    GraphPlannable
    FactoryTotal
CHECK_DEADLOCK FALSE
