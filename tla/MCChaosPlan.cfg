\* Every DAG over three actions, two workers.
CONSTANTS
    N = 3
    Concurrency = 2
SPECIFICATION MCSpec
INVARIANTS
    DependencyOrder
    ReportComplete
    PoolMailRight
    FailureIsReal
    ChartTellsOrder
    ChartTellsApart
PROPERTIES
    Termination
    FailureReachesPlan
    ImplementsPlanSpec
