\* The buffer has room for two mouse reports or three keyboard reports.
CONSTANTS
    MaxBufferSize = 24
    Move = Move
    Press = Press
    Lift = Lift
    Reports <- MCReports
    ReportLen <- MCReportLen
    Batches <- MCBatches
    MaxBatch = 2
SPECIFICATION Spec
INVARIANTS
    TypeOK
    ClassDataWhileConfigured
    BusyIsOngoing
PROPERTIES
    DeliverySpec
    QueueMoves
    RefusalEnds
