CONSTANTS
    MaxBufferSize = 32
    Move = Move
    Press = Press
    Lift = Lift
    Reports <- MCReports
    ReportLen <- MCReportLen
    Batches <- MCBatches
    MaxBatch = 2
SPECIFICATION Spec
INVARIANT SendingIsOngoing
