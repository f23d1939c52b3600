CONSTANTS
    MaxPacket = 2
    MaxRxFifo = 1
    Requests <- MCRequests
    DataLen <- MCDataLen
SPECIFICATION Spec
INVARIANTS
    TypeOK
    DataHasBuffer
    ReadIsExact
    ViewAgrees
    ClassDataPresent
PROPERTIES
    AcknowledgedCallHasRun
    RefusedOnlyIfUnsupported
    TransferEnds
