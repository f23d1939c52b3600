\* The buffer size of circular_buffers.hpp under TESTING.
CONSTANTS
    MaxBufferSize = 16
    Test = Test
    String = String
    Rock = Rock
    Blip = Blip
    Reports = {Test, String, Rock, Blip}
    ReportLen <- MCReportLen
SPECIFICATION Spec
INVARIANTS
    RingInv
    RefusedOnlyWhenNearlyFull
    SendingIsHandedOut
PROPERTY FifoSpec
