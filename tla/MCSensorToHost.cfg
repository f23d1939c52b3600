CONSTANTS
    Keys = {1}
    KeypadStates <- MCKeypadStates
    ButtonStates <- MCButtonStates
    Modifiers = {}
    KeyCodes = {}
    Moves <- MCMoves
    Applications = {0}
    StoredEntries <- MCStoredEntries
    DefaultTable <- MCDefaultTable
    MotionRange = 2
    ScrollRange = 2
    MaxBufferSize = 19
    PacketSize = 2
    Packets <- MCPackets
    IdlePacket <- MCIdlePacket
    InitialText <- MCInitialText
    Text = Text
SPECIFICATION SystemSpec
INVARIANTS SpiTypeOK StopIsAnnounced SettlesOnLastPacket
PROPERTIES MotionTakenOnce ButtonsReachHost
