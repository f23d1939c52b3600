CONSTANTS
    Ctrl = Ctrl
    Letter = Letter
    Keys = {1, 2}
    KeypadStates <- MCKeypadStates
    ButtonStates <- MCButtonStates
    Modifiers = {Ctrl}
    KeyCodes = {Letter}
    Moves <- MCMoves
    Applications = {0}
    StoredEntries <- MCStoredEntries
    DefaultTable <- MCDefaultTable
    MotionRange = 3
    ScrollRange = 3
    MaxBufferSize = 23
SPECIFICATION Spec
PROPERTY ShortPressIsReported
