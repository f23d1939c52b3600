CONSTANTS
    Ctrl = Ctrl
    Letter = Letter
    Keys = {1, 2}
    KeypadStates <- MCKeypadStates
    ButtonStates <- MCButtonStates
    Modifiers = {Ctrl}
    KeyCodes = {Letter}
    Moves <- MCMoves
    Applications = {0}
    StoredEntries <- MCStoredEntries
    DefaultTable <- MCDefaultTable
    MotionRange = 4
    ScrollRange = 2
    MaxBufferSize = 23
SPECIFICATION Spec
INVARIANTS TypeOK ButtonsInStep TimerFollowsKeypad
PROPERTIES MotionConserved KeysAreLifted
