------------------------ MODULE MCMouseEventHandler -------------------------
(***************************************************************************)
(* MouseEventHandler with two keys of the keypad, one that holds a         *)
(* modifier and types with motion, one that types when it is released.     *)
(***************************************************************************)
EXTENDS MouseEventHandler

CONSTANTS Ctrl, Letter

NoReport == [func |-> "NO_REPORT"]
Type == [modifiers |-> {}, keys |-> {Letter}]
Table(down, move, up) ==
    [KEY_DOWN |-> down, MOUSE_MOVEMENT |-> move, SHORT_PRESS_UP |-> up]

\* fill_default_cfg
MCDefaultTable ==
    Table(NoReport, [func |-> "ALTERED_MOUSE_MOVEMENT", factor |-> Unaltered], NoReport)

Holding ==
    Table([func |-> "MODIFIER_HOLD_PRESS_RELEASE", hold |-> {Ctrl}, press |-> Type],
          [func |-> "MOTION_MOD_KEY_PRESS_RELEASE", divisor |-> [x |-> 1, y |-> 1, z |-> 2],
           press |-> [a \in Axes |-> [positive \in BOOLEAN |-> Type]]],
          NoReport)

Typing ==
    Table([func |-> "KEYBOARD_PRESS_RELEASE", press |-> Type],
          [func |-> "ALTERED_MOUSE_MOVEMENT", factor |-> Unaltered],
          [func |-> "KEYBOARD_PRESS_RELEASE", press |-> Type])

MCStoredEntries == {[app |-> 0, key |-> 1, table |-> Holding],
                    [app |-> 1, key |-> 2, table |-> Typing]}

MCKeypadStates == {{}, {1}, {2}}
MCButtonStates == {{}, {2}}
\* The wheel turns while the mouse moves.
MCMoves == {Still, [x |-> 1, y |-> 0, z |-> 1]}
=============================================================================
