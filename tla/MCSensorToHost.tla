--------------------------- MODULE MCSensorToHost ---------------------------
(***************************************************************************)
(* SensorToHost with one button and one key, which types and turns motion  *)
(* into scrolling.  A late handler reads mixtures of these packets.        *)
(***************************************************************************)
EXTENDS SensorToHost

CONSTANT Text

NoReport == [func |-> "NO_REPORT"]
Table(down, move, up) ==
    [KEY_DOWN |-> down, MOUSE_MOVEMENT |-> move, SHORT_PRESS_UP |-> up]

\* fill_default_cfg
MCDefaultTable ==
    Table(NoReport, [func |-> "ALTERED_MOUSE_MOVEMENT", factor |-> Unaltered], NoReport)

Scrolling ==
    Table([func |-> "ABSOLUTE_MOUSE_POSITIION", button |-> 1],
          [func |-> "MOTION_AS_SCROLL", divisor |-> [x |-> 2, y |-> 2]],
          [func |-> "RELEASE_ALL_KEYS"])

\* The key released last is looked up under 0.
MCStoredEntries == {[app |-> 0, key |-> 1, table |-> Scrolling]}

MCKeypadStates == {{}, {1}}
MCButtonStates == {{}, {2}}
Right == [Still EXCEPT !.x = 1]
MCMoves == {Still, Right}

Packet(d, buttons, keys) == <<d, [buttons |-> buttons, keys |-> keys]>>
\* A handler that loaded this could not go on.
MCInitialText == <<Text, Text>>
MCIdlePacket == Packet(Still, {}, {})
MCPackets == {MCIdlePacket, Packet(Still, {2}, {}), Packet(Right, {}, {1}),
              Packet(Right, {}, {})}
=============================================================================
