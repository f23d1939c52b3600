------------------------- MODULE MouseEventHandler --------------------------
(***************************************************************************)
(* MouseEventHandler (mouse/mouse_event_handler.cpp) and the reporting     *)
(* functions it dispatches to (mouse/reporting_functions.cpp).             *)
(*                                                                         *)
(* The SPI interrupt updates the state of the mouse; the 10 ms timer       *)
(* compares it with the state reported last and builds HID reports, which  *)
(* wait in hid_report_buf until the host takes them.  Which reports an     *)
(* event gives rise to is looked up in the event tables that main loads    *)
(* from flash while the interrupts are already running.                    *)
(*                                                                         *)
(* hid_report_buf is taken to be what HIDReportQueue shows it to be: a     *)
(* first-in first-out queue that may refuse a report only when it is       *)
(* nearly full.  A handler is therefore modelled as the set of states it   *)
(* may leave behind, one for every outcome of its allocations: an operator *)
(* maps a state s of the handler to the set of states after it.            *)
(***************************************************************************)
EXTENDS Integers, SequencesExt

CONSTANTS
    Keys,            \* the keys of the keypad, numbers from 1
    KeypadStates,    \* the sets of keys that can be down together
    ButtonStates,    \* the sets of primary buttons that can be down together
    Modifiers,       \* the modifier keys of a keyboard (bits of a byte)
    KeyCodes,        \* its other keys
    Moves,           \* the motions an SPI packet can carry
    Applications,    \* the application ids, 0 and up
    StoredEntries,   \* the entries in flash: [app, key, table]
    DefaultTable,    \* default_cfg
    MotionRange,     \* 2^16: values of an int16_t
    ScrollRange,     \* 2^8: values of an int8_t
    MaxBufferSize    \* size of hid_report_buf in bytes

ASSUME RangeAssumption ==
    /\ MotionRange \in Nat \ {0} /\ ScrollRange \in Nat \ {0}
    /\ MotionRange % ScrollRange = 0

ScrollButton == 3
RingButton == 4
ScrollButtonIdx == 13        \* SCROLL_BUTTON_KEYPAD_IDX
RingButtonIdx == 14          \* RING_BUTTON_KEYPAD_IDX
KeyIndexes == Keys \cup {0, ScrollButtonIdx, RingButtonIdx}

Axes == {"x", "y", "z"}      \* z is the scroll wheel
Still == [a \in Axes |-> 0]
Unaltered == [a \in Axes |-> 1]

\* The entries of the event tables: a reporting function and its parameters.
Events   == {"KEY_DOWN", "MOUSE_MOVEMENT", "SHORT_PRESS_UP"}
Presses  == [modifiers : SUBSET Modifiers, keys : SUBSET KeyCodes]
Entries  ==
    [func : {"NO_REPORT", "RELEASE_ALL_KEYS"}]
      \cup [func : {"ALTERED_MOUSE_MOVEMENT"}, factor : [Axes -> Int]]
      \cup [func : {"ABSOLUTE_MOUSE_POSITIION"}, button : Int]
      \cup [func : {"KEYBOARD_PRESS_RELEASE"}, press : Presses]
      \cup [func : {"MOTION_MOD_KEY_PRESS_RELEASE"}, divisor : [Axes -> Int],
            press : [Axes -> [BOOLEAN -> Presses]]]
      \cup [func : {"MODIFIER_HOLD_PRESS_RELEASE"}, hold : SUBSET Modifiers,
            press : Presses]
      \cup [func : {"MOTION_AS_SCROLL"}, divisor : [{"x", "y"} -> Int]]
EventTables == [Events -> Entries]

ASSUME ConfigurationAssumption ==
    /\ Keys \subseteq Nat \ {0}
    /\ {} \in KeypadStates /\ KeypadStates \subseteq SUBSET Keys
    /\ {} \in ButtonStates
    /\ Moves \subseteq [Axes -> Int]
    /\ 0 \in Applications
    /\ DefaultTable \in EventTables
    /\ StoredEntries \subseteq [app : Nat, key : KeyIndexes, table : EventTables]
    /\ MaxBufferSize \in Nat

\* A number stored in a signed integer of that many values.
Signed(n, range) == ((n + (range \div 2)) % range) - (range \div 2)

\* Division and remainder of C, which round towards zero.  A divisor of zero is
\* not trapped: the processor's SDIV then returns 0.
Magnitude(n) == IF n < 0 THEN -n ELSE n
Quotient(n, d) ==
    LET q == Magnitude(n) \div Magnitude(d)
    IN  IF d = 0 THEN 0 ELSE IF (n < 0) = (d < 0) THEN q ELSE -q
Remainder(n, d) == n - d * Quotient(n, d)

VARIABLES
    handler,                 \* the fields of the object, and hid_report_buf
    event_handler_table,     \* application -> key index -> event table
    current_application_id,
    to_load,                 \* the entries main has not registered yet
    host                     \* the buttons and keys the host was told last

vars == <<handler, event_handler_table, current_application_id, to_load, host>>

-----------------------------------------------------------------------------
(***************************************************************************)
(* Reports, and the buffer they wait in.                                   *)
(***************************************************************************)
\* The horizontal scroll, pan, is the set of values that the field can hold:
\* mouse_event_handler.cpp:68-69 clears scroll_y twice and never scroll_x, which
\* until a motion is written holds what older reports left in the ring.
PanRange == -(ScrollRange \div 2) .. ScrollRange - (ScrollRange \div 2) - 1

MouseReport(buttons) ==
    [kind |-> "mouse", buttons |-> buttons, motion |-> Still, pan |-> PanRange]
KeyboardReport(modifiers, keys) ==
    [kind |-> "keyboard", modifiers |-> modifiers, keys |-> keys]
AbsoluteReport(button) == [kind |-> "absolute", button |-> button]

\* The bytes a report takes up in the buffer, its header included.
BlockSize == [mouse |-> 10, keyboard |-> 7, absolute |-> 8]
LargestBlock == 10

\* The positions of the reports of a kind.
Positions(buf, kind) == {i \in DOMAIN buf : buf[i].kind = kind}

BytesUsed(s) ==
    LET bytes(kind) == BlockSize[kind] * Cardinality(Positions(s.hid_report_buf, kind))
    IN  bytes("mouse") + bytes("keyboard") + bytes("absolute")

\* Whether the buffer may accept r, and whether it may refuse it: the second
\* is what HIDReportQueue!RefusedOnlyWhenNearlyFull allows.
MayAccept(s, r) == BytesUsed(s) + BlockSize[r.kind] <= MaxBufferSize
MayRefuse(s, r) ==
    BytesUsed(s) + (BlockSize[r.kind] - 1) + (LargestBlock - 1) >= MaxBufferSize

\* allocate_space_for_report and the caller's writes.  then is the state when
\* the pointer was not null, apart from the report that is now in the buffer.
Allocate(s, r, then) ==
    {t \in {[then EXCEPT !.hid_report_buf = Append(@, r)]} : MayAccept(s, r)}
        \cup {t \in {s} : MayRefuse(s, r)}

-----------------------------------------------------------------------------
(***************************************************************************)
(* The mouse report of a poll interval: mouse_hid_report is its position   *)
(* in the buffer, 0 for the null pointer.                                  *)
(***************************************************************************)
\* The report has three bits for the buttons.
Shown(buttons) == buttons \cap 1 .. 3

\* Mutant: the change counts as reported though the buffer refused.
CreateAndForget(s) ==
    IF s.mouse_hid_report # 0
      THEN {s}
      ELSE {[t EXCEPT !.previous_primary_button_state = t.current_primary_button_state] :
               t \in Allocate(s, MouseReport(Shown(s.current_primary_button_state)),
                              [s EXCEPT !.mouse_hid_report = Len(s.hid_report_buf) + 1])}

CreateOrRetrieveMouseReport(s) ==
    IF s.mouse_hid_report # 0
      THEN {s}
      ELSE Allocate(s, MouseReport(Shown(s.current_primary_button_state)),
                    [s EXCEPT !.mouse_hid_report = Len(s.hid_report_buf) + 1,
                              !.previous_primary_button_state =
                                  s.current_primary_button_state])

WriteMotion(s, motion, pan) ==
    [s EXCEPT !.hid_report_buf[s.mouse_hid_report].motion = motion,
              !.hid_report_buf[s.mouse_hid_report].pan = {pan}]

\* What the fields of a report hold of a motion: two int16_t and an int8_t.
InReport(motion) ==
    [a \in Axes |-> Signed(motion[a], IF a = "z" THEN ScrollRange ELSE MotionRange)]

\* Mutant: the accumulators are cleared though there is no report.
MoveAndClear(s, factor) ==
    {LET told == IF t.mouse_hid_report = 0 THEN t
                   ELSE WriteMotion(t, InReport([a \in Axes |-> t.accumulated[a] * factor[a]]), 0)
     IN  [told EXCEPT !.accumulated = Still] : t \in CreateOrRetrieveMouseReport(s)}

\* report_mouse_movement (with factor 1) and ALTERED_MOUSE_MOVEMENT.
AlteredMouseMovement(s, factor) ==
    {IF t.mouse_hid_report = 0
       THEN t
       ELSE [WriteMotion(t, InReport([a \in Axes |-> t.accumulated[a] * factor[a]]), 0)
                EXCEPT !.accumulated = Still] : t \in CreateOrRetrieveMouseReport(s)}

\* The wheel's accumulator is left alone.
MotionAsScroll(s, divisor) ==
    {IF t.mouse_hid_report = 0
       THEN t
       ELSE LET told(a) == Signed(Quotient(t.accumulated[a], divisor[a]), ScrollRange)
                rest(a) == Remainder(t.accumulated[a], divisor[a])
            IN  [WriteMotion(t, [Still EXCEPT !.z = told("y")], told("x"))
                   EXCEPT !.accumulated.x = rest("x"), !.accumulated.y = rest("y")] :
     t \in CreateOrRetrieveMouseReport(s)}

-----------------------------------------------------------------------------
(***************************************************************************)
(* The other reporting functions.                                          *)
(***************************************************************************)
AbsoluteMousePosition(s, button) ==
    Allocate(s, AbsoluteReport(button),
             [s EXCEPT !.previous_keypad_state = s.current_keypad_state])

ReleaseAllKeys(s) ==
    Allocate(s, KeyboardReport({}, {}), [s EXCEPT !.modifier_keys_state = {}])

PressReport(s, p) == KeyboardReport(s.modifier_keys_state \cup p.modifiers, p.keys)
LiftReport(s) == KeyboardReport(s.modifier_keys_state, {})

\* Mutant: an early return after the press.
PressWithoutLift(s, p) == Allocate(s, PressReport(s, p), s)

\* The lift is allocated whether or not the press was.
KeyboardPressRelease(s, p) ==
    UNION {Allocate(t, LiftReport(t), t) : t \in Allocate(s, PressReport(s, p), s)}

ModifierHoldPressRelease(s, hold, p) ==
    UNION {KeyboardPressRelease(t, p) :
           t \in Allocate(s, KeyboardReport(hold, {}),
                          [s EXCEPT !.modifier_keys_state = hold])}

\* Motion along axis a types a key and cancels the motion along the others.
Strike(s, a, quotient, press) ==
    IF quotient[a] = 0
      THEN {s}
      ELSE {[t EXCEPT !.accumulated = [Still EXCEPT ![a] = t.accumulated[a]]] :
            t \in KeyboardPressRelease(s, press[a][quotient[a] > 0])}

MotionModKeyPressRelease(s, divisor, press) ==
    LET q == [a \in Axes |-> Signed(Quotient(s.accumulated[a], divisor[a]), ScrollRange)]
        left == [s EXCEPT !.accumulated =
                    [a \in Axes |-> Remainder(s.accumulated[a], divisor[a])]]
    IN  UNION {UNION {Strike(u, "y", q, press) : u \in Strike(t, "x", q, press)} :
               t \in Strike(left, "z", q, press)}

\* An entry of an event table: the reporting function and its parameters.
Perform(s, e) ==
    CASE e.func = "NO_REPORT"                    -> {s}
      [] e.func = "RELEASE_ALL_KEYS"             -> ReleaseAllKeys(s)
      [] e.func = "ALTERED_MOUSE_MOVEMENT"       -> AlteredMouseMovement(s, e.factor)
      [] e.func = "ABSOLUTE_MOUSE_POSITIION"     -> AbsoluteMousePosition(s, e.button)
      [] e.func = "KEYBOARD_PRESS_RELEASE"       -> KeyboardPressRelease(s, e.press)
      [] e.func = "MOTION_MOD_KEY_PRESS_RELEASE" ->
             MotionModKeyPressRelease(s, e.divisor, e.press)
      [] e.func = "MODIFIER_HOLD_PRESS_RELEASE"  ->
             ModifierHoldPressRelease(s, e.hold, e.press)
      [] e.func = "MOTION_AS_SCROLL"             -> MotionAsScroll(s, e.divisor)

-----------------------------------------------------------------------------
(***************************************************************************)
(* Dispatch and the poll interval timer.                                   *)
(***************************************************************************)
KeyIndex(s) ==
    CASE RingButton \in s.current_primary_button_state -> RingButtonIdx
      [] /\ RingButton \notin s.current_primary_button_state
         /\ ScrollButton \in s.current_primary_button_state -> ScrollButtonIdx
      [] OTHER -> s.tracking_pressed_key

EventTable(s) == event_handler_table[current_application_id][KeyIndex(s)]

DispatchApplicationEventType(s, event) == Perform(s, EventTable(s)[event])

ReportButtons(s) ==
    IF s.previous_primary_button_state # s.current_primary_button_state
      THEN CreateOrRetrieveMouseReport(s)
      ELSE {s}

\* All keys are up.  num_keypad_movements_events_generated and the three
\* duration flags are never assigned: every release is a short press.
KeyUp(s) ==
    UNION {DispatchApplicationEventType(
               [t EXCEPT !.timer = "stopped", !.tracking_pressed_key = 0],
               "SHORT_PRESS_UP") :
           t \in IF s.modifier_keys_state # {} THEN ReleaseAllKeys(s) ELSE {s}}

FirstKey(keys) == CHOOSE k \in keys : \A l \in keys : k <= l

KeyDown(s) ==
    UNION {DispatchApplicationEventType(
               [t EXCEPT !.timer = "running",
                         !.tracking_pressed_key = FirstKey(s.current_keypad_state)],
               "KEY_DOWN") :
           t \in AlteredMouseMovement(s, Unaltered)}

\* Mutant: a shift from one key to another counts as a release.
ReportKeypadAlways(s) ==
    IF s.current_keypad_state = s.previous_keypad_state
      THEN {s}
      ELSE {[t EXCEPT !.previous_keypad_state = s.current_keypad_state] :
            t \in IF s.previous_keypad_state = {} THEN KeyDown(s) ELSE KeyUp(s)}

ReportKeypad(s) ==
    IF s.current_keypad_state = s.previous_keypad_state
      THEN {s}
      ELSE {[t EXCEPT !.previous_keypad_state = s.current_keypad_state] :
            t \in IF s.current_keypad_state = {}       THEN KeyUp(s)
                  ELSE IF s.previous_keypad_state = {} THEN KeyDown(s)
                  ELSE {s}}                \* shifted to a new key: ignored

ReportMotion(s) ==
    IF s.accumulated # Still
      THEN DispatchApplicationEventType(s, "MOUSE_MOVEMENT")
      ELSE {s}

\* Sending (USB_HID_Send_Next_Report) moves a report from Queued to Sending,
\* both of which are hid_report_buf here.
HidPollIntervalTimerCallback ==
    /\ \E s \in ReportButtons([handler EXCEPT !.mouse_hid_report = 0]) :
       \E t \in ReportKeypad(s) :
       \E u \in ReportMotion(t) :
           handler' = [u EXCEPT !.mouse_hid_report = 0]
    /\ UNCHANGED <<event_handler_table, current_application_id, to_load, host>>

-----------------------------------------------------------------------------
(***************************************************************************)
(* The other actions.                                                      *)
(***************************************************************************)
\* Mutant: the sum is kept without its width.
AddUnbounded(old, d) == [a \in Axes |-> old[a] + d[a]]

Add(old, d) == [a \in Axes |-> Signed(old[a] + d[a], MotionRange)]

\* spi_rx_complete
UpdateState(d, buttons, keys) ==
    /\ handler' = [handler EXCEPT !.accumulated = Add(@, d),
                                  !.current_primary_button_state = buttons,
                                  !.current_keypad_state = keys]
    /\ UNCHANGED <<event_handler_table, current_application_id, to_load, host>>

\* The application is the high byte of the key's low half, stored in a uint8_t
\* without being shifted down: it is always 0.
RegisteredApplication(e) == 0

\* main registers what is in flash, entry by entry.
RegisterConfigEntry(e) ==
    /\ e \in to_load
    /\ to_load' = to_load \ {e}
    /\ event_handler_table' =
         [a \in Applications |->
            IF RegisteredApplication(e) \in {0, a}
              THEN [event_handler_table[a] EXCEPT ![e.key] = e.table]
              ELSE event_handler_table[a]]
    /\ UNCHANGED <<handler, current_application_id, host>>

\* The remote call SET_CURRENT_APPLICATION_ID.  The code takes any byte without a
\* look at it, and 16 and above lead past the end of event_handler_table, to
\* memory that is not modelled: here the computer sends the ids there are.
SetApplicationId(a) ==
    /\ current_application_id' = a
    /\ UNCHANGED <<handler, event_handler_table, to_load, host>>

\* The host takes the oldest report.
Told(view, r) ==
    CASE r.kind = "mouse"    -> [view EXCEPT !.buttons = r.buttons]
      [] r.kind = "keyboard" -> [view EXCEPT !.keys = r.keys]
      [] r.kind = "absolute" -> view

HostTakes ==
    /\ handler.hid_report_buf # <<>>
    /\ host' = Told(host, Head(handler.hid_report_buf))
    /\ handler' = [handler EXCEPT !.hid_report_buf = Tail(@)]
    /\ UNCHANGED <<event_handler_table, current_application_id, to_load>>

Init ==
    /\ handler = [accumulated |-> Still,
                  current_primary_button_state |-> {},
                  previous_primary_button_state |-> {},
                  current_keypad_state |-> {},
                  previous_keypad_state |-> {},
                  tracking_pressed_key |-> 0,
                  modifier_keys_state |-> {},
                  timer |-> "stopped",
                  mouse_hid_report |-> 0,
                  hid_report_buf |-> <<>>]
    /\ event_handler_table =
         [a \in Applications |-> [k \in KeyIndexes |-> DefaultTable]]
    /\ current_application_id = 0
    /\ to_load = StoredEntries
    /\ host = [buttons |-> {}, keys |-> {}]

SpiRxComplete == \E d \in Moves, b \in ButtonStates, k \in KeypadStates : UpdateState(d, b, k)

Next == \/ HidPollIntervalTimerCallback
        \/ SpiRxComplete
        \/ \E e \in StoredEntries : RegisterConfigEntry(e)
        \/ \E a \in Applications : SetApplicationId(a)
        \/ HostTakes

Spec == Init /\ [][Next]_vars

-----------------------------------------------------------------------------
(***************************************************************************)
(* Properties.                                                             *)
(***************************************************************************)
\* What the host will have been told once it has taken all reports.
Believed(field, kind) ==
    LET buf == handler.hid_report_buf
    IN  IF Positions(buf, kind) = {} THEN host[field]
                                     ELSE buf[Max(Positions(buf, kind))][field]
BelievedButtons == Believed("buttons", "mouse")
BelievedKeys == Believed("keys", "keyboard")

\* The accumulators fit their type, and the buffer holds no more than it can.
TypeOK ==
    /\ \A a \in Axes : /\ handler.accumulated[a] >= -(MotionRange \div 2)
                       /\ handler.accumulated[a] < MotionRange - (MotionRange \div 2)
    /\ handler.current_primary_button_state \in ButtonStates
    /\ handler.previous_primary_button_state \in ButtonStates
    /\ handler.current_keypad_state \in KeypadStates
    /\ handler.previous_keypad_state \in KeypadStates
    /\ handler.tracking_pressed_key \in Keys \cup {0}
    /\ handler.modifier_keys_state \subseteq Modifiers
    /\ handler.timer \in {"running", "stopped"}
    /\ handler.mouse_hid_report = 0
    /\ BytesUsed(handler) <= MaxBufferSize
    /\ current_application_id \in Applications
    /\ to_load \subseteq StoredEntries

\* The button state that counts as reported is the one the host ends up with,
\* whichever reports were refused ("if there is a mouse_hid_report, it has the
\* button state in it").
ButtonsInStep == BelievedButtons = Shown(handler.previous_primary_button_state)

\* The key press timer runs, and a key is being tracked, exactly while the
\* keypad state handled last has a key down.
TimerFollowsKeypad ==
    /\ (handler.timer = "running") <=> (handler.previous_keypad_state # {})
    /\ (handler.tracking_pressed_key # 0) <=> (handler.previous_keypad_state # {})

\* The functions that only move motion from the accumulators to a report.
MovesMotion(e) ==
    \/ e.func \notin {"ALTERED_MOUSE_MOVEMENT", "MOTION_AS_SCROLL",
                      "MOTION_MOD_KEY_PRESS_RELEASE"}
    \/ e.func = "ALTERED_MOUSE_MOVEMENT" /\ e.factor = Unaltered

NewReports == SubSeq(handler'.hid_report_buf, Len(handler.hid_report_buf) + 1,
                     Len(handler'.hid_report_buf))

\* Nothing is lost and nothing reported twice: what leaves the accumulators is
\* in the new reports.  The wheel's field has fewer bits than its accumulator,
\* so that the higher ones are lost.
Conserved ==
    LET new == NewReports
        told == Positions(new, "mouse")
        reported(a) == MapThenSumSet(LAMBDA i : new[i].motion[a], told)
    IN  \/ new = <<>> /\ handler'.accumulated = handler.accumulated
        \/ \A a \in Axes :
              (handler'.accumulated[a] + reported(a) - handler.accumulated[a])
                  % (IF a = "z" THEN ScrollRange ELSE MotionRange) = 0

\* The entry in use scales or redirects motion.
MotionIsRedirected ==
    LET table == event_handler_table[current_application_id][KeyIndex(handler')]
    IN  \/ ~MovesMotion(table["MOUSE_MOVEMENT"])
        \/ \E event \in {"KEY_DOWN", "SHORT_PRESS_UP"} :
              \/ ~MovesMotion(table[event])
              \/ table[event].func = "ALTERED_MOUSE_MOVEMENT"

\* spi_rx_complete adds motion.
MotionArrives ==
    \E d \in Moves : UpdateState(d, handler'.current_primary_button_state,
                                 handler'.current_keypad_state)

\* A poll interval that is not configured to do something else with motion
\* conserves it, whatever was refused.
MotionConserved == [][Conserved \/ MotionArrives \/ MotionIsRedirected]_vars

\* A poll interval leaves the host with a key held down only when the buffer
\* was nearly full: press and lift go together otherwise, in that order.
KeysAreLifted ==
    [][BelievedKeys' # {} /\ BelievedKeys = {}
         => BytesUsed(handler') + 6 + (LargestBlock - 1) >= MaxBufferSize]_vars

\* The comments at mouse_event_handler.cpp:149-152: the key-up event of the
\* pressed key is looked up and reported.  Here: a released key whose short
\* press types something does type it, unless the buffer is nearly full.
ShortPressIsReported ==
    [][\A k \in Keys :
         LET e == event_handler_table[current_application_id][k]["SHORT_PRESS_UP"] IN
         /\ handler.tracking_pressed_key = k
         /\ handler'.tracking_pressed_key = 0
         /\ KeyIndex(handler') = 0              \* no button overrides the keypad
         /\ e.func = "KEYBOARD_PRESS_RELEASE"
         /\ handler.hid_report_buf = <<>>
         => PressReport(handler, e.press) \in {NewReports[i] : i \in DOMAIN NewReports}]_vars
=============================================================================
