---------------------------- MODULE PowerSwitch -----------------------------
(***************************************************************************)
(* What the power switch promises, told in real time: no change of power   *)
(* without its cause.  There are no passes here, no debouncing, no task    *)
(* and no counter that comes round; PowerHistory shows that normalLoop and *)
(* the code around it implement this.                                      *)
(*                                                                         *)
(* `at` is the uptime the machine goes by.  What it knows of the world is  *)
(* when the controller was last heard, when TPMS1 was last read high and   *)
(* when the press that is going on, or went on last, began.                *)
(***************************************************************************)
EXTENDS Integers

CONSTANTS
    LONG_PRESS_MS, FACTORY_HOLD_MS, BOARD_OFF_DEBOUNCE_MS,
    BOOT_TIMEOUT_MS, BLE_PRESENCE_TIMEOUT_MS, BLE_WAKE_COOLDOWN_MS

VARIABLES
    begun, at,
    mode, psu, bootAt, offAt,
    onOrder, offOrder,
    pressed, pressAt, pressWhileOff,
    heardAt, highAt

powerVars == <<mode, psu, bootAt, offAt>>
orderVars == <<onOrder, offOrder>>
pressVars == <<pressed, pressAt, pressWhileOff>>
vars == <<begun, at, powerVars, orderVars, pressVars, heardAt, highAt>>

\* After a reset all is off and nothing is known, the guard window included.
Init ==
    /\ begun = FALSE /\ at = 0
    /\ mode = "OFF" /\ psu = FALSE
    /\ onOrder = FALSE /\ offOrder = FALSE
    /\ pressed = FALSE /\ pressWhileOff = FALSE
    /\ heardAt <= -BLE_PRESENCE_TIMEOUT_MS
    /\ offAt <= -BLE_WAKE_COOLDOWN_MS
    /\ highAt < 0

Reset ==
    /\ begun' = FALSE /\ at' = 0
    /\ mode' = "OFF" /\ psu' = FALSE
    /\ onOrder' = FALSE /\ offOrder' = FALSE
    /\ pressed' = FALSE /\ pressWhileOff' = FALSE
    /\ heardAt' <= -BLE_PRESENCE_TIMEOUT_MS
    /\ offAt' <= -BLE_WAKE_COOLDOWN_MS
    /\ highAt' < 0

\* Power changes in three ways, whatever the cause.
TurnOn == mode = "OFF" /\ mode' = "BOOTING" /\ psu' = TRUE /\ bootAt' = at' /\ UNCHANGED offAt
TurnOff == mode # "OFF" /\ mode' = "OFF" /\ psu' = FALSE /\ offAt' = at' /\ UNCHANGED bootAt
Keep == UNCHANGED powerVars

\* A board that is up is taken over as ON; a button that is down is no press.
Begin ==
    /\ ~begun /\ begun'
    /\ \/ highAt' = at /\ mode' = "ON" /\ psu' = TRUE
       \/ UNCHANGED <<highAt, mode, psu>>
    /\ UNCHANGED <<at, bootAt, offAt, orderVars, pressAt, pressWhileOff, heardAt>>

Order ==
    /\ begun
    /\ onOrder => onOrder'
    /\ offOrder => offOrder'
    /\ UNCHANGED <<begun, at, powerVars, pressVars, heardAt, highAt>>

\* An order is carried out when it is taken, unless there is nothing to do.
TakeOnOrder ==
    /\ begun
    /\ at' >= at
    /\ onOrder' = FALSE
    /\ IF onOrder /\ mode = "OFF" THEN TurnOn ELSE Keep
    /\ UNCHANGED <<begun, offOrder, pressVars, heardAt, highAt>>

TakeOffOrder ==
    /\ begun
    /\ offOrder' = FALSE
    /\ IF offOrder /\ mode # "OFF" THEN TurnOff ELSE Keep
    /\ UNCHANGED <<begun, at, onOrder, pressVars, heardAt, highAt>>

\* The release of a press that began while off, and in time, powers on.
Tap ==
    /\ pressed /\ ~pressed'
    /\ pressWhileOff /\ mode = "OFF" /\ at - pressAt < FACTORY_HOLD_MS

LookAtInputs ==
    /\ begun
    /\ highAt' \in {highAt, at}
    /\ \/ /\ ~pressed /\ pressed'
          /\ pressAt' = at /\ pressWhileOff' = (mode = "OFF")
          /\ Keep
       \/ (pressed' => pressed) /\ UNCHANGED <<pressAt, pressWhileOff>>
          /\ IF Tap THEN TurnOn ELSE Keep
    /\ UNCHANGED <<begun, at, orderVars, heardAt>>

Hear ==
    /\ begun
    /\ heardAt' >= at
    /\ UNCHANGED <<begun, at, powerVars, orderVars, pressVars, highAt>>

\* The causes of a change of power that nobody ordered or tapped.
ControllerPresent == mode = "OFF" /\ at - heardAt < BLE_PRESENCE_TIMEOUT_MS
                                  /\ at - offAt >= BLE_WAKE_COOLDOWN_MS
HeldDown == mode = "ON" /\ pressed /\ ~pressWhileOff /\ at - pressAt >= LONG_PRESS_MS
BootFailed == mode = "BOOTING" /\ at - bootAt >= BOOT_TIMEOUT_MS
BoardDown == mode = "ON" /\ at - highAt >= BOARD_OFF_DEBOUNCE_MS

Follow ==
    /\ begun
    /\ \/ ControllerPresent /\ TurnOn
       \/ (HeldDown \/ BootFailed \/ BoardDown) /\ TurnOff
       \/ /\ mode = "BOOTING" /\ highAt >= 0
          /\ mode' = "ON" /\ UNCHANGED <<psu, bootAt, offAt>>
    /\ UNCHANGED <<begun, at, orderVars, pressVars, heardAt, highAt>>

Next ==
    \/ Reset \/ Begin \/ Order \/ TakeOnOrder \/ TakeOffOrder
    \/ LookAtInputs \/ Hear \/ Follow

Spec == Init /\ [][Next]_vars

=============================================================================
