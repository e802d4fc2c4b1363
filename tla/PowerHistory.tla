---------------------------- MODULE PowerHistory ----------------------------
(***************************************************************************)
(* PowerControl with history variables, and the properties that relate a   *)
(* step of the state machine to what happened before it: how long the      *)
(* board has really been silent, how long ago the machine was really       *)
(* switched off, how the current press began.  The history never           *)
(* constrains a step.                                                      *)
(***************************************************************************)
EXTENDS PowerControl

VARIABLES
    offAt,        \* uptime of the last power-off (negative: none in this boot)
    lastHigh,     \* uptime of the last pass that read TPMS1 high
    sawRelease,   \* this boot has read the switch released at least once
    pressOrigin,  \* the state in which the press that is going on, or was last
                  \* released, began; "none" before the first one
    pressActs,    \* power changes the current press has caused, capped at 2
    toggled       \* the state a TOGGLE of this pass was decided by, or "none"

histVars == <<offAt, lastHigh, sawRelease, pressOrigin, pressActs, toggled>>
hvars == <<vars, histVars>>

\* No power-off that still matters.
LongAgo == -BLE_WAKE_COOLDOWN_MS

HInit ==
    /\ Init
    /\ offAt = LongAgo /\ lastHigh = -1
    /\ sawRelease = FALSE /\ pressOrigin = "none" /\ pressActs = 0
    /\ toggled = "none"

Rebooted == pc # "setup" /\ pc' = "setup"
WentOff == state # "OFF" /\ state' = "OFF"
\* A request that TOGGLE may have made; what follows is the same for all.
MayToggle ==
    /\ pc = "pollOn" /\ pc' = "pollOn"
    /\ requestVars' # requestVars
    /\ IF state = "OFF" THEN reqPowerOn' ELSE reqPowerOff'
Sampled == pc \in {"setup", "inputs"} /\ pc' # pc

HReboot ==
    /\ offAt' = LongAgo /\ lastHigh' = -1
    /\ sawRelease' = FALSE /\ pressOrigin' = "none" /\ pressActs' = 0
    /\ toggled' = "none"

HStep ==
    /\ offAt' = IF WentOff THEN now ELSE offAt
    /\ lastHigh' = IF Sampled /\ senseLevel' THEN now ELSE lastHigh
    /\ sawRelease' = (sawRelease \/ (Sampled /\ ~button'.lastRaw))
    /\ pressOrigin' = IF ~(pc = "inputs" /\ Rose(button, button')) THEN pressOrigin
                      ELSE IF sawRelease THEN state ELSE "heldSinceReset"
    /\ pressActs' = IF pc = "inputs" /\ Rose(button, button') THEN 0
                    ELSE IF pc \in {"inputs", "holds"} /\ state' # state /\ pressActs < 2
                         THEN pressActs + 1
                         ELSE pressActs
    /\ toggled' = IF pc = "pollOff" /\ pc' # pc THEN "none"
                  ELSE IF MayToggle THEN state ELSE toggled

HNext == Next /\ (IF Rebooted THEN HReboot ELSE HStep)

HSpec == HInit /\ [][HNext]_hvars

HFairSpec == HSpec /\ Fairness

-----------------------------------------------------------------------------
(* Properties.                                                              *)

\* The power switch as promised: no change of power without its cause, on a
\* clock that does not come round.
Switch == INSTANCE PowerSwitch WITH
    begun <- pc # "setup", at <- now,
    mode <- state, bootAt <- bootStart,
    onOrder <- reqPowerOn, offOrder <- reqPowerOff,
    pressed <- button.stable, pressAt <- pressStart, pressWhileOff <- pressStartedOff,
    heardAt <- IF bleSeenEver THEN bleLastSeen ELSE -BLE_PRESENCE_TIMEOUT_MS,
    highAt <- lastHigh

\* The firmware implements it: every step that changes the power, in any order
\* of triggers, does so for a cause that holds in real time.
ImplementsPowerSwitch == Switch!Spec

\* A TOGGLE inverts the state it was decided by before the pass goes on,
\* although others request on and off; only an off that is pending undoes an on.
ToggleInverts ==
    [][pc = "pollOff" /\ pc' = "inputs" /\ toggled # "none"
         => state' = IF toggled = "OFF" /\ ~reqPowerOff THEN "BOOTING" ELSE "OFF"]_hvars

\* The machine follows the board down only after TPMS1 has read low in every
\* pass for the whole off-debounce window.
ShutdownIsSustained ==
    [][pc = "board" /\ pc' = "pollOn" /\ state = "ON" /\ state' = "OFF"
         => now - lastHigh >= BOARD_OFF_DEBOUNCE_MS]_hvars

Present == bleSeenEver /\ now - bleLastSeen \in 0 .. BLE_PRESENCE_TIMEOUT_MS - 1
Guarded == now - offAt < BLE_WAKE_COOLDOWN_MS

\* A controller heard within the presence window is never passed over once the
\* guard window after the last power-off is over.
WakeNotMissed ==
    [][pc = "ble" /\ pc' = "board" /\ state = "OFF" /\ Present /\ ~Guarded
         => state' = "BOOTING"]_hvars

\* Only a press that began in this boot powers on: the release that ends the
\* hold of a factory reset finds the machine off and leaves it off.
TapBeganInThisBoot ==
    [][pc = "inputs" /\ state' = "BOOTING" /\ state # "BOOTING"
         => pressOrigin = "OFF"]_hvars

\* One press, one effect: a hold that forced the machine off neither forces it
\* off again nor taps it on, however often others switch it on meanwhile.
OneEffectPerPress == pressActs < 2

\* The inductive invariants behind ShutdownIsSustained and OneEffectPerPress:
\* while TPMS1 is recorded as low, its recorded change is no older than the last
\* high reading (one that this pass has yet to record excepted) ...
SenseInv ==
    /\ lastHigh \in Int
    /\ lastHigh <= now
    /\ board.lastChange <= now
    /\ pc = "setup" => ~board.lastRaw
    /\ ~board.lastRaw /\ (pc \in {"holds", "ble", "board"} => ~senseLevel)
         => lastHigh <= board.lastChange

\* ... and a press that has acted can neither be released nor held to act again.
PressInv ==
    /\ pressActs \in {0, 1}
    /\ pressActs = 1 => /\ pc # "setup"
                        /\ IF pressStartedOff THEN ~button.stable ELSE longPressFired

\* Behind TapBeganInThisBoot: a switch that is debounced as released was read
\* released in this boot, so the next press is one that began in it.
OriginInv ==
    /\ pc = "setup" => ~pressStartedOff
    /\ pc # "setup" /\ ~button.stable => sawRelease
    /\ pressStartedOff => pressOrigin = "OFF"

\* Behind ToggleInverts: until the pass has come to the request of a TOGGLE, the
\* state is the one that decided it and the request is pending.
ToggleInv ==
    toggled # "none" =>
        \/ /\ pc = "pollOn" /\ state = toggled
           /\ IF toggled = "OFF" THEN reqPowerOn ELSE reqPowerOff
        \/ /\ pc = "pollOff"
           /\ IF toggled = "OFF" THEN state = "BOOTING" ELSE state # "OFF" /\ reqPowerOff

\* What ties the firmware's variables to the promised switch: the guard window
\* ends a cooldown after the last power-off, no timestamp of the pass is ahead of
\* it, and what is taken for a high board was read high in this boot.
SwitchInv ==
    /\ time <= MaxTime
    /\ offAt \in Int /\ offAt <= now
    /\ bleInhibitUntil = offAt + BLE_WAKE_COOLDOWN_MS
    /\ pressStart <= now /\ ~factoryFired
    /\ lastHigh \in Int
    /\ board.stable \/ board.lastRaw \/ (pc # "setup" /\ senseLevel) => lastHigh >= 0
    /\ pc = "setup" => state = "OFF" /\ now = 0

\* A boot ends: by the board coming up, the watchdog or a request.
BootEnds ==
    (state = "BOOTING" /\ bootStart + BOOT_TIMEOUT_MS <= MaxTime) ~> state # "BOOTING"

\* A requested power-off takes place, whatever triggers race with it.
OffRequestServed == reqPowerOff ~> state = "OFF"

\* README.md:114: "Hold >= 8 s while off" is what wipes the configuration;
\* the machine is not on when the factory reset of the button takes place.
ResetOnlyWhileOff == [][factoryHold => state = "OFF"]_hvars

=============================================================================
