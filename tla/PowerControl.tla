---------------------------- MODULE PowerControl ----------------------------
(***************************************************************************)
(* The power state machine of src/main.cpp: normalBegin, normalLoop and    *)
(* the callbacks and requests other tasks feed it with.                    *)
(*                                                                         *)
(* One pass of normalLoop is the sequence of steps                         *)
(*                                                                         *)
(*   pollOn -> pollOff -> inputs -> holds -> ble -> board -> pollOn        *)
(*                                                                         *)
(* on the clock reading `now` taken at its top.  Between any two steps the *)
(* NimBLE scan task may record an advertisement and the web or MQTT        *)
(* handlers may flag a request; time may advance too, by little during a   *)
(* pass (nothing in it blocks) and by more at "pollOn", where the rest of  *)
(* loop() runs.  "setup" is the time between a reset and the end of        *)
(* normalBegin.                                                            *)
(***************************************************************************)
EXTENDS Millis

CONSTANTS
    DEBOUNCE_MS, LONG_PRESS_MS, FACTORY_HOLD_MS, BOARD_OFF_DEBOUNCE_MS,
    BOOT_TIMEOUT_MS, BLE_PRESENCE_TIMEOUT_MS, BLE_WAKE_COOLDOWN_MS

CONSTANTS
    MaxTime,        \* bound on the uptime explored
    MaxPass,        \* how far the clock may run on during one normalLoop
    MaxIdle,        \* how far it may run on until the next one
    ButtonLevels,   \* what the switch may read: a subset of BOOLEAN
    SenseBands,     \* what TPMS1 may read: a subset of {"low", "mid", "high"}
    Requests,       \* what is requested: a subset of {"on", "off", "toggle"}
    BoundAtBoot,    \* whether a controller is bound: a subset of BOOLEAN
    Resets          \* TRUE if the ESP may reset by itself (brown-out, crash)

Bands == {"low", "mid", "high"}
PowerStates == {"OFF", "BOOTING", "ON"}
Steps == {"setup", "pollOn", "pollOff", "inputs", "holds", "ble", "board"}

ASSUME TimingAssumption ==
    /\ {DEBOUNCE_MS, LONG_PRESS_MS, FACTORY_HOLD_MS, BOARD_OFF_DEBOUNCE_MS} \subseteq Nat
    /\ {BLE_PRESENCE_TIMEOUT_MS, BLE_WAKE_COOLDOWN_MS} \subseteq Nat
    /\ BOOT_TIMEOUT_MS \in Nat \ {0}

ASSUME EnvironmentAssumption ==
    /\ {MaxTime, MaxPass, MaxIdle} \subseteq Nat
    /\ ButtonLevels \subseteq BOOLEAN /\ SenseBands \subseteq Bands
    /\ Requests \subseteq {"on", "off", "toggle"}
    /\ BoundAtBoot \subseteq BOOLEAN /\ Resets \in BOOLEAN

VARIABLES
    time,             \* true uptime in ms; millis() is time % WRAP
    pc,               \* the step of the loop task that comes next
    now,              \* the reading of millis() the current pass works with
    state,            \* PowerState
    psu,              \* PS_ON# asserted
    bootStart,        \* when BOOTING began
    bleInhibitUntil,  \* BLE wakes are ignored until then
    reqPowerOn, reqPowerOff,
    button,           \* debounced switch
    pressStart, pressStartedOff, longPressFired, factoryFired,
    senseLevel,       \* TPMS1 after hysteresis
    board,            \* debounced TPMS1
    bleSeenEver, bleLastSeen,
    bound             \* config.wakeAddrs holds the controller in range

clockVars == <<time, now>>
powerVars == <<state, psu, bootStart, bleInhibitUntil>>
requestVars == <<reqPowerOn, reqPowerOff>>
pressVars == <<pressStart, pressStartedOff, longPressFired, factoryFired>>
buttonVars == <<button, pressVars>>
boardVars == <<senseLevel, board>>
bleVars == <<bleSeenEver, bleLastSeen, bound>>
vars == <<clockVars, pc, powerVars, requestVars, buttonVars, boardVars, bleVars>>

-----------------------------------------------------------------------------
(* Debounced levels and the board-sense hysteresis.                         *)

Debouncer == [stable : BOOLEAN, lastRaw : BOOLEAN, lastChange : Nat]

\* debounce() keeps the flip out until the raw level has held for the window.
Debounce(d, raw, at, window) ==
    LET since == IF raw # d.lastRaw THEN at ELSE d.lastChange
        flip  == raw # d.stable /\ Elapsed(at, since) >= window
    IN  [stable     |-> IF flip THEN raw ELSE d.stable,
         lastRaw    |-> raw,
         lastChange |-> since]

Rose(old, new) == ~old.stable /\ new.stable
Fell(old, new) == old.stable /\ ~new.stable

\* The averaged voltage is above SENSE_HIGH_MV, below SENSE_LOW_MV or between.
readBoardSense(mv) == mv = "high" \/ (mv = "mid" /\ senseLevel)

-----------------------------------------------------------------------------
(* The two ways the machine changes power, shared by every trigger.         *)

powerOn(at) ==
    /\ psu' = TRUE /\ state' = "BOOTING"
    /\ bootStart' = at
    /\ UNCHANGED bleInhibitUntil

\* MUTANT of guardEnd: the guard window is set the wrong way.
guardEndBehind(at) == at - BLE_WAKE_COOLDOWN_MS

guardEnd(at) == at + BLE_WAKE_COOLDOWN_MS

powerOff(at) ==
    /\ psu' = FALSE /\ state' = "OFF"
    /\ bleInhibitUntil' = guardEnd(at)
    /\ UNCHANGED bootStart

-----------------------------------------------------------------------------
(* Reset and normalBegin.                                                   *)

Released == [stable |-> FALSE, lastRaw |-> FALSE, lastChange |-> 0]

\* What power-up leaves: zeroed statics, PS_ON# floating high (PSU off).
Init ==
    /\ time = 0 /\ now = 0 /\ pc = "setup"
    /\ state = "OFF" /\ psu = FALSE
    /\ bootStart = 0 /\ bleInhibitUntil = 0
    /\ reqPowerOn = FALSE /\ reqPowerOff = FALSE
    /\ button = Released /\ pressStart = 0
    /\ pressStartedOff = FALSE /\ longPressFired = FALSE /\ factoryFired = FALSE
    /\ senseLevel = FALSE /\ board = Released
    /\ bleSeenEver = FALSE /\ bleLastSeen = 0
    /\ bound \in BoundAtBoot

\* The same state reached by a reset; only what NVS holds lives on.
Restart ==
    /\ time' = 0 /\ now' = 0 /\ pc' = "setup"
    /\ state' = "OFF" /\ psu' = FALSE
    /\ bootStart' = 0 /\ bleInhibitUntil' = 0
    /\ reqPowerOn' = FALSE /\ reqPowerOff' = FALSE
    /\ button' = Released /\ pressStart' = 0
    /\ pressStartedOff' = FALSE /\ longPressFired' = FALSE /\ factoryFired' = FALSE
    /\ senseLevel' = FALSE /\ board' = Released
    /\ bleSeenEver' = FALSE /\ bleLastSeen' = 0

\* A reset the firmware did not ask for; the configuration in NVS survives.
SpontaneousReset ==
    /\ Resets
    /\ pc # "setup"
    /\ Restart
    /\ UNCHANGED bound

\* MUTANT of seed: the debounced level is taken to be released, or low.
seedRaw(d, level) == [d EXCEPT !.lastRaw = level]

seed(d, level) == [d EXCEPT !.stable = level, !.lastRaw = level]

\* MUTANT of adopt: a running board is adopted without asserting PS_ON#.
adoptStateOnly(up) == state' = (IF up THEN "ON" ELSE "OFF") /\ UNCHANGED psu

adopt(up) == state' = (IF up THEN "ON" ELSE "OFF") /\ psu' = up

\* The debounced levels start from what the pins read, so that a button held
\* since before the reset is no press; a board that is up is adopted as ON.
normalBegin ==
    /\ pc = "setup"
    /\ pc' = "pollOn"
    /\ \E pressed \in ButtonLevels, mv \in SenseBands :
          /\ button' = seed(button, pressed)
          /\ senseLevel' = readBoardSense(mv)
    /\ board' = seed(board, senseLevel')
    /\ adopt(senseLevel')
    /\ UNCHANGED <<clockVars, bootStart, bleInhibitUntil, requestVars, pressVars, bleVars>>

-----------------------------------------------------------------------------
(* normalLoop, step by step.                                                *)

\* The pass takes its clock reading and executes a flagged "on" request.
pollOn ==
    /\ pc = "pollOn"
    /\ pc' = "pollOff"
    /\ now' = time
    /\ reqPowerOn' = FALSE
    /\ \/ reqPowerOn /\ state = "OFF" /\ powerOn(now')
       \/ ~(reqPowerOn /\ state = "OFF") /\ UNCHANGED powerVars
    /\ UNCHANGED <<time, reqPowerOff, buttonVars, boardVars, bleVars>>

\* MUTANT of offHonoured: a boot in progress cannot be aborted.
offHonouredWhenOn == reqPowerOff /\ state = "ON"

offHonoured == reqPowerOff /\ state # "OFF"

\* A flagged "off" request is executed after the "on" request of the pass.
pollOff ==
    /\ pc = "pollOff"
    /\ pc' = "inputs"
    /\ reqPowerOff' = FALSE
    /\ \/ offHonoured /\ powerOff(now)
       \/ ~offHonoured /\ UNCHANGED powerVars
    /\ UNCHANGED <<clockVars, reqPowerOn, buttonVars, boardVars, bleVars>>

pressBegan ==
    /\ pressStart' = now /\ pressStartedOff' = (state = "OFF")
    /\ longPressFired' = FALSE /\ factoryFired' = FALSE
    /\ UNCHANGED powerVars

\* MUTANT of isTap: a release is a tap however late it comes.
isTapLate == pressStartedOff /\ ~factoryFired /\ state = "OFF"

\* On release, a short tap that began while OFF powers on.
isTap ==
    /\ pressStartedOff /\ ~factoryFired /\ state = "OFF"
    /\ Elapsed(now, pressStart) < FACTORY_HOLD_MS

pressReleased ==
    /\ \/ isTap /\ powerOn(now)
       \/ ~isTap /\ UNCHANGED powerVars
    /\ UNCHANGED pressVars

\* Both inputs are sampled; the switch is debounced and its edges acted upon.
readInputs ==
    /\ pc = "inputs"
    /\ pc' = "holds"
    /\ \E pressed \in ButtonLevels, mv \in SenseBands :
          /\ button' = Debounce(button, pressed, now, DEBOUNCE_MS)
          /\ senseLevel' = readBoardSense(mv)
    /\ \/ Rose(button, button') /\ pressBegan
       \/ Fell(button, button') /\ pressReleased
       \/ button'.stable = button.stable /\ UNCHANGED <<pressVars, powerVars>>
    /\ UNCHANGED <<clockVars, requestVars, board, bleVars>>

factoryHoldReached ==
    /\ button.stable /\ pressStartedOff /\ ~factoryFired
    /\ Elapsed(now, pressStart) >= FACTORY_HOLD_MS

\* MUTANT of forceOffReached: a hold may fire again and again.
forceOffReachedTwice ==
    /\ button.stable /\ ~pressStartedOff /\ state = "ON"
    /\ Elapsed(now, pressStart) >= LONG_PRESS_MS

forceOffReached ==
    /\ button.stable /\ ~pressStartedOff /\ ~longPressFired /\ state = "ON"
    /\ Elapsed(now, pressStart) >= LONG_PRESS_MS

\* doFactoryReset: every setting is wiped and the ESP restarts.
factoryHold ==
    /\ pc = "holds"
    /\ factoryHoldReached
    /\ Restart
    /\ bound' = FALSE

forceOff ==
    /\ pc = "holds"
    /\ forceOffReached
    /\ pc' = "ble"
    /\ longPressFired' = TRUE
    /\ powerOff(now)
    /\ UNCHANGED <<clockVars, requestVars, button, pressStart, pressStartedOff,
                   factoryFired, boardVars, bleVars>>

noHold ==
    /\ pc = "holds"
    /\ ~factoryHoldReached
    /\ ~forceOffReached
    /\ pc' = "ble"
    /\ UNCHANGED <<clockVars, powerVars, requestVars, buttonVars, boardVars, bleVars>>

\* MUTANT of blePresent: the zero of bleLastSeen counts as a sighting.
blePresentUnseen == Elapsed(now, bleLastSeen) < BLE_PRESENCE_TIMEOUT_MS

blePresent == bleSeenEver /\ Elapsed(now, bleLastSeen) < BLE_PRESENCE_TIMEOUT_MS

\* MUTANT of bleInhibited: the difference without the cast to signed.
bleInhibitedUnsigned == Elapsed(bleInhibitUntil, now) > 0

bleInhibited == Ahead(bleInhibitUntil, now)

bleWakes == state = "OFF" /\ blePresent /\ ~bleInhibited

\* "Machine follows controller".
bleWake ==
    /\ pc = "ble"
    /\ pc' = "board"
    /\ \/ bleWakes /\ powerOn(now)
       \/ ~bleWakes /\ UNCHANGED powerVars
    /\ UNCHANGED <<clockVars, requestVars, buttonVars, boardVars, bleVars>>

\* MUTANT of boardWindow: the two windows swapped.
boardWindowSwapped ==
    IF state = "BOOTING" THEN BOARD_OFF_DEBOUNCE_MS ELSE DEBOUNCE_MS

boardWindow == IF state = "BOOTING" THEN DEBOUNCE_MS ELSE BOARD_OFF_DEBOUNCE_MS

\* MUTANT of bootTimedOut: a reading of its own instead of the pass's clock.
bootTimedOutFresh == Elapsed(time, bootStart) >= BOOT_TIMEOUT_MS

\* MUTANT of bootTimedOut: off by one.
bootTimedOutLate == Elapsed(now, bootStart) > BOOT_TIMEOUT_MS

\* MUTANT of bootTimedOut: zero read as "no boot in progress".
bootTimedOutSentinel == ~IsZero(bootStart) /\ Elapsed(now, bootStart) >= BOOT_TIMEOUT_MS

bootTimedOut == Elapsed(now, bootStart) >= BOOT_TIMEOUT_MS

gaveOut(up, dropped) ==
    \/ state = "BOOTING" /\ ~up /\ bootTimedOut
    \/ state = "ON" /\ dropped

\* BOOTING ends with the board up or with the watchdog; ON follows the board
\* down.  `up` is the debounced level of this pass, `dropped` its falling edge.
followBoard(up, dropped) ==
    \/ /\ state = "BOOTING" /\ up
       /\ state' = "ON" /\ UNCHANGED <<psu, bootStart, bleInhibitUntil>>
    \/ gaveOut(up, dropped) /\ powerOff(now)
    \/ ~(state = "BOOTING" /\ up) /\ ~gaveOut(up, dropped) /\ UNCHANGED powerVars

debounceBoard ==
    /\ pc = "board"
    /\ pc' = "pollOn"
    /\ board' = Debounce(board, senseLevel, now, boardWindow)
    /\ followBoard(board'.stable, Fell(board, board'))
    /\ UNCHANGED <<clockVars, requestVars, buttonVars, senseLevel, bleVars>>

normalLoop ==
    \/ pollOn \/ pollOff \/ readInputs
    \/ factoryHold \/ forceOff \/ noHold
    \/ bleWake \/ debounceBoard

-----------------------------------------------------------------------------
(* The other tasks, and time.                                               *)

request(on, off) ==
    /\ reqPowerOn' = (reqPowerOn \/ on)
    /\ reqPowerOff' = (reqPowerOff \/ off)
    /\ UNCHANGED <<clockVars, pc, powerVars, buttonVars, boardVars, bleVars>>

requestPowerOn == "on" \in Requests /\ request(TRUE, FALSE)
requestPowerOff == "off" \in Requests /\ request(FALSE, TRUE)

\* On the web task.
handlePower == pc # "setup" /\ (requestPowerOn \/ requestPowerOff)

\* In mqttLoop, on the loop task; TOGGLE goes by the state of the moment.
onMessage ==
    /\ pc = "pollOn"
    /\ \/ requestPowerOn \/ requestPowerOff
       \/ "toggle" \in Requests /\ request(state = "OFF", state # "OFF")

\* The scan task hears the bound controller.  It outranks the loop task on the
\* single core, so its two writes are one step for the loop.
onResult ==
    /\ pc # "setup"
    /\ bound
    /\ bleLastSeen' = time
    /\ bleSeenEver' = TRUE
    /\ UNCHANGED <<clockVars, pc, powerVars, requestVars, buttonVars, boardVars, bound>>

\* A pass may be kept waiting: mqttLoop connects to the broker from the same
\* task.
Tick ==
    /\ time < MaxTime
    /\ time - now < IF pc \in {"setup", "pollOn"} THEN MaxIdle ELSE MaxPass
    /\ time' = time + 1
    /\ UNCHANGED <<pc, now, powerVars, requestVars, buttonVars, boardVars, bleVars>>

OtherTasks == handlePower \/ onMessage \/ onResult

Next == normalBegin \/ normalLoop \/ OtherTasks \/ SpontaneousReset \/ Tick

Spec == Init /\ [][Next]_vars

\* The scheduler runs the loop task forever and time goes on.
Fairness == WF_vars(normalBegin \/ normalLoop) /\ WF_vars(Tick)

-----------------------------------------------------------------------------
(* Properties.                                                              *)

\* Every variable holds a value of its type.
TypeOK ==
    /\ time \in Nat /\ now \in Nat /\ pc \in Steps
    /\ state \in PowerStates /\ psu \in BOOLEAN
    /\ bootStart \in Nat /\ bleInhibitUntil \in Nat
    /\ reqPowerOn \in BOOLEAN /\ reqPowerOff \in BOOLEAN
    /\ button \in Debouncer /\ pressStart \in Nat
    /\ pressStartedOff \in BOOLEAN /\ longPressFired \in BOOLEAN /\ factoryFired \in BOOLEAN
    /\ senseLevel \in BOOLEAN /\ board \in Debouncer
    /\ bleSeenEver \in BOOLEAN /\ bleLastSeen \in Nat /\ bound \in BOOLEAN

\* PS_ON# is asserted exactly while the state is BOOTING or ON, through every
\* trigger and across resets (power.h: what each PowerState says of the PSU).
PsuFollowsState == psu <=> state # "OFF"

\* ON is never held without the debounced board sense, so the falling edge
\* that ON waits for to follow the board down cannot have been spent earlier.
OnHasBoardSense == state = "ON" => board.stable

\* No pass leaves the machine BOOTING once the watchdog's time is up.
BootIsWatched ==
    pc = "pollOn" /\ state = "BOOTING" => Elapsed(now, bootStart) < BOOT_TIMEOUT_MS

\* The timestamps that are compared with the pass's clock never lie ahead of
\* it, so no unsigned difference of the watchdog underflows.
BootNotAhead ==
    /\ now <= time
    /\ state = "BOOTING" => bootStart <= now

\* The inductive invariant of the proofs.
PowerInv ==
    /\ TypeOK
    /\ BootNotAhead
    /\ PsuFollowsState
    /\ OnHasBoardSense
    /\ BootIsWatched

\* The watchdog never gives up on a boot before its real time has passed,
\* whatever part of a pass the clock ticks in (the single-clock rule).
WatchdogNotEarly ==
    [][pc = "board" /\ pc' = "pollOn" /\ state = "BOOTING" /\ state' = "OFF"
         => now - bootStart >= BOOT_TIMEOUT_MS]_vars

=============================================================================
