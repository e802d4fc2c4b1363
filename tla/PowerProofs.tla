----------------------------- MODULE PowerProofs -----------------------------
(***************************************************************************)
(* Theorems about PowerControl for every value of its timing constants and *)
(* every environment.                                                      *)
(***************************************************************************)
EXTENDS PowerControl, MillisProofs

-----------------------------------------------------------------------------
(* Debouncing.                                                              *)

\* The debouncer stays a debouncer, and what it lets through as a rise or a
\* fall is the level read.
LEMMA DebounceType ==
    ASSUME NEW d \in Debouncer, NEW raw \in BOOLEAN, NEW at \in Nat, NEW w \in Nat
    PROVE  Debounce(d, raw, at, w) \in Debouncer
  BY DEF Debounce, Debouncer

-----------------------------------------------------------------------------
(* The inductive invariant.                                                 *)

LEMMA PowerInit ==
    ASSUME Init
    PROVE  PowerInv
<1>1. button \in Debouncer /\ board \in Debouncer
  BY DEF Init, Released, Debouncer
<1>2. TypeOK
  BY <1>1, EnvironmentAssumption DEF Init, TypeOK, Steps, PowerStates
<1>3. BootNotAhead /\ BootIsWatched
  BY DEF Init, BootNotAhead, BootIsWatched
<1>4. PsuFollowsState /\ OnHasBoardSense
  BY DEF Init, PsuFollowsState, OnHasBoardSense
<1>5. QED
  BY <1>2, <1>3, <1>4 DEF PowerInv

\* A reset of any cause restores it.
LEMMA RestartInv ==
    ASSUME PowerInv, Restart, bound' \in BOOLEAN
    PROVE  PowerInv'
<1>1. button' \in Debouncer /\ board' \in Debouncer
  BY DEF Restart, Released, Debouncer
<1>2. TypeOK'
  BY <1>1 DEF Restart, TypeOK, Steps, PowerStates
<1>3. BootNotAhead' /\ BootIsWatched'
  BY DEF Restart, BootNotAhead, BootIsWatched
<1>4. PsuFollowsState' /\ OnHasBoardSense'
  BY DEF Restart, PsuFollowsState, OnHasBoardSense
<1>5. QED
  BY <1>2, <1>3, <1>4 DEF PowerInv

\* Cutting the power leaves the variables it writes in their types.
LEMMA PowerOffType ==
    ASSUME TypeOK, powerOff(now)
    PROVE  /\ state' \in PowerStates
           /\ psu' \in BOOLEAN
           /\ bootStart' \in Nat
           /\ bleInhibitUntil' \in Nat
<1>1. bleInhibitUntil' \in Nat
  BY TimingAssumption DEF powerOff, guardEnd, TypeOK
<1>2. state' \in PowerStates /\ psu' \in BOOLEAN /\ bootStart' \in Nat
  BY DEF powerOff, TypeOK, PowerStates
<1>3. QED
  BY <1>1, <1>2

LEMMA NormalBeginInv ==
    ASSUME PowerInv, normalBegin
    PROVE  PowerInv'
<1>1. PICK pressed \in BOOLEAN, mv \in Bands :
          /\ button' = seed(button, pressed)
          /\ senseLevel' = readBoardSense(mv)
          /\ board' = seed(board, senseLevel')
          /\ adopt(senseLevel')
  BY EnvironmentAssumption DEF normalBegin
<1>2. senseLevel' \in BOOLEAN
  BY <1>1 DEF readBoardSense, PowerInv, TypeOK
<1>3. button' \in Debouncer /\ board' \in Debouncer /\ board'.stable = senseLevel'
  BY <1>1, <1>2 DEF seed, Debouncer, PowerInv, TypeOK
<1>4. TypeOK'
  BY <1>1, <1>2, <1>3
     DEF normalBegin, adopt, PowerInv, TypeOK, Steps, PowerStates, clockVars,
         requestVars, pressVars, bleVars
<1>5. BootNotAhead' /\ BootIsWatched'
  BY <1>1 DEF normalBegin, adopt, PowerInv, BootNotAhead, BootIsWatched, clockVars
<1>6. PsuFollowsState' /\ OnHasBoardSense'
  BY <1>1, <1>3 DEF adopt, PsuFollowsState, OnHasBoardSense
<1>7. QED
  BY <1>4, <1>5, <1>6 DEF PowerInv

LEMMA PollOnInv ==
    ASSUME PowerInv, pollOn
    PROVE  PowerInv'
<1>1. TypeOK'
  BY DEF pollOn, powerOn, PowerInv, TypeOK, Steps, PowerStates, powerVars,
         buttonVars, pressVars, boardVars, bleVars
<1>2. BootNotAhead'
  BY DEF pollOn, powerOn, PowerInv, TypeOK, BootNotAhead, powerVars
<1>3. PsuFollowsState'
  BY DEF pollOn, powerOn, PowerInv, PsuFollowsState, powerVars
<1>4. OnHasBoardSense'
  BY DEF pollOn, powerOn, PowerInv, OnHasBoardSense, powerVars, boardVars
<1>5. BootIsWatched'
  BY DEF pollOn, BootIsWatched
<1>6. QED
  BY <1>1, <1>2, <1>3, <1>4, <1>5 DEF PowerInv

LEMMA PollOffInv ==
    ASSUME PowerInv, pollOff
    PROVE  PowerInv'
<1>1. TypeOK'
  <2>1. /\ state' \in PowerStates
        /\ psu' \in BOOLEAN
        /\ bootStart' \in Nat
        /\ bleInhibitUntil' \in Nat
    BY PowerOffType DEF pollOff, powerVars, PowerInv, TypeOK
  <2>2. QED
    BY <2>1 DEF pollOff, PowerInv, TypeOK, Steps, clockVars, buttonVars, pressVars,
                boardVars, bleVars
<1>2. BootNotAhead'
  BY DEF pollOff, powerOff, PowerInv, BootNotAhead, clockVars, powerVars
<1>3. PsuFollowsState'
  BY DEF pollOff, powerOff, PowerInv, PsuFollowsState, powerVars
<1>4. OnHasBoardSense'
  BY DEF pollOff, powerOff, PowerInv, OnHasBoardSense, powerVars, boardVars
<1>5. BootIsWatched'
  BY DEF pollOff, BootIsWatched
<1>6. QED
  BY <1>1, <1>2, <1>3, <1>4, <1>5 DEF PowerInv

LEMMA ReadInputsInv ==
    ASSUME PowerInv, readInputs
    PROVE  PowerInv'
<1>1. PICK pressed \in BOOLEAN, mv \in Bands :
          /\ button' = Debounce(button, pressed, now, DEBOUNCE_MS)
          /\ senseLevel' = readBoardSense(mv)
  BY EnvironmentAssumption DEF readInputs
<1>2. senseLevel' \in BOOLEAN
  BY <1>1 DEF readBoardSense, PowerInv, TypeOK
<1>3. button' \in Debouncer
  BY <1>1, DebounceType, TimingAssumption DEF PowerInv, TypeOK
<1>4. /\ pc' = "holds"
      /\ UNCHANGED <<time, now, reqPowerOn, reqPowerOff, board, bleSeenEver,
                     bleLastSeen, bound>>
  BY DEF readInputs, clockVars, requestVars, bleVars
\* Whatever the edge, the step leaves the power alone or begins a boot.
<1>5. powerOn(now) \/ UNCHANGED powerVars
  BY DEF readInputs, pressBegan, pressReleased
<1>6. /\ pressStart' \in Nat
      /\ pressStartedOff' \in BOOLEAN
      /\ longPressFired' \in BOOLEAN
      /\ factoryFired' \in BOOLEAN
  BY DEF readInputs, pressBegan, pressReleased, pressVars, PowerInv, TypeOK
<1>7. TypeOK'
  BY <1>2, <1>3, <1>4, <1>5, <1>6
     DEF powerOn, powerVars, PowerInv, TypeOK, Steps, PowerStates
<1>8. BootNotAhead' /\ BootIsWatched'
  BY <1>4, <1>5 DEF powerOn, powerVars, PowerInv, TypeOK, BootNotAhead, BootIsWatched
<1>9. PsuFollowsState'
  BY <1>5 DEF powerOn, powerVars, PowerInv, PsuFollowsState
<1>10. OnHasBoardSense'
  BY <1>4, <1>5 DEF powerOn, powerVars, PowerInv, OnHasBoardSense
<1>11. QED
  BY <1>7, <1>8, <1>9, <1>10 DEF PowerInv

LEMMA ForceOffInv ==
    ASSUME PowerInv, forceOff
    PROVE  PowerInv'
<1>1. TypeOK'
  BY PowerOffType
     DEF forceOff, PowerInv, TypeOK, Steps, clockVars, requestVars, boardVars, bleVars
<1>2. BootNotAhead' /\ BootIsWatched'
  BY DEF forceOff, powerOff, PowerInv, BootNotAhead, BootIsWatched, clockVars
<1>3. PsuFollowsState' /\ OnHasBoardSense'
  BY DEF forceOff, powerOff, PsuFollowsState, OnHasBoardSense
<1>4. QED
  BY <1>1, <1>2, <1>3 DEF PowerInv

LEMMA NoHoldInv ==
    ASSUME PowerInv, noHold
    PROVE  PowerInv'
<1>1. pc' = "ble"
  BY DEF noHold
<1>2. UNCHANGED <<time, now, state, psu, bootStart, bleInhibitUntil, reqPowerOn,
                  reqPowerOff, button, pressStart, pressStartedOff,
                  longPressFired, factoryFired, senseLevel, board, bleSeenEver,
                  bleLastSeen, bound>>
  BY DEF noHold, clockVars, powerVars, requestVars, buttonVars, pressVars,
         boardVars, bleVars
<1>3. TypeOK'
  BY <1>1, <1>2 DEF PowerInv, TypeOK, Steps
<1>4. BootNotAhead' /\ BootIsWatched'
  BY <1>1, <1>2 DEF PowerInv, BootNotAhead, BootIsWatched
<1>5. PsuFollowsState' /\ OnHasBoardSense'
  BY <1>2 DEF PowerInv, PsuFollowsState, OnHasBoardSense
<1>6. QED
  BY <1>3, <1>4, <1>5 DEF PowerInv

LEMMA BleWakeInv ==
    ASSUME PowerInv, bleWake
    PROVE  PowerInv'
<1>1. TypeOK'
  BY DEF bleWake, powerOn, PowerInv, TypeOK, Steps, PowerStates, clockVars,
         powerVars, requestVars, buttonVars, pressVars, boardVars, bleVars
<1>2. BootNotAhead' /\ BootIsWatched'
  BY DEF bleWake, powerOn, PowerInv, TypeOK, BootNotAhead, BootIsWatched,
         clockVars, powerVars
<1>3. PsuFollowsState'
  BY DEF bleWake, powerOn, PowerInv, PsuFollowsState, powerVars
<1>4. OnHasBoardSense'
  BY DEF bleWake, powerOn, PowerInv, OnHasBoardSense, powerVars, boardVars
<1>5. QED
  BY <1>1, <1>2, <1>3, <1>4 DEF PowerInv

\* The step that ends a pass: BOOTING outlives it only if the watchdog's time
\* is not up, and a board that is seen to drop takes ON with it.
LEMMA DebounceBoardInv ==
    ASSUME PowerInv, debounceBoard
    PROVE  PowerInv'
<1>1. board' \in Debouncer
  BY DebounceType, TimingAssumption
     DEF debounceBoard, boardWindow, PowerInv, TypeOK
<1>2. /\ pc' = "pollOn"
      /\ UNCHANGED <<time, now, reqPowerOn, reqPowerOff, button, pressStart,
                     pressStartedOff, longPressFired, factoryFired, senseLevel,
                     bleSeenEver, bleLastSeen, bound>>
      /\ followBoard(board'.stable, Fell(board, board'))
  BY DEF debounceBoard, clockVars, requestVars, buttonVars, pressVars, bleVars
<1>3. /\ bootStart' = bootStart
      /\ bleInhibitUntil' \in Nat
      /\ state' \in PowerStates
      /\ psu' \in BOOLEAN
  <2>1. CASE powerOff(now)
    BY <2>1, PowerOffType DEF powerOff, PowerInv
  <2>2. CASE ~powerOff(now)
    BY <1>2, <2>2 DEF followBoard, gaveOut, powerVars, PowerInv, TypeOK, PowerStates
  <2>3. QED
    BY <2>1, <2>2
<1>4. state' = "BOOTING" => state = "BOOTING" /\ ~bootTimedOut
  BY <1>2 DEF followBoard, gaveOut, powerOff, powerVars
<1>5. TypeOK'
  BY <1>1, <1>2, <1>3 DEF PowerInv, TypeOK, Steps
<1>6. BootNotAhead'
  BY <1>2, <1>3, <1>4 DEF PowerInv, BootNotAhead
<1>7. PsuFollowsState'
  BY <1>2 DEF followBoard, gaveOut, powerOff, powerVars, PowerInv, PsuFollowsState
<1>8. OnHasBoardSense'
  <2>1. CASE state = "ON"
    BY <1>1, <1>2, <2>1
       DEF followBoard, gaveOut, powerOff, powerVars, Fell, PowerInv, OnHasBoardSense,
           TypeOK, Debouncer
  <2>2. CASE state # "ON"
    BY <1>2, <2>2 DEF followBoard, gaveOut, powerOff, powerVars, OnHasBoardSense
  <2>3. QED
    BY <2>1, <2>2
<1>9. BootIsWatched'
  <2>1. state' = "BOOTING" => Elapsed(now, bootStart) < BOOT_TIMEOUT_MS
    BY <1>4, ElapsedNat, TimingAssumption DEF bootTimedOut, PowerInv, TypeOK
  <2>2. QED
    BY <1>2, <1>3, <2>1 DEF BootIsWatched, Elapsed
<1>10. QED
  BY <1>5, <1>6, <1>7, <1>8, <1>9 DEF PowerInv

\* The other tasks and the clock touch neither the machine nor the pass.
LEMMA OtherTasksInv ==
    ASSUME PowerInv, OtherTasks \/ Tick
    PROVE  PowerInv'
<1>1. UNCHANGED <<pc, now, state, psu, bootStart, bleInhibitUntil, button,
                  pressStart, pressStartedOff, longPressFired, factoryFired,
                  senseLevel, board, bound>>
  BY DEF OtherTasks, handlePower, onMessage, requestPowerOn, requestPowerOff,
         request, onResult, Tick, clockVars,
         powerVars, buttonVars, pressVars, boardVars, bleVars
<1>2. /\ reqPowerOn' \in BOOLEAN
      /\ reqPowerOff' \in BOOLEAN
      /\ bleSeenEver' \in BOOLEAN
      /\ bleLastSeen' \in Nat
  BY DEF OtherTasks, handlePower, onMessage, requestPowerOn, requestPowerOff,
         request, onResult, Tick,
         requestVars, bleVars, PowerInv, TypeOK
<1>3. time' \in Nat /\ time' >= time
  BY DEF OtherTasks, handlePower, onMessage, requestPowerOn, requestPowerOff,
         request, onResult, Tick, clockVars,
         PowerInv, TypeOK
<1>4. TypeOK'
  BY <1>1, <1>2, <1>3 DEF PowerInv, TypeOK
<1>5. BootNotAhead'
  BY <1>1, <1>3 DEF PowerInv, TypeOK, BootNotAhead
<1>6. PsuFollowsState' /\ OnHasBoardSense'
  BY <1>1 DEF PowerInv, PsuFollowsState, OnHasBoardSense
<1>7. BootIsWatched'
  BY <1>1 DEF PowerInv, BootIsWatched, Elapsed
<1>8. QED
  BY <1>4, <1>5, <1>6, <1>7 DEF PowerInv

LEMMA StutterInv ==
    ASSUME PowerInv, UNCHANGED vars
    PROVE  PowerInv'
<1>1. UNCHANGED <<time, now, pc, state, psu, bootStart, bleInhibitUntil,
                  reqPowerOn, reqPowerOff, button, pressStart, pressStartedOff,
                  longPressFired, factoryFired, senseLevel, board, bleSeenEver,
                  bleLastSeen, bound>>
  BY DEF vars, clockVars, powerVars, requestVars, buttonVars, pressVars,
         boardVars, bleVars
<1>2. TypeOK'
  BY <1>1 DEF PowerInv, TypeOK
<1>3. BootNotAhead' /\ BootIsWatched'
  BY <1>1 DEF PowerInv, BootNotAhead, BootIsWatched, Elapsed
<1>4. PsuFollowsState' /\ OnHasBoardSense'
  BY <1>1 DEF PowerInv, PsuFollowsState, OnHasBoardSense
<1>5. QED
  BY <1>2, <1>3, <1>4 DEF PowerInv

\* Every step preserves it.
LEMMA PowerStep ==
    ASSUME PowerInv, [Next]_vars
    PROVE  PowerInv'
<1>1. CASE normalBegin
  BY <1>1, NormalBeginInv
<1>2. CASE normalLoop
  <2>1. CASE pollOn \/ pollOff
    BY <2>1, PollOnInv, PollOffInv
  <2>2. CASE readInputs
    BY <2>2, ReadInputsInv
  <2>3. CASE factoryHold
    BY <2>3, RestartInv DEF factoryHold
  <2>4. CASE forceOff \/ noHold
    BY <2>4, ForceOffInv, NoHoldInv
  <2>5. CASE bleWake \/ debounceBoard
    BY <2>5, BleWakeInv, DebounceBoardInv
  <2>6. QED
    BY <1>2, <2>1, <2>2, <2>3, <2>4, <2>5 DEF normalLoop
<1>3. CASE SpontaneousReset
  BY <1>3, RestartInv DEF SpontaneousReset, PowerInv, TypeOK
<1>4. CASE OtherTasks \/ Tick
  BY <1>4, OtherTasksInv
<1>5. CASE UNCHANGED vars
  BY <1>5, StutterInv
<1>6. QED
  BY <1>1, <1>2, <1>3, <1>4, <1>5 DEF Next

-----------------------------------------------------------------------------
(* Theorems.                                                                *)

\* The inductive invariant holds throughout.
THEOREM PowerInvariant == Spec => []PowerInv
<1>1. Init => PowerInv
  BY PowerInit
<1>2. PowerInv /\ [Next]_vars => PowerInv'
  BY PowerStep
<1>3. QED
  BY <1>1, <1>2, PTL DEF Spec

\* Every variable of the state machine keeps its type, for every trigger and
\* every value of the timing constants.
THEOREM PowerTypeOK == Spec => []TypeOK
<1>1. PowerInv => TypeOK
  BY DEF PowerInv
<1>2. QED
  BY <1>1, PowerInvariant, PTL

\* PS_ON# is asserted exactly while the state machine says BOOTING or ON.
THEOREM PowerPsuFollowsState == Spec => []PsuFollowsState
<1>1. PowerInv => PsuFollowsState
  BY DEF PowerInv
<1>2. QED
  BY <1>1, PowerInvariant, PTL

\* ON always has the debounced board sense whose fall will end it.
THEOREM PowerOnHasBoardSense == Spec => []OnHasBoardSense
<1>1. PowerInv => OnHasBoardSense
  BY DEF PowerInv
<1>2. QED
  BY <1>1, PowerInvariant, PTL

\* No pass ends in a boot whose watchdog has run out.
THEOREM PowerBootIsWatched == Spec => []BootIsWatched
<1>1. PowerInv => BootIsWatched
  BY DEF PowerInv
<1>2. QED
  BY <1>1, PowerInvariant, PTL

\* The watchdog waits its full time whatever a lap of the counter or a tick in
\* the middle of a pass does to the difference it looks at: a timeout of the
\* step implies that at least that much time has gone by.
THEOREM PowerWatchdogNotEarly == Spec => WatchdogNotEarly
<1> DEFINE Early == pc = "board" /\ pc' = "pollOn" /\ state = "BOOTING" /\ state' = "OFF"
<1>1. ASSUME PowerInv, Next, Early
      PROVE  now - bootStart >= BOOT_TIMEOUT_MS
  <2>1. debounceBoard
    BY <1>1
       DEF Next, normalBegin, normalLoop, pollOn, pollOff, readInputs, factoryHold,
           forceOff, noHold, bleWake, Restart, SpontaneousReset, adopt, OtherTasks,
           handlePower, onMessage, requestPowerOn, requestPowerOff, request,
           onResult, Tick
  <2>2. bootTimedOut
    BY <1>1, <2>1 DEF debounceBoard, followBoard, gaveOut, powerVars
  <2>3. QED
    BY <1>1, <2>2, ElapsedAtMost, ElapsedNat, TimingAssumption
       DEF bootTimedOut, PowerInv, TypeOK, BootNotAhead
<1>2. ASSUME PowerInv, [Next]_vars, Early
      PROVE  now - bootStart >= BOOT_TIMEOUT_MS
  BY <1>1, <1>2 DEF vars, powerVars
<1>3. PowerInv /\ [Next]_vars => [Early => now - bootStart >= BOOT_TIMEOUT_MS]_vars
  BY <1>2
<1>4. QED
  BY <1>3, PowerInvariant, PTL DEF Spec, WatchdogNotEarly

=============================================================================
