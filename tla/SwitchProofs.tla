---------------------------- MODULE SwitchProofs ----------------------------
(***************************************************************************)
(* The firmware implements the power switch of PowerSwitch: for every value *)
(* of the timing constants and every environment, on the first lap of the  *)
(* millisecond counter.                                                    *)
(***************************************************************************)
EXTENDS HistoryProofs

\* The bounds of the theorem: the counter has not come round yet, and the guard
\* window fits the signed comparison that tests it.
FirstLap == MaxTime < WRAP /\ BLE_WAKE_COOLDOWN_MS < WRAP \div 2

\* On the first lap a guard window is over for the firmware only when it is.
LEMMA NotAhead ==
    ASSUME FirstLap, NEW t \in Int, NEW at \in Nat,
           t - at <= BLE_WAKE_COOLDOWN_MS, ~Ahead(t, at)
    PROVE  t <= at
<1>1. WRAP \in Nat /\ WRAP > 0 /\ BLE_WAKE_COOLDOWN_MS \in Nat
  BY WrapAssumption, TimingAssumption
<1>2. WRAP \div 2 <= WRAP
  BY <1>1
<1>3. SUFFICES ASSUME t > at PROVE FALSE
  OBVIOUS
<1>4. 0 < t - at /\ t - at < WRAP \div 2
  BY <1>1, <1>3 DEF FirstLap
<1>5. (t - at) % WRAP = t - at
  BY <1>1, <1>2, <1>4
<1>6. QED
  BY <1>4, <1>5 DEF Ahead

-----------------------------------------------------------------------------
(* SwitchInv is an invariant.                                               *)

LEMMA SwitchInvInit ==
    ASSUME HInit
    PROVE  SwitchInv
  BY TimingAssumption, EnvironmentAssumption DEF HInit, Init, SwitchInv, Released, LongAgo

LEMMA SwitchInvReboot ==
    ASSUME Restart, HReboot
    PROVE  SwitchInv'
  BY TimingAssumption, EnvironmentAssumption DEF Restart, HReboot, SwitchInv, Released, LongAgo

\* Every step leaves the time within its bound and the pass's clock behind it.
LEMMA SwitchClock ==
    ASSUME PowerInv, SwitchInv, Next, ~Restart
    PROVE  /\ time' <= MaxTime
           /\ now' \in Nat /\ now <= now'
           /\ now' # now => pc = "pollOn" /\ pc' = "pollOff" /\ now' = time
           /\ pc' # "setup" \/ (pc = "setup" /\ now' = now /\ state' = state)
  BY EnvironmentAssumption
     DEF Next, normalBegin, normalLoop, pollOn, pollOff, readInputs, factoryHold, forceOff,
         noHold, bleWake, debounceBoard, SpontaneousReset, OtherTasks, handlePower, onMessage,
         requestPowerOn, requestPowerOff, request, onResult, Tick, clockVars, powerVars,
         PowerInv, TypeOK, BootNotAhead, SwitchInv

\* A power-off, and nothing else, moves the guard window.
LEMMA SwitchGuard ==
    ASSUME PowerInv, SwitchInv, Next, HStep, ~Restart
    PROVE  /\ offAt' \in Int /\ offAt' <= now'
           /\ bleInhibitUntil' = offAt' + BLE_WAKE_COOLDOWN_MS
<1>1. now \in Nat /\ now' \in Nat /\ now <= now' /\ offAt \in Int /\ offAt <= now
      /\ BLE_WAKE_COOLDOWN_MS \in Nat
  BY SwitchClock, TimingAssumption DEF PowerInv, TypeOK, SwitchInv
<1>2. CASE WentOff
  <2>1. bleInhibitUntil' = guardEnd(now)
    BY <1>2
       DEF WentOff, Next, normalBegin, normalLoop, pollOn, pollOff, readInputs, factoryHold,
           forceOff, noHold, bleWake, debounceBoard, followBoard, SpontaneousReset, OtherTasks,
           handlePower, onMessage, requestPowerOn, requestPowerOff, request, onResult, Tick,
           powerVars, powerOn, powerOff, pressBegan, pressReleased, adopt, SwitchInv
  <2>2. QED
    BY <1>1, <1>2, <2>1 DEF HStep, guardEnd
<1>3. CASE ~WentOff
  <2>1. bleInhibitUntil' = bleInhibitUntil
    BY <1>3
       DEF WentOff, Next, normalBegin, normalLoop, pollOn, pollOff, readInputs, factoryHold,
           forceOff, noHold, bleWake, debounceBoard, followBoard, gaveOut, offHonoured,
           forceOffReached, SpontaneousReset, OtherTasks,
           handlePower, onMessage, requestPowerOn, requestPowerOff, request, onResult, Tick,
           powerVars, powerOn, powerOff, pressBegan, pressReleased
  <2>2. QED
    BY <1>1, <1>3, <2>1 DEF HStep, SwitchInv
<1>4. QED
  BY <1>2, <1>3

\* No press is ahead of the pass and none survives the factory reset it caused.
LEMMA SwitchPress ==
    ASSUME PowerInv, SwitchInv, Next, ~Restart
    PROVE  pressStart' <= now' /\ ~factoryFired'
<1>1. \/ pressStart' = pressStart /\ factoryFired' = factoryFired
      \/ pressStart' = now /\ ~factoryFired'
  BY DEF Next, normalBegin, normalLoop, pollOn, pollOff, readInputs, factoryHold, forceOff,
         noHold, bleWake, debounceBoard, SpontaneousReset, OtherTasks, handlePower, onMessage,
         requestPowerOn, requestPowerOff, request, onResult, Tick, pressBegan, pressReleased,
         buttonVars, pressVars
<1>2. QED
  BY <1>1, SwitchClock DEF SwitchInv, PowerInv, TypeOK

\* A level taken for high was read high.
LEMMA SwitchHigh ==
    ASSUME PowerInv, SwitchInv, Next, HStep, ~Restart
    PROVE  /\ lastHigh' \in Int
           /\ board'.stable \/ board'.lastRaw \/ (pc' # "setup" /\ senseLevel') => lastHigh' >= 0
<1>1. now \in Nat /\ lastHigh \in Int /\ board.stable \in BOOLEAN /\ board.lastRaw \in BOOLEAN
      /\ senseLevel \in BOOLEAN /\ board \in Debouncer
  BY DEF PowerInv, TypeOK, SwitchInv, Debouncer
<1>2. CASE normalBegin
  <2>1. board'.stable = senseLevel' /\ board'.lastRaw = senseLevel'
    BY <1>1, <1>2 DEF normalBegin, seed, Debouncer
  <2>2. lastHigh' = IF senseLevel' THEN now ELSE lastHigh
    BY <1>2 DEF normalBegin, HStep, Sampled
  <2>3. QED
    BY <1>1, <2>1, <2>2
<1>3. CASE readInputs
  <2>1. board' = board /\ lastHigh' = (IF senseLevel' THEN now ELSE lastHigh)
    BY <1>3 DEF readInputs, HStep, Sampled
  <2>2. QED
    BY <1>1, <2>1 DEF SwitchInv
<1>4. CASE debounceBoard
  <2>1. /\ board'.lastRaw = senseLevel /\ board'.stable \in {board.stable, senseLevel}
        /\ senseLevel' = senseLevel /\ lastHigh' = lastHigh /\ pc # "setup"
    BY <1>4 DEF debounceBoard, Debounce, HStep, Sampled
  <2>2. QED
    BY <1>1, <2>1 DEF SwitchInv
<1>5. CASE ~normalBegin /\ ~readInputs /\ ~debounceBoard
  <2>1. /\ board' = board /\ senseLevel' = senseLevel /\ lastHigh' = lastHigh
        /\ pc = "setup" => pc' = "setup"
    BY <1>5
       DEF Next, normalLoop, pollOn, pollOff, factoryHold, forceOff, noHold, bleWake,
           SpontaneousReset, OtherTasks, handlePower, onMessage, requestPowerOn,
           requestPowerOff, request, onResult, Tick, boardVars, HStep, Sampled
  <2>2. QED
    BY <1>1, <2>1 DEF SwitchInv
<1>6. QED
  BY <1>2, <1>3, <1>4, <1>5

LEMMA SwitchInvStep ==
    ASSUME PowerInv, SwitchInv, [HNext]_hvars
    PROVE  SwitchInv'
<1>1. CASE HNext /\ Rebooted
  BY <1>1, RebootIsRestart, SwitchInvReboot DEF HNext
<1>2. CASE HNext /\ ~Rebooted
  <2>1. Next /\ HStep
    BY <1>2 DEF HNext
  <2>2. CASE Restart
    <3>1. pc = "setup"
      BY <1>2, <2>2 DEF Rebooted, Restart
    <3>2. FALSE
      BY <2>1, <2>2, <3>1
         DEF Restart, Next, normalBegin, normalLoop, pollOn, pollOff, readInputs, factoryHold,
             forceOff, noHold, bleWake, debounceBoard, SpontaneousReset, OtherTasks, handlePower,
             onMessage, onResult, Tick, PowerInv, TypeOK
    <3>3. QED
      BY <3>2
  <2>3. CASE ~Restart
    <3>1. pc' = "setup" => state' = "OFF" /\ now' = 0
      BY <2>1, <2>3, SwitchClock DEF SwitchInv
    <3>2. QED
      BY <2>1, <2>3, <3>1, SwitchClock, SwitchGuard, SwitchPress, SwitchHigh DEF SwitchInv
  <2>4. QED
    BY <2>2, <2>3
<1>3. CASE UNCHANGED hvars
  BY <1>3 DEF hvars, histVars, vars, clockVars, powerVars, requestVars, buttonVars, pressVars,
              boardVars, SwitchInv
<1>4. QED
  BY <1>1, <1>2, <1>3

LEMMA SwitchInvariant == HSpec => []SwitchInv
<1>1. HInit => SwitchInv
  BY SwitchInvInit
<1>2. PowerInv /\ SwitchInv /\ [HNext]_hvars => SwitchInv'
  BY SwitchInvStep
<1>3. QED
  BY <1>1, <1>2, HistoryPowerInv, PTL DEF HSpec

-----------------------------------------------------------------------------
(* Each step of the firmware is a step of the switch, or none.              *)

LEMMA SwitchInit ==
    ASSUME HInit
    PROVE  Switch!Init
  BY TimingAssumption DEF HInit, Init, Switch!Init, LongAgo, Released

LEMMA RebootIsReset ==
    ASSUME Restart, HReboot
    PROVE  Switch!Reset
  BY TimingAssumption DEF Restart, HReboot, Switch!Reset, LongAgo, Released

LEMMA NormalBeginIsBegin ==
    ASSUME PowerInv, SwitchInv, normalBegin, HStep
    PROVE  Switch!Begin
<1>1. /\ pc = "setup" /\ pc' = "pollOn" /\ state = "OFF"
      /\ now' = now /\ bootStart' = bootStart
      /\ UNCHANGED <<reqPowerOn, reqPowerOff, pressStart, pressStartedOff, bleSeenEver, bleLastSeen>>
      /\ state' = (IF senseLevel' THEN "ON" ELSE "OFF") /\ psu' = senseLevel'
  BY DEF normalBegin, adopt, clockVars, requestVars, pressVars, bleVars, SwitchInv
<1>2. lastHigh' = (IF senseLevel' THEN now ELSE lastHigh) /\ offAt' = offAt
  BY <1>1 DEF HStep, Sampled, WentOff
<1>3. psu = FALSE
  BY <1>1 DEF PowerInv, PsuFollowsState, TypeOK
<1>4. senseLevel' \in BOOLEAN
  BY EnvironmentAssumption DEF normalBegin, readBoardSense, Bands, PowerInv, TypeOK
<1>5. CASE senseLevel' = TRUE
  BY <1>1, <1>2, <1>5 DEF Switch!Begin, Switch!orderVars
<1>6. CASE senseLevel' = FALSE
  BY <1>1, <1>2, <1>3, <1>6 DEF Switch!Begin, Switch!orderVars
<1>7. QED
  BY <1>4, <1>5, <1>6

LEMMA PollOnIsTakeOnOrder ==
    ASSUME PowerInv, SwitchInv, pollOn, HStep
    PROVE  Switch!TakeOnOrder
<1>1. /\ pc = "pollOn" /\ pc' = "pollOff" /\ now' = time /\ reqPowerOn' = FALSE
      /\ UNCHANGED <<reqPowerOff, button, pressStart, pressStartedOff, bleSeenEver, bleLastSeen>>
      /\ \/ reqPowerOn /\ state = "OFF" /\ powerOn(now')
         \/ ~(reqPowerOn /\ state = "OFF") /\ UNCHANGED powerVars
  BY DEF pollOn, buttonVars, pressVars, bleVars
<1>2. lastHigh' = lastHigh /\ offAt' = offAt
  BY <1>1 DEF HStep, Sampled, WentOff, powerOn, powerVars
<1>3. now' >= now
  BY <1>1 DEF PowerInv, BootNotAhead, TypeOK
<1>4. QED
  BY <1>1, <1>2, <1>3
     DEF Switch!TakeOnOrder, Switch!TurnOn, Switch!Keep, Switch!powerVars, Switch!pressVars,
         powerOn, powerVars

LEMMA PollOffIsTakeOffOrder ==
    ASSUME PowerInv, SwitchInv, pollOff, HStep
    PROVE  Switch!TakeOffOrder
<1>1. /\ pc = "pollOff" /\ pc' = "inputs" /\ now' = now /\ reqPowerOff' = FALSE
      /\ UNCHANGED <<reqPowerOn, button, pressStart, pressStartedOff, bleSeenEver, bleLastSeen>>
      /\ \/ offHonoured /\ powerOff(now)
         \/ ~offHonoured /\ UNCHANGED powerVars
  BY DEF pollOff, clockVars, buttonVars, pressVars, bleVars
<1>2. lastHigh' = lastHigh /\ offAt' = IF offHonoured THEN now ELSE offAt
  BY <1>1 DEF HStep, Sampled, WentOff, powerOff, powerVars, offHonoured
<1>3. QED
  BY <1>1, <1>2
     DEF Switch!TakeOffOrder, Switch!TurnOff, Switch!Keep, Switch!powerVars, Switch!pressVars,
         powerOff, powerVars, offHonoured

LEMMA ReadInputsIsLookAtInputs ==
    ASSUME FirstLap, PowerInv, SwitchInv, readInputs, HStep
    PROVE  Switch!LookAtInputs
<1>1. /\ pc = "inputs" /\ pc' = "holds" /\ now' = now
      /\ UNCHANGED <<reqPowerOn, reqPowerOff, bleSeenEver, bleLastSeen>>
      /\ \/ Rose(button, button') /\ pressBegan
         \/ Fell(button, button') /\ pressReleased
         \/ button'.stable = button.stable /\ UNCHANGED <<pressVars, powerVars>>
  BY DEF readInputs, clockVars, requestVars, bleVars
<1>2. lastHigh' \in {lastHigh, now}
  BY <1>1 DEF HStep, Sampled
<1>3. Elapsed(now, pressStart) = now - pressStart
  BY ElapsedIs, WrapAssumption, EnvironmentAssumption
     DEF FirstLap, PowerInv, TypeOK, BootNotAhead, SwitchInv
<1>4. offAt' = offAt
  BY <1>1 DEF HStep, WentOff, pressBegan, pressReleased, powerOn, powerVars
<1>5. CASE Rose(button, button') /\ pressBegan
  BY <1>1, <1>2, <1>4, <1>5
     DEF Switch!LookAtInputs, Switch!Keep, Switch!powerVars, Switch!orderVars, Rose, pressBegan,
         powerVars
<1>6. CASE Fell(button, button') /\ pressReleased
  <2>1. isTap <=> Switch!Tap
    BY <1>3, <1>6 DEF isTap, Switch!Tap, Fell, SwitchInv
  <2>2. QED
    BY <1>1, <1>2, <1>4, <1>6, <2>1
       DEF Switch!LookAtInputs, Switch!TurnOn, Switch!Keep, Switch!powerVars, Switch!orderVars,
           Fell, pressReleased, isTap, pressVars, powerVars, powerOn
<1>7. CASE button'.stable = button.stable /\ UNCHANGED <<pressVars, powerVars>>
  <2>1. ~Switch!Tap
    BY <1>7 DEF Switch!Tap
  <2>2. QED
    BY <1>1, <1>2, <1>4, <1>7, <2>1
       DEF Switch!LookAtInputs, Switch!Keep, Switch!powerVars, Switch!orderVars, pressVars,
           powerVars
<1>8. QED
  BY <1>1, <1>5, <1>6, <1>7

LEMMA ForceOffIsFollow ==
    ASSUME FirstLap, PowerInv, SwitchInv, forceOff, HStep
    PROVE  Switch!Follow
<1>1. /\ pc = "holds" /\ pc' = "ble" /\ now' = now /\ forceOffReached /\ powerOff(now)
      /\ UNCHANGED <<reqPowerOn, reqPowerOff, button, pressStart, pressStartedOff, bleSeenEver,
                     bleLastSeen>>
  BY DEF forceOff, clockVars, requestVars, bleVars
<1>2. lastHigh' = lastHigh /\ offAt' = now
  BY <1>1 DEF HStep, Sampled, WentOff, forceOffReached, powerOff
<1>3. Elapsed(now, pressStart) = now - pressStart
  BY ElapsedIs, WrapAssumption, EnvironmentAssumption
     DEF FirstLap, PowerInv, TypeOK, BootNotAhead, SwitchInv
<1>4. Switch!HeldDown
  BY <1>1, <1>3 DEF Switch!HeldDown, forceOffReached
<1>5. QED
  BY <1>1, <1>2, <1>4
     DEF Switch!Follow, Switch!HeldDown, Switch!TurnOff, Switch!orderVars, Switch!pressVars, powerOff

LEMMA BleWakeIsFollow ==
    ASSUME FirstLap, PowerInv, SwitchInv, bleWake, HStep, bleWakes
    PROVE  Switch!Follow
<1>1. /\ pc = "ble" /\ pc' = "board" /\ now' = now /\ powerOn(now) /\ state = "OFF"
      /\ UNCHANGED <<reqPowerOn, reqPowerOff, button, pressStart, pressStartedOff, bleSeenEver,
                     bleLastSeen>>
  BY DEF bleWake, bleWakes, clockVars, requestVars, buttonVars, pressVars, bleVars
<1>2. lastHigh' = lastHigh /\ offAt' = offAt
  BY <1>1 DEF HStep, Sampled, WentOff, powerOn
<1>3. now \in Nat /\ now < WRAP /\ bleLastSeen \in Nat /\ offAt \in Int /\ offAt <= now
      /\ BLE_PRESENCE_TIMEOUT_MS \in Nat /\ BLE_WAKE_COOLDOWN_MS \in Nat
  BY TimingAssumption, EnvironmentAssumption, WrapAssumption
     DEF FirstLap, PowerInv, TypeOK, BootNotAhead, SwitchInv
<1>4. now - bleLastSeen < BLE_PRESENCE_TIMEOUT_MS
  <2>1. Elapsed(now, bleLastSeen) < BLE_PRESENCE_TIMEOUT_MS
    BY DEF bleWakes, blePresent
  <2>2. CASE bleLastSeen <= now
    BY <1>3, <2>1, <2>2, ElapsedIs
  <2>3. CASE bleLastSeen > now
    BY <1>3, <2>1, <2>3, ElapsedNat
  <2>4. QED
    BY <1>3, <2>2, <2>3
<1>5. now - offAt >= BLE_WAKE_COOLDOWN_MS
  <2>1. bleInhibitUntil <= now
    BY <1>3, NotAhead DEF bleWakes, bleInhibited, SwitchInv
  <2>2. QED
    BY <1>3, <2>1 DEF SwitchInv
<1>6. Switch!ControllerPresent
  BY <1>1, <1>4, <1>5 DEF Switch!ControllerPresent, bleWakes, blePresent
<1>7. QED
  BY <1>1, <1>2, <1>6
     DEF Switch!Follow, Switch!TurnOn, Switch!orderVars, Switch!pressVars, powerOn

LEMMA DebounceBoardIsFollow ==
    ASSUME FirstLap, PowerInv, SenseInv, SwitchInv, debounceBoard, HStep
    PROVE  Switch!Follow \/ UNCHANGED Switch!vars
<1>1. /\ pc = "board" /\ pc' = "pollOn" /\ now' = now
      /\ UNCHANGED <<reqPowerOn, reqPowerOff, button, pressStart, pressStartedOff, bleSeenEver,
                     bleLastSeen>>
      /\ followBoard(board'.stable, Fell(board, board'))
  BY DEF debounceBoard, clockVars, requestVars, buttonVars, pressVars, bleVars
<1>2. lastHigh' = lastHigh
  BY <1>1 DEF HStep, Sampled
<1>3. CASE state = "BOOTING" /\ board'.stable /\ state' = "ON"
           /\ UNCHANGED <<psu, bootStart, bleInhibitUntil>>
  <2>1. offAt' = offAt
    BY <1>3 DEF HStep, WentOff
  <2>2. lastHigh >= 0
    BY <1>2, <1>3 DEF debounceBoard, Debounce, SwitchInv
  <2>3. QED
    BY <1>1, <1>2, <1>3, <2>1, <2>2 DEF Switch!Follow, Switch!orderVars, Switch!pressVars
<1>4. CASE gaveOut(board'.stable, Fell(board, board')) /\ powerOff(now)
  <2>1. state # "OFF" /\ offAt' = now
    BY <1>4 DEF HStep, WentOff, gaveOut, powerOff
  <2>2. Switch!BootFailed \/ Switch!BoardDown
    <3>1. CASE state = "BOOTING" /\ bootTimedOut
      <4>1. Elapsed(now, bootStart) = now - bootStart
        BY <3>1, ElapsedIs, WrapAssumption, EnvironmentAssumption
           DEF FirstLap, PowerInv, TypeOK, BootNotAhead, SwitchInv
      <4>2. QED
        BY <3>1, <4>1 DEF bootTimedOut, Switch!BootFailed
    <3>2. CASE state = "ON" /\ Fell(board, board')
      BY <3>2, FallIsSustained DEF Switch!BoardDown
    <3>3. QED
      BY <1>4, <3>1, <3>2 DEF gaveOut
  <2>3. QED
    BY <1>1, <1>2, <1>4, <2>1, <2>2
       DEF Switch!Follow, Switch!TurnOff, Switch!orderVars, Switch!pressVars, powerOff
<1>5. CASE UNCHANGED powerVars
  BY <1>1, <1>2, <1>5
     DEF Switch!vars, Switch!powerVars, Switch!orderVars, Switch!pressVars, powerVars, HStep,
         WentOff
<1>6. QED
  BY <1>1, <1>3, <1>4, <1>5 DEF followBoard

\* A pass that finds nothing to do, and the passing of time, are no steps.
LEMMA QuietStep ==
    ASSUME PowerInv, SwitchInv, HStep, noHold \/ (bleWake /\ ~bleWakes) \/ Tick
    PROVE  UNCHANGED Switch!vars
  BY DEF noHold, bleWake, Tick, clockVars, requestVars, buttonVars, pressVars, bleVars,
         powerVars, HStep, Sampled, WentOff,
         Switch!vars, Switch!powerVars, Switch!orderVars, Switch!pressVars

LEMMA RequestIsOrder ==
    ASSUME PowerInv, HStep, handlePower \/ onMessage
    PROVE  Switch!Order
<1>1. /\ pc # "setup" /\ pc' = pc /\ now' = now
      /\ UNCHANGED <<state, psu, bootStart, bleInhibitUntil, button, pressStart,
                     pressStartedOff, senseLevel, bleSeenEver, bleLastSeen>>
      /\ reqPowerOn => reqPowerOn'
      /\ reqPowerOff => reqPowerOff'
  BY DEF handlePower, onMessage, requestPowerOn, requestPowerOff, request, clockVars,
         powerVars, buttonVars, pressVars, boardVars, bleVars
<1>2. lastHigh' = lastHigh /\ offAt' = offAt
  BY <1>1 DEF HStep, Sampled, WentOff
<1>3. QED
  BY <1>1, <1>2
     DEF Switch!Order, Switch!powerVars, Switch!pressVars

LEMMA SightingIsHear ==
    ASSUME PowerInv, HStep, onResult
    PROVE  Switch!Hear
<1>1. /\ pc # "setup" /\ pc' = pc /\ now' = now /\ bleSeenEver' = TRUE /\ bleLastSeen' = time
      /\ UNCHANGED <<state, psu, bootStart, reqPowerOn, reqPowerOff, button, pressStart,
                     pressStartedOff>>
  BY DEF onResult, clockVars, powerVars, requestVars, buttonVars, pressVars
<1>2. lastHigh' = lastHigh /\ offAt' = offAt
  BY <1>1 DEF HStep, Sampled, WentOff
<1>3. time >= now
  BY DEF PowerInv, BootNotAhead, TypeOK
<1>4. QED
  BY <1>1, <1>2, <1>3
     DEF Switch!Hear, Switch!powerVars, Switch!orderVars, Switch!pressVars

LEMMA SwitchStep ==
    ASSUME FirstLap, PowerInv, SenseInv, SwitchInv, [HNext]_hvars
    PROVE  [Switch!Next]_(Switch!vars)
<1>1. CASE HNext /\ Rebooted
  BY <1>1, RebootIsRestart, RebootIsReset DEF HNext, Switch!Next
<1>2. CASE HNext /\ ~Rebooted
  <2>1. Next /\ HStep
    BY <1>2 DEF HNext
  <2>2. ~factoryHold /\ ~SpontaneousReset
    BY <1>2 DEF Rebooted, factoryHold, SpontaneousReset, Restart
  <2>3. CASE normalLoop
    BY <2>1, <2>2, <2>3, PollOnIsTakeOnOrder, PollOffIsTakeOffOrder, ReadInputsIsLookAtInputs,
       ForceOffIsFollow, BleWakeIsFollow, DebounceBoardIsFollow, QuietStep
       DEF normalLoop, Switch!Next
  <2>4. CASE OtherTasks
    BY <2>1, <2>4, RequestIsOrder, SightingIsHear DEF OtherTasks, Switch!Next
  <2>5. QED
    BY <2>1, <2>2, <2>3, <2>4, NormalBeginIsBegin, QuietStep DEF Next, Switch!Next
<1>3. CASE UNCHANGED hvars
  BY <1>3
     DEF hvars, histVars, vars, clockVars, powerVars, requestVars, buttonVars, pressVars,
         boardVars, bleVars,
         Switch!vars, Switch!powerVars, Switch!orderVars, Switch!pressVars
<1>4. QED
  BY <1>1, <1>2, <1>3

\* Every change of power the firmware makes, by whichever of the triggers and in
\* whatever order they come, has a cause that holds in real time.
THEOREM HistoryImplementsSwitch ==
    ASSUME FirstLap
    PROVE  HSpec => ImplementsPowerSwitch
<1>1. HInit => Switch!Init
  BY SwitchInit
<1>2. PowerInv /\ SenseInv /\ SwitchInv /\ [HNext]_hvars => [Switch!Next]_(Switch!vars)
  BY SwitchStep
<1>3. QED
  BY <1>1, <1>2, HistoryPowerInv, SenseInvariant, SwitchInvariant, PTL
     DEF HSpec, ImplementsPowerSwitch, Switch!Spec

-----------------------------------------------------------------------------
(* No controller is missed.                                                 *)

\* The guard window is never cleared, so this holds on the first half of a lap of
\* the counter only: later its end seems to lie ahead again.
FirstHalfLap == MaxTime <= WRAP \div 2

\* A controller heard within the presence window wakes the machine once the guard
\* window is over, through every order of sightings, requests and presses, until
\* millis() has run half its lap (24.8 days of uptime).
THEOREM HistoryWakeNotMissed ==
    ASSUME FirstHalfLap
    PROVE  HSpec => WakeNotMissed
<1> DEFINE Passed == pc = "ble" /\ pc' = "board" /\ state = "OFF" /\ Present /\ ~Guarded
<1>1. ASSUME PowerInv, SwitchInv, Next, Passed
      PROVE  state' = "BOOTING"
  <2>1. bleWake
    BY <1>1
       DEF Next, normalBegin, normalLoop, pollOn, pollOff, readInputs, factoryHold, forceOff,
           noHold, debounceBoard, SpontaneousReset, Restart, OtherTasks, handlePower, onMessage,
           requestPowerOn, requestPowerOff, request, onResult, Tick
  <2>2. /\ now \in Nat /\ now <= WRAP \div 2 /\ WRAP \div 2 < WRAP /\ bleLastSeen \in Nat
        /\ WRAP \in Nat /\ bleInhibitUntil \in Nat /\ offAt \in Int
        /\ BLE_PRESENCE_TIMEOUT_MS \in Nat /\ BLE_WAKE_COOLDOWN_MS \in Nat
    BY <1>1, TimingAssumption, EnvironmentAssumption, WrapAssumption
       DEF FirstHalfLap, PowerInv, TypeOK, BootNotAhead, SwitchInv
  <2>3. blePresent
    <3>1. bleSeenEver /\ bleLastSeen <= now /\ now - bleLastSeen < BLE_PRESENCE_TIMEOUT_MS
      BY <1>1, <2>2 DEF Present
    <3>2. Elapsed(now, bleLastSeen) = now - bleLastSeen
      BY <2>2, <3>1, ElapsedIs
    <3>3. QED
      BY <3>1, <3>2 DEF blePresent
  <2>4. ~bleInhibited
    <3>1. bleInhibitUntil <= now
      BY <1>1, <2>2 DEF Guarded, SwitchInv
    <3>2. QED
      BY <2>2, <3>1, BehindIsNotAhead DEF bleInhibited
  <2>5. QED
    BY <1>1, <2>1, <2>3, <2>4 DEF bleWake, bleWakes, powerOn
<1>2. PowerInv /\ SwitchInv /\ [HNext]_hvars => [Passed => state' = "BOOTING"]_hvars
  BY <1>1 DEF HNext, hvars
<1>3. QED
  BY <1>2, HistoryPowerInv, SwitchInvariant, PTL DEF HSpec, WakeNotMissed

=============================================================================
