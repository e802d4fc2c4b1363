---------------------------- MODULE HistoryProofs ----------------------------
(***************************************************************************)
(* Theorems about what a step of the state machine owes to its past, for   *)
(* every value of the timing constants and every environment.              *)
(***************************************************************************)
EXTENDS PowerHistory, PowerProofs

\* The history does not constrain: what PowerControl guarantees still holds.
LEMMA HistoryPowerInv == HSpec => []PowerInv
<1>1. HInit => Init
  BY DEF HInit
<1>2. [HNext]_hvars => [Next]_vars
  BY DEF HNext, hvars
<1>3. QED
  BY <1>1, <1>2, PowerInvariant, PTL DEF HSpec, Spec

\* A reset is a step to "setup".
LEMMA RebootIsRestart ==
    ASSUME PowerInv, Next, Rebooted
    PROVE  Restart
  BY DEF Rebooted, Next, normalBegin, normalLoop, pollOn, pollOff, readInputs,
         factoryHold, forceOff, noHold, bleWake, debounceBoard, SpontaneousReset,
         OtherTasks, handlePower, onMessage, requestPowerOn, requestPowerOff, request, onResult, Tick

-----------------------------------------------------------------------------
(* The board is followed down only after a full window of silence.          *)

LEMMA SenseInit ==
    ASSUME HInit
    PROVE  SenseInv
  BY TimingAssumption DEF HInit, Init, SenseInv, Released

LEMMA SenseReboot ==
    ASSUME Restart, HReboot
    PROVE  SenseInv'
  BY TimingAssumption DEF Restart, HReboot, SenseInv, Released

\* The first reading after a reset.
LEMMA SenseNormalBegin ==
    ASSUME PowerInv, SenseInv, normalBegin, HStep
    PROVE  SenseInv'
<1>1. /\ now' = now
      /\ pc = "setup" /\ pc' = "pollOn"
      /\ board' = [board EXCEPT !.stable = senseLevel', !.lastRaw = senseLevel']
  BY DEF normalBegin, seed, clockVars
<1>2. board'.lastChange = board.lastChange /\ board'.lastRaw = senseLevel'
  BY <1>1 DEF PowerInv, TypeOK, Debouncer
<1>3. lastHigh' = IF senseLevel' THEN now ELSE lastHigh
  BY <1>1 DEF HStep, Sampled
<1>4. now \in Nat /\ board.lastChange \in Nat
  BY DEF PowerInv, TypeOK, Debouncer
<1>5. CASE senseLevel'
  BY <1>1, <1>2, <1>3, <1>4, <1>5 DEF SenseInv
<1>6. CASE ~senseLevel'
  <2>1. ~board.lastRaw => lastHigh <= board.lastChange
    BY <1>1 DEF SenseInv
  <2>2. QED
    BY <1>1, <1>2, <1>3, <1>4, <1>6, <2>1 DEF SenseInv
<1>7. QED
  BY <1>5, <1>6

LEMMA SenseReadInputs ==
    ASSUME PowerInv, SenseInv, readInputs, HStep
    PROVE  SenseInv'
<1>1. now' = now /\ pc = "inputs" /\ pc' = "holds" /\ board' = board
  BY DEF readInputs, clockVars
<1>2. lastHigh' = IF senseLevel' THEN now ELSE lastHigh
  BY <1>1 DEF HStep, Sampled
<1>3. QED
  BY <1>1, <1>2 DEF SenseInv, PowerInv, TypeOK

\* The pass records its reading of TPMS1.
LEMMA SenseDebounceBoard ==
    ASSUME PowerInv, SenseInv, debounceBoard, HStep
    PROVE  SenseInv'
<1>1. /\ now' = now /\ pc = "board" /\ pc' = "pollOn" /\ lastHigh' = lastHigh
      /\ board'.lastRaw = senseLevel
      /\ board'.lastChange = IF senseLevel # board.lastRaw THEN now ELSE board.lastChange
  BY DEF debounceBoard, Debounce, clockVars, HStep, Sampled
<1>2. now \in Nat /\ board.lastChange \in Nat /\ senseLevel \in BOOLEAN
      /\ board.lastRaw \in BOOLEAN
  BY DEF PowerInv, TypeOK, Debouncer
<1>3. QED
  BY <1>1, <1>2 DEF SenseInv

\* The steps that leave the board and its reading alone.
LEMMA SenseOther ==
    ASSUME PowerInv, SenseInv, HStep,
           pollOn \/ pollOff \/ forceOff \/ noHold \/ bleWake \/ OtherTasks \/ Tick
    PROVE  SenseInv'
<1>1. UNCHANGED <<senseLevel, board>>
  BY DEF pollOn, pollOff, forceOff, noHold, bleWake, OtherTasks, handlePower, onMessage,
         requestPowerOn, requestPowerOff, request, onResult, Tick, boardVars
<1>2. /\ now' >= now /\ now' \in Nat
      /\ pc' = "setup" => pc = "setup"
      /\ pc' \in {"holds", "ble", "board"} => pc \in {"holds", "ble", "board"}
      /\ pc \in {"holds", "ble", "board"} => pc' \in {"holds", "ble", "board"}
  BY DEF pollOn, pollOff, forceOff, noHold, bleWake, OtherTasks, handlePower, onMessage,
         requestPowerOn, requestPowerOff, request, onResult, Tick, clockVars, PowerInv, TypeOK, BootNotAhead
<1>3. lastHigh' = lastHigh
  BY DEF HStep, Sampled, pollOn, pollOff, forceOff, noHold, bleWake, OtherTasks,
         handlePower, onMessage, requestPowerOn, requestPowerOff, request, onResult, Tick
<1>4. now \in Nat /\ board.lastChange \in Nat
  BY DEF PowerInv, TypeOK, Debouncer
<1>5. QED
  BY <1>1, <1>2, <1>3, <1>4 DEF SenseInv

LEMMA SenseStep ==
    ASSUME PowerInv, SenseInv, [HNext]_hvars
    PROVE  SenseInv'
<1>1. CASE HNext /\ Rebooted
  BY <1>1, RebootIsRestart, SenseReboot DEF HNext
<1>2. CASE HNext /\ ~Rebooted
  <2>1. Next /\ HStep
    BY <1>2 DEF HNext
  <2>2. ~factoryHold /\ ~SpontaneousReset
    BY <1>2 DEF Rebooted, factoryHold, SpontaneousReset, Restart
  <2>3. QED
    BY <2>1, <2>2, SenseNormalBegin, SenseReadInputs, SenseDebounceBoard, SenseOther
       DEF Next, normalLoop
<1>3. CASE UNCHANGED hvars
  BY <1>3 DEF hvars, histVars, vars, clockVars, boardVars, SenseInv
<1>4. QED
  BY <1>1, <1>2, <1>3

LEMMA SenseInvariant == HSpec => []SenseInv
<1>1. HInit => SenseInv
  BY SenseInit
<1>2. PowerInv /\ SenseInv /\ [HNext]_hvars => SenseInv'
  BY SenseStep
<1>3. QED
  BY <1>1, <1>2, HistoryPowerInv, PTL DEF HSpec

\* A fall that the off-debounce lets through began after the last high reading.
LEMMA FallIsSustained ==
    ASSUME PowerInv, SenseInv, debounceBoard, state = "ON", Fell(board, board')
    PROVE  now - lastHigh >= BOARD_OFF_DEBOUNCE_MS
<1>1. board' = Debounce(board, senseLevel, now, BOARD_OFF_DEBOUNCE_MS)
  BY DEF debounceBoard, boardWindow
<1> DEFINE since == IF senseLevel # board.lastRaw THEN now ELSE board.lastChange
<1>2. ~senseLevel /\ Elapsed(now, since) >= BOARD_OFF_DEBOUNCE_MS
  BY <1>1 DEF Fell, Debounce
<1>3. now \in Nat /\ board.lastChange \in Nat /\ board.lastRaw \in BOOLEAN /\ senseLevel \in BOOLEAN
  BY DEF PowerInv, TypeOK, Debouncer
<1>4. pc = "board"
  BY DEF debounceBoard
<1>5. since \in Nat /\ since <= now /\ lastHigh <= since /\ lastHigh \in Int
  <2>1. CASE board.lastRaw
    <3>1. since = now
      BY <1>2, <1>3, <2>1
    <3>2. QED
      BY <1>3, <3>1 DEF SenseInv
  <2>2. CASE ~board.lastRaw
    <3>1. since = board.lastChange
      BY <1>2, <1>3, <2>2
    <3>2. QED
      BY <1>2, <1>3, <1>4, <2>2, <3>1 DEF SenseInv
  <2>3. QED
    BY <2>1, <2>2, <1>3
<1>6. Elapsed(now, since) <= now - since /\ Elapsed(now, since) \in Nat
  BY <1>3, <1>5, ElapsedAtMost, ElapsedNat
<1>7. QED
  BY <1>2, <1>3, <1>5, <1>6, TimingAssumption

\* The machine follows the board down only when no pass of the whole
\* off-debounce window has read TPMS1 high, whatever the readings did before
\* and however late the passes come.
THEOREM HistoryShutdownIsSustained == HSpec => ShutdownIsSustained
<1> DEFINE Follow == pc = "board" /\ pc' = "pollOn" /\ state = "ON" /\ state' = "OFF"
<1>1. ASSUME PowerInv, SenseInv, Next, Follow
      PROVE  now - lastHigh >= BOARD_OFF_DEBOUNCE_MS
  <2>1. debounceBoard
    BY <1>1
       DEF Next, normalBegin, normalLoop, pollOn, pollOff, readInputs, factoryHold,
           forceOff, noHold, bleWake, Restart, SpontaneousReset, adopt, OtherTasks,
           handlePower, onMessage, requestPowerOn, requestPowerOff, request,
           onResult, Tick
  <2>2. Fell(board, board')
    BY <1>1, <2>1 DEF debounceBoard, followBoard, gaveOut, powerVars
  <2>3. QED
    BY <1>1, <2>1, <2>2, FallIsSustained
<1>2. ASSUME PowerInv, SenseInv, [HNext]_hvars, Follow
      PROVE  now - lastHigh >= BOARD_OFF_DEBOUNCE_MS
  BY <1>1, <1>2 DEF HNext, hvars, vars, powerVars
<1>3. PowerInv /\ SenseInv /\ [HNext]_hvars
        => [Follow => now - lastHigh >= BOARD_OFF_DEBOUNCE_MS]_hvars
  BY <1>2
<1>4. QED
  BY <1>3, HistoryPowerInv, SenseInvariant, PTL DEF HSpec, ShutdownIsSustained

-----------------------------------------------------------------------------
(* A press acts at most once.                                               *)

\* The two acting steps of a press: its release taps the machine on ...
LEMMA PressRelease ==
    ASSUME PowerInv, PressInv, readInputs, HStep, ~Rose(button, button')
    PROVE  PressInv'
<1>1. pc' = "holds"
  BY DEF readInputs
<1>2. pc = "inputs" /\ UNCHANGED pressVars
  BY DEF readInputs, pressReleased
<1>3. CASE state' = state
  <2>1. pressActs' = pressActs
    BY <1>2, <1>3 DEF HStep
  <2>2. ~button.stable => ~button'.stable
    BY DEF Rose
  <2>3. QED
    BY <1>1, <1>2, <2>1, <2>2 DEF PressInv, pressVars
<1>4. CASE state' # state
  <2>1. Fell(button, button') /\ isTap
    BY <1>4 DEF readInputs, pressReleased, powerVars
  <2>2. pressActs = 0
    BY <2>1 DEF PressInv, Fell, isTap
  <2>3. pressActs' = 1
    BY <1>2, <1>4, <2>2 DEF HStep
  <2>4. pressStartedOff' /\ ~button'.stable
    BY <1>2, <2>1 DEF isTap, Fell, pressVars
  <2>5. QED
    BY <1>1, <2>3, <2>4 DEF PressInv
<1>5. QED
  BY <1>3, <1>4

\* ... and its hold forces the machine off.
LEMMA PressForceOff ==
    ASSUME PressInv, forceOff, HStep
    PROVE  PressInv'
<1>1. /\ forceOffReached /\ pc' = "ble"
      /\ longPressFired' /\ UNCHANGED <<button, pressStartedOff>>
  BY DEF forceOff
<1>2. pressActs = 0
  BY <1>1 DEF PressInv, forceOffReached
<1>3. pressActs' \in {0, 1}
  BY <1>2 DEF HStep, forceOff
<1>4. QED
  BY <1>1, <1>3 DEF PressInv, forceOffReached

\* No other step changes a press or counts for it.
LEMMA PressOther ==
    ASSUME PressInv, HStep,
           pollOn \/ pollOff \/ noHold \/ bleWake \/ debounceBoard \/ OtherTasks \/ Tick
    PROVE  PressInv'
<1>1. UNCHANGED <<button, pressStartedOff, longPressFired>>
  BY DEF pollOn, pollOff, noHold, bleWake, debounceBoard, OtherTasks,
         handlePower, onMessage, requestPowerOn, requestPowerOff, request, onResult, Tick, buttonVars, pressVars
<1>2. ~Rose(button, button')
  BY <1>1 DEF Rose
<1>3. pc \in {"inputs", "holds"} => state' = state
  BY DEF pollOn, pollOff, noHold, bleWake, debounceBoard, OtherTasks,
         handlePower, onMessage, requestPowerOn, requestPowerOff, request, onResult, Tick, powerVars
<1>4. pressActs' = pressActs
  BY <1>2, <1>3 DEF HStep
<1>5. pc' = "setup" => pc = "setup"
  BY DEF pollOn, pollOff, noHold, bleWake, debounceBoard, OtherTasks,
         handlePower, onMessage, requestPowerOn, requestPowerOff, request, onResult, Tick
<1>6. QED
  BY <1>1, <1>4, <1>5 DEF PressInv

LEMMA PressStep ==
    ASSUME PowerInv, PressInv, [HNext]_hvars
    PROVE  PressInv'
<1>1. CASE HNext /\ Rebooted
  BY <1>1 DEF HNext, HReboot, PressInv
<1>2. CASE HNext /\ ~Rebooted
  <2>1. Next /\ HStep
    BY <1>2 DEF HNext
  <2>2. ~factoryHold /\ ~SpontaneousReset
    BY <1>2 DEF Rebooted, factoryHold, SpontaneousReset, Restart
  <2>3. CASE normalBegin
    <3>1. pressActs = 0 /\ pressActs' = pressActs
      BY <2>1, <2>3 DEF normalBegin, HStep, PressInv
    <3>2. QED
      BY <3>1 DEF PressInv
  <2>4. CASE readInputs
    <3>1. CASE Rose(button, button')
      BY <2>1, <2>4, <3>1 DEF readInputs, HStep, PressInv
    <3>2. QED
      BY <2>1, <2>4, <3>1, PressRelease
  <2>5. CASE forceOff
    BY <2>1, <2>5, PressForceOff
  <2>6. QED
    BY <2>1, <2>2, <2>3, <2>4, <2>5, PressOther DEF Next, normalLoop
<1>3. CASE UNCHANGED hvars
  BY <1>3 DEF hvars, histVars, vars, buttonVars, pressVars, PressInv
<1>4. QED
  BY <1>1, <1>2, <1>3

\* One press has one effect at most, however long it lasts and whatever other
\* triggers do to the machine in the meantime.
THEOREM HistoryOneEffectPerPress == HSpec => []OneEffectPerPress
<1>1. HInit => PressInv
  BY DEF HInit, PressInv
<1>2. PowerInv /\ PressInv /\ [HNext]_hvars => PressInv'
  BY PressStep
<1>3. PressInv => OneEffectPerPress
  BY DEF PressInv, OneEffectPerPress
<1>4. QED
  BY <1>1, <1>2, <1>3, HistoryPowerInv, PTL DEF HSpec

-----------------------------------------------------------------------------
(* Only a press that began in this boot powers on.                          *)

\* What the debouncer lets through as released was read released.
LEMMA OriginReadInputs ==
    ASSUME PowerInv, OriginInv, readInputs, HStep
    PROVE  OriginInv'
<1>1. /\ pc = "inputs" /\ pc' = "holds"
      /\ \E pressed \in ButtonLevels : button' = Debounce(button, pressed, now, DEBOUNCE_MS)
      /\ \/ Rose(button, button') /\ pressBegan
         \/ ~Rose(button, button') /\ UNCHANGED pressVars
  BY DEF readInputs, pressReleased, Rose, Fell
<1>2. /\ sawRelease' = (sawRelease \/ ~button'.lastRaw)
      /\ pressOrigin' = IF ~Rose(button, button') THEN pressOrigin
                        ELSE IF sawRelease THEN state ELSE "heldSinceReset"
  BY <1>1 DEF HStep, Sampled
<1>3. ~button'.stable => ~button.stable \/ ~button'.lastRaw
  BY <1>1 DEF Debounce
<1>4. ~button'.stable => sawRelease'
  BY <1>1, <1>2, <1>3 DEF OriginInv
<1>5. pressStartedOff' => pressOrigin' = "OFF"
  <2>1. CASE Rose(button, button') /\ pressBegan
    <3>1. sawRelease
      BY <1>1, <2>1 DEF OriginInv, Rose
    <3>2. QED
      BY <1>2, <2>1, <3>1 DEF pressBegan
  <2>2. CASE ~Rose(button, button') /\ UNCHANGED pressVars
    BY <1>2, <2>2 DEF OriginInv, pressVars
  <2>3. QED
    BY <1>1, <2>1, <2>2
<1>6. QED
  BY <1>1, <1>4, <1>5 DEF OriginInv

\* A boot takes the level it reads for what it is.
LEMMA OriginNormalBegin ==
    ASSUME PowerInv, OriginInv, normalBegin, HStep
    PROVE  OriginInv'
<1>1. /\ pc = "setup" /\ pc' = "pollOn" /\ UNCHANGED pressVars
      /\ \E pressed \in ButtonLevels :
            button' = [button EXCEPT !.stable = pressed, !.lastRaw = pressed]
  BY DEF normalBegin, seed
<1>2. button \in Debouncer
  BY DEF PowerInv, TypeOK
<1>3. button'.stable = button'.lastRaw
  BY <1>1, <1>2 DEF Debouncer
<1>4. sawRelease' = (sawRelease \/ ~button'.lastRaw)
  BY <1>1 DEF HStep, Sampled
<1>5. QED
  BY <1>1, <1>3, <1>4 DEF OriginInv, pressVars

LEMMA OriginOther ==
    ASSUME OriginInv, HStep,
           pollOn \/ pollOff \/ forceOff \/ noHold \/ bleWake \/ debounceBoard \/ OtherTasks \/ Tick
    PROVE  OriginInv'
<1>1. /\ UNCHANGED <<button, pressStartedOff>>
      /\ pc' = "setup" <=> pc = "setup"
  BY DEF pollOn, pollOff, forceOff, noHold, bleWake, debounceBoard, OtherTasks, handlePower,
         onMessage, requestPowerOn, requestPowerOff, request, onResult, Tick, buttonVars, pressVars
<1>2. ~Rose(button, button')
  BY <1>1 DEF Rose
<1>3. pressOrigin' = pressOrigin /\ (sawRelease => sawRelease')
  BY <1>2 DEF HStep
<1>4. QED
  BY <1>1, <1>3 DEF OriginInv

LEMMA OriginStep ==
    ASSUME PowerInv, OriginInv, [HNext]_hvars
    PROVE  OriginInv'
<1>1. CASE HNext /\ Rebooted
  BY <1>1, RebootIsRestart DEF HNext, Restart, OriginInv
<1>2. CASE HNext /\ ~Rebooted
  <2>1. Next /\ HStep
    BY <1>2 DEF HNext
  <2>2. ~factoryHold /\ ~SpontaneousReset
    BY <1>2 DEF Rebooted, factoryHold, SpontaneousReset, Restart
  <2>3. QED
    BY <2>1, <2>2, OriginNormalBegin, OriginReadInputs, OriginOther DEF Next, normalLoop
<1>3. CASE UNCHANGED hvars
  BY <1>3 DEF hvars, histVars, vars, buttonVars, pressVars, OriginInv
<1>4. QED
  BY <1>1, <1>2, <1>3

\* Whatever the button does across resets, the power comes on by the release of
\* a press that began in this boot while the machine was off, and by no other.
THEOREM HistoryTapBeganInThisBoot == HSpec => TapBeganInThisBoot
<1> DEFINE TapsOn == pc = "inputs" /\ state' = "BOOTING" /\ state # "BOOTING"
<1>1. HInit => OriginInv
  BY DEF HInit, Init, OriginInv
<1>2. PowerInv /\ OriginInv /\ [HNext]_hvars => OriginInv'
  BY OriginStep
<1>3. ASSUME OriginInv, Next, TapsOn
      PROVE  pressOrigin = "OFF"
  <2>1. readInputs
    BY <1>3
       DEF Next, normalBegin, normalLoop, pollOn, pollOff, factoryHold, forceOff, noHold, bleWake,
           debounceBoard, SpontaneousReset, Restart, OtherTasks, handlePower, onMessage,
           requestPowerOn, requestPowerOff, request, onResult, Tick, powerVars
  <2>2. pressStartedOff
    BY <1>3, <2>1 DEF readInputs, pressBegan, pressReleased, isTap, powerVars
  <2>3. QED
    BY <1>3, <2>2 DEF OriginInv
<1>4. OriginInv /\ [HNext]_hvars => [TapsOn => pressOrigin = "OFF"]_hvars
  BY <1>3 DEF HNext, hvars
<1>5. QED
  BY <1>1, <1>2, <1>4, HistoryPowerInv, PTL DEF HSpec, TapBeganInThisBoot

-----------------------------------------------------------------------------
(* A TOGGLE inverts the state it was decided by.                            *)

\* The pass executes the "on" of a TOGGLE, or leaves the machine on for its "off".
LEMMA TogglePollOn ==
    ASSUME PowerInv, ToggleInv, pollOn, HStep
    PROVE  ToggleInv'
<1>1. /\ pc = "pollOn" /\ pc' = "pollOff" /\ reqPowerOff' = reqPowerOff
      /\ IF reqPowerOn /\ state = "OFF" THEN state' = "BOOTING" ELSE state' = state
  BY DEF pollOn, powerOn, powerVars
<1>2. toggled' = toggled
  BY <1>1 DEF HStep, MayToggle
<1>3. QED
  BY <1>1, <1>2 DEF ToggleInv

\* A request only adds to those that are pending.
LEMMA ToggleRequest ==
    ASSUME PowerInv, ToggleInv, handlePower \/ onMessage, HStep
    PROVE  ToggleInv'
<1>1. /\ UNCHANGED <<pc, state>>
      /\ reqPowerOn => reqPowerOn'
      /\ reqPowerOff => reqPowerOff'
  BY DEF handlePower, onMessage, requestPowerOn, requestPowerOff, request, powerVars
<1>2. toggled' = IF MayToggle THEN state ELSE toggled
  BY <1>1 DEF HStep
<1>3. CASE MayToggle
  BY <1>1, <1>2, <1>3 DEF MayToggle, ToggleInv
<1>4. CASE ~MayToggle
  BY <1>1, <1>2, <1>4 DEF ToggleInv
<1>5. QED
  BY <1>3, <1>4

\* No other step meets one: it comes after the requests of the pass, or it leaves
\* them and the state alone.
LEMMA ToggleOther ==
    ASSUME ToggleInv, HStep,
           \/ normalBegin \/ pollOff \/ readInputs \/ forceOff \/ noHold \/ bleWake
           \/ debounceBoard \/ onResult \/ Tick
    PROVE  ToggleInv'
<1>1. CASE pollOff
  BY <1>1 DEF pollOff, HStep, ToggleInv
<1>2. CASE normalBegin \/ readInputs \/ forceOff \/ noHold \/ bleWake \/ debounceBoard
  <2>1. pc \notin {"pollOn", "pollOff"}
    BY <1>2 DEF normalBegin, readInputs, forceOff, noHold, bleWake, debounceBoard
  <2>2. toggled' = toggled /\ toggled = "none"
    BY <2>1 DEF HStep, MayToggle, ToggleInv
  <2>3. QED
    BY <2>2 DEF ToggleInv
<1>3. CASE onResult \/ Tick
  <2>1. UNCHANGED <<pc, state, reqPowerOn, reqPowerOff, requestVars>>
    BY <1>3 DEF onResult, Tick, powerVars, requestVars
  <2>2. toggled' = toggled
    BY <2>1 DEF HStep, MayToggle
  <2>3. QED
    BY <2>1, <2>2 DEF ToggleInv
<1>4. QED
  BY <1>1, <1>2, <1>3

LEMMA ToggleStep ==
    ASSUME PowerInv, ToggleInv, [HNext]_hvars
    PROVE  ToggleInv'
<1>1. CASE HNext /\ Rebooted
  BY <1>1 DEF HNext, HReboot, ToggleInv
<1>2. CASE HNext /\ ~Rebooted
  <2>1. Next /\ HStep
    BY <1>2 DEF HNext
  <2>2. ~factoryHold /\ ~SpontaneousReset
    BY <1>2 DEF Rebooted, factoryHold, SpontaneousReset, Restart
  <2>3. QED
    BY <2>1, <2>2, TogglePollOn, ToggleRequest, ToggleOther DEF Next, normalLoop, OtherTasks
<1>3. CASE UNCHANGED hvars
  BY <1>3 DEF hvars, histVars, vars, powerVars, requestVars, ToggleInv
<1>4. QED
  BY <1>1, <1>2, <1>3

\* Whatever the other tasks request around it, a TOGGLE has inverted the state it
\* was decided by once its pass has polled the requests; a pending off goes first.
THEOREM HistoryToggleInverts == HSpec => ToggleInverts
<1> DEFINE Polled == pc = "pollOff" /\ pc' = "inputs" /\ toggled # "none"
           Inverted == state' = IF toggled = "OFF" /\ ~reqPowerOff THEN "BOOTING" ELSE "OFF"
<1>1. HInit => ToggleInv
  BY DEF HInit, ToggleInv
<1>2. PowerInv /\ ToggleInv /\ [HNext]_hvars => ToggleInv'
  BY ToggleStep
<1>3. ASSUME PowerInv, ToggleInv, Next, Polled
      PROVE  Inverted
  <2>1. pollOff
    BY <1>3
       DEF Next, normalBegin, normalLoop, pollOn, readInputs, factoryHold, forceOff, noHold,
           bleWake, debounceBoard, SpontaneousReset, Restart, OtherTasks, handlePower, onMessage,
           requestPowerOn, requestPowerOff, request, onResult, Tick
  <2>2. IF toggled = "OFF" THEN state = "BOOTING" ELSE state # "OFF" /\ reqPowerOff
    BY <1>3 DEF ToggleInv
  <2>3. IF offHonoured THEN state' = "OFF" ELSE state' = state
    BY <2>1 DEF pollOff, powerOff, powerVars
  <2>4. QED
    BY <2>2, <2>3 DEF offHonoured
<1>4. PowerInv /\ ToggleInv /\ [HNext]_hvars => [Polled => Inverted]_hvars
  BY <1>3 DEF HNext, hvars
<1>5. QED
  BY <1>1, <1>2, <1>4, HistoryPowerInv, PTL DEF HSpec, ToggleInverts

=============================================================================
