----------------------------- MODULE WifiProofs -----------------------------
(***************************************************************************)
(* Theorems about the WiFi lifecycle for every modulus of the counter,     *)
(* every set of delays the backoff fits, and any router, saves and failed  *)
(* SoftAP starts.                                                          *)
(***************************************************************************)
EXTENDS Wifi, MillisProofs

\* A timestamp of 0 is stored as 0.
LEMMA ZeroIsZero == IsZero(0)
  BY WrapAssumption DEF IsZero

\* The fallback clock is never set ahead of the pass, and while the link is down
\* it is no earlier than the link was last seen up.
LEMMA DownSinceSound ==
    ASSUME WifiInv
    PROVE  /\ downSince(time) \in Nat /\ downSince(time) <= time
           /\ ~connected /\ ~IsZero(downSince(time)) => lastUp <= downSince(time)
<1>1. /\ time \in Nat /\ g_downSince \in Nat /\ lastUp \in Nat
      /\ g_downSince <= time /\ lastUp <= time
  BY DEF WifiInv, TypeOK
<1>2. ~g_wasConnected /\ ~IsZero(g_downSince) => lastUp <= g_downSince
  BY DEF WifiInv
<1>3. downSince(time) \in {0, time, g_downSince}
  BY DEF downSince
<1>4. ASSUME ~connected, ~IsZero(downSince(time))
      PROVE  lastUp <= downSince(time)
  <2>1. CASE downSince(time) = time
    BY <1>1, <2>1
  <2>2. CASE downSince(time) # time
    <3>1. ~linkWentDown /\ downSince(time) = g_downSince
      BY <1>4, <2>2 DEF downSince, linkCameUp, linkWentDown
    <3>2. QED
      BY <1>2, <1>4, <3>1 DEF linkWentDown
  <2>3. QED
    BY <2>1, <2>2
<1>5. QED
  BY <1>1, <1>3, <1>4

\* The setup network is wanted beside credentials only once the link has been
\* down for the fallback time, on a clock that does not come round.
LEMMA WantedApIsDue ==
    ASSUME WifiInv, ~connected, wantAp(time), wifiSsid # ""
    PROVE  time - lastUp >= WIFI_FALLBACK_AFTER_MS
<1>1. ~IsZero(downSince(time)) /\ Elapsed(time, downSince(time)) >= WIFI_FALLBACK_AFTER_MS
  BY DEF wantAp
<1>2. /\ downSince(time) \in Nat /\ downSince(time) <= time
      /\ lastUp <= downSince(time)
  BY <1>1, DownSinceSound
<1>3. time \in Nat /\ lastUp \in Nat /\ WIFI_FALLBACK_AFTER_MS \in Nat
  BY WifiAssumption DEF WifiInv, TypeOK
<1>4. QED
  BY <1>1, <1>2, <1>3, ElapsedIsOver

\* The flag follows the radio, whether or not softAP() succeeds.
LEMMA StartFallbackAp ==
    ASSUME TypeOK, NoForgottenAp, startFallbackAp
    PROVE  /\ apRadio' \in BOOLEAN /\ g_apUp' \in BOOLEAN
           /\ apFailures' \in 0 .. MaxApFailures
           /\ apRadio' => g_apUp'
<1>1. apFailures' \in 0 .. MaxApFailures
  BY WifiAssumption DEF TypeOK, startFallbackAp
<1>2. (apRadio' /\ g_apUp') \/ UNCHANGED <<apRadio, g_apUp>>
  BY DEF startFallbackAp
<1>3. apRadio' \in BOOLEAN /\ g_apUp' \in BOOLEAN
  BY DEF TypeOK, startFallbackAp
<1>4. QED
  BY <1>1, <1>2, <1>3 DEF NoForgottenAp

LEMMA FallbackAp ==
    ASSUME TypeOK, NoForgottenAp, NEW at, fallbackAp(at)
    PROVE  /\ apRadio' \in BOOLEAN /\ g_apUp' \in BOOLEAN
           /\ apFailures' \in 0 .. MaxApFailures
           /\ apRadio' => g_apUp'
           /\ ~g_apUp /\ g_apUp' => ~connected /\ wantAp(at)
<1>1. CASE connected /\ (g_apUp \/ wantAp(at)) /\ stopFallbackAp
  BY <1>1 DEF stopFallbackAp, TypeOK
<1>2. CASE ~connected /\ wantAp(at) /\ ~g_apUp /\ startFallbackAp
  BY <1>2, StartFallbackAp
<1>3. CASE UNCHANGED <<apRadio, g_apUp, apFailures>>
  BY <1>3 DEF TypeOK, NoForgottenAp
<1>4. QED
  BY <1>1, <1>2, <1>3 DEF fallbackAp

\* A step that only moves the driver, the web task or the time.
LEMMA OtherStep ==
    ASSUME WifiInv, TypeOK', UNCHANGED <<pc, now, loopVars, lastUp, apRadio>>,
           time <= time'
    PROVE  WifiInv'
  BY DEF WifiInv, TypeOK, NoForgottenAp, IsZero, loopVars

-----------------------------------------------------------------------------
(* The inductive invariant, one lemma for each step.                        *)

LEMMA WifiInit ==
    ASSUME Init
    PROVE  WifiInv
<1>1. /\ time = 1 /\ now = 0 /\ lastUp = 1 /\ pc = "setup"
      /\ g_downSince = 0 /\ g_lastAttempt = 0 /\ g_retryInterval = RECONNECT_BASE_MS
      /\ saves = 0 /\ apFailures = 0
  BY DEF Init
<1>2. wifiSsid \in Credentials /\ joining \in Credentials
  BY WifiAssumption DEF Init, Credentials
<1>3. {saving, g_wifiApplyPending, g_apUp, g_wasConnected, dnsUp, apRadio, connected, routerUp}
        \subseteq BOOLEAN
  BY DEF Init
<1>4. g_retryInterval \in Nat /\ saves \in 0 .. MaxSaves /\ apFailures \in 0 .. MaxApFailures
  BY <1>1, WifiAssumption
<1>5. TypeOK
  BY <1>1, <1>2, <1>3, <1>4 DEF TypeOK
<1>6. IsZero(g_downSince)
  BY <1>1, ZeroIsZero
<1>7. NoForgottenAp
  BY DEF Init, NoForgottenAp
<1>8. QED
  BY <1>1, <1>5, <1>6, <1>7 DEF WifiInv

LEMMA WifiBeginInv ==
    ASSUME WifiInv, wifiBegin
    PROVE  WifiInv'
<1>1. /\ pc = "setup" /\ pc' = "wifi" /\ now' = 0 /\ time' = time /\ lastUp' = time
      /\ UNCHANGED <<webVars, g_wasConnected, g_lastAttempt, g_retryInterval,
                     dnsUp, connected, routerUp>>
  BY DEF wifiBegin, WifiInv
<1>2. /\ joining' \in {joining, wifiSsid}
      /\ g_downSince' = time \/ (wifiSsid = "" /\ g_downSince' = g_downSince)
  BY DEF wifiBegin
<1>3. /\ apRadio' \in BOOLEAN /\ g_apUp' \in BOOLEAN /\ apFailures' \in 0 .. MaxApFailures
      /\ apRadio' => g_apUp'
  <2>1. CASE startFallbackAp
    BY <2>1, StartFallbackAp DEF WifiInv
  <2>2. CASE UNCHANGED <<g_apUp, apRadio, apFailures>>
    BY <2>2 DEF WifiInv, TypeOK, NoForgottenAp
  <2>3. QED
    BY <2>1, <2>2 DEF wifiBegin
<1>4. TypeOK'
  BY <1>1, <1>2, <1>3 DEF WifiInv, TypeOK, webVars
<1>5. g_downSince' = time \/ IsZero(g_downSince')
  BY <1>1, <1>2, ZeroIsZero DEF WifiInv
<1>6. g_downSince' <= time' /\ lastUp' <= time'
  <2>1. time \in Nat /\ g_downSince \in Nat /\ g_downSince <= time
    BY DEF WifiInv, TypeOK
  <2>2. time' = time /\ lastUp' = time /\ (g_downSince' = time \/ g_downSince' = g_downSince)
    BY <1>1, <1>2
  <2>3. QED
    BY <2>1, <2>2
<1>7. (~g_wasConnected /\ ~IsZero(g_downSince) => lastUp <= g_downSince)'
  BY <1>1, <1>4, <1>5 DEF IsZero, TypeOK
<1>8. QED
  BY <1>1, <1>3, <1>4, <1>6, <1>7 DEF WifiInv, NoForgottenAp

LEMMA WifiLoopInv ==
    ASSUME WifiInv, wifiLoop
    PROVE  WifiInv'
<1>1. /\ pc' = "web" /\ now' = time /\ time' = time
      /\ g_wasConnected' = connected /\ g_downSince' = downSince(time)
      /\ lastUp' = IF connected THEN time ELSE lastUp
      /\ UNCHANGED <<webVars, dnsUp, connected, routerUp>>
  BY DEF wifiLoop
<1>2. /\ joining' \in {joining, wifiSsid}
      /\ g_lastAttempt' \in {g_lastAttempt, time}
      /\ g_retryInterval' \in {backoff(g_retryInterval), RECONNECT_BASE_MS, g_retryInterval}
  BY DEF wifiLoop, reconnect
<1>3. g_retryInterval' \in Nat
  BY <1>2, WifiAssumption DEF WifiInv, TypeOK, backoff
<1>4. /\ apRadio' \in BOOLEAN /\ g_apUp' \in BOOLEAN /\ apFailures' \in 0 .. MaxApFailures
      /\ apRadio' => g_apUp'
  BY <1>1, FallbackAp DEF wifiLoop, WifiInv
<1>5. /\ g_downSince' \in Nat /\ g_downSince' <= time
      /\ ~g_wasConnected' /\ ~IsZero(g_downSince') => lastUp' <= g_downSince'
  BY <1>1, DownSinceSound
<1>6. TypeOK'
  BY <1>1, <1>2, <1>3, <1>4, <1>5 DEF WifiInv, TypeOK, webVars
<1>7. (~g_wasConnected /\ ~IsZero(g_downSince) => lastUp <= g_downSince)'
  BY <1>5 DEF IsZero
<1>8. QED
  BY <1>1, <1>4, <1>5, <1>6, <1>7 DEF WifiInv, TypeOK, NoForgottenAp

LEMMA WebLoopInv ==
    ASSUME WifiInv, webLoop
    PROVE  WifiInv'
<1>1. TypeOK'
  BY DEF webLoop, captiveDns, WifiInv, TypeOK, loopVars, driverVars, envVars
<1>2. QED
  BY <1>1 DEF webLoop, WifiInv, NoForgottenAp, IsZero, loopVars, driverVars

LEMMA WifiApplyCredentialsInv ==
    ASSUME WifiInv, wifiApplyCredentials
    PROVE  WifiInv'
<1>1. TypeOK'
  BY WifiAssumption
     DEF wifiApplyCredentials, beginAnew, WifiInv, TypeOK, webVars, envVars
<1>2. /\ g_downSince' = time /\ lastUp' = time /\ time' = time /\ time \in Nat
      /\ pc' = "wifi"
  BY DEF wifiApplyCredentials, WifiInv, TypeOK
<1>3. NoForgottenAp'
  BY DEF wifiApplyCredentials, WifiInv, NoForgottenAp
<1>4. QED
  BY <1>1, <1>2, <1>3 DEF WifiInv

LEMMA HandleWifiInv ==
    ASSUME WifiInv, handleWifi \/ handleWifiFlags
    PROVE  WifiInv'
<1>1. CASE handleWifi
  <2>1. wifiSsid' \in Credentials
    BY <1>1, WifiAssumption DEF handleWifi
  <2>2. saves' \in 0 .. MaxSaves
    BY <1>1, WifiAssumption DEF handleWifi, WifiInv, TypeOK
  <2>3. TypeOK'
    BY <1>1, <2>1, <2>2 DEF handleWifi, WifiInv, TypeOK, passVars, loopVars, driverVars, envVars
  <2>4. QED
    BY <1>1, <2>3, OtherStep DEF handleWifi, WifiInv, TypeOK, passVars, driverVars
<1>2. CASE handleWifiFlags
  <2>1. TypeOK'
    BY <1>2 DEF handleWifiFlags, WifiInv, TypeOK, passVars, loopVars, driverVars, envVars
  <2>2. QED
    BY <1>2, <2>1, OtherStep DEF handleWifiFlags, WifiInv, TypeOK, passVars, driverVars
<1>3. QED
  BY <1>1, <1>2

LEMMA EnvironmentInv ==
    ASSUME WifiInv, Environment \/ Tick
    PROVE  WifiInv'
<1>1. CASE Environment
  <2>1. TypeOK'
    BY <1>1 DEF Environment, staJoins, routerDies, routerReturns, WifiInv, TypeOK, passVars,
                loopVars, webVars, driverVars, envVars
  <2>2. UNCHANGED <<time, pc, now, loopVars, lastUp, apRadio>>
    BY <1>1 DEF Environment, staJoins, routerDies, routerReturns, passVars, driverVars
  <2>3. QED
    BY <2>1, <2>2, OtherStep DEF WifiInv, TypeOK
<1>2. CASE Tick
  <2>1. time' \in Nat /\ time <= time'
    BY <1>2 DEF Tick, WifiInv, TypeOK
  <2>2. TypeOK'
    BY <1>2, <2>1 DEF Tick, WifiInv, TypeOK, passVars, loopVars, webVars, driverVars, envVars
  <2>3. QED
    BY <1>2, <2>1, <2>2, OtherStep DEF Tick, passVars, driverVars
<1>3. QED
  BY <1>1, <1>2

LEMMA WifiStep ==
    ASSUME WifiInv, [Next]_vars
    PROVE  WifiInv'
<1>1. CASE loop
  BY <1>1, WifiBeginInv, WifiLoopInv, WebLoopInv, WifiApplyCredentialsInv DEF loop
<1>2. CASE handleWifi \/ handleWifiFlags \/ Environment \/ Tick
  BY <1>2, HandleWifiInv, EnvironmentInv
<1>3. CASE UNCHANGED vars
  BY <1>3 DEF vars, WifiInv, TypeOK, NoForgottenAp, IsZero, passVars,
              loopVars, webVars, driverVars, envVars
<1>4. QED
  BY <1>1, <1>2, <1>3 DEF Next

\* Only wifiBegin and wifiLoop open the setup network.
LEMMA ApOpensInPass ==
    ASSUME WifiInv, Next, ~g_apUp, g_apUp'
    PROVE  wifiBegin \/ wifiLoop
  BY DEF Next, loop, webLoop, wifiApplyCredentials, handleWifi, handleWifiFlags, Environment,
         staJoins, routerDies, routerReturns, Tick, passVars, loopVars

\* Each interval of a retry follows from the one before.
LEMMA IntervalStep ==
    ASSUME NEW intervals \in SUBSET (RECONNECT_BASE_MS .. RECONNECT_MAX_MS),
           Doubling(intervals), g_retryInterval \in intervals, [Next]_vars
    PROVE  g_retryInterval' \in intervals
<1>1. RECONNECT_BASE_MS \in intervals
  BY DEF Doubling
<1>2. backoff(g_retryInterval) \in intervals
  BY DEF Doubling, backoff
<1>3. CASE wifiLoop
  BY <1>1, <1>2, <1>3 DEF wifiLoop, reconnect
<1>4. CASE ~wifiLoop
  BY <1>1, <1>4
     DEF Next, vars, loop, wifiBegin, webLoop, wifiApplyCredentials, handleWifi,
         handleWifiFlags, Environment, staJoins, routerDies, routerReturns, Tick, passVars, loopVars
<1>5. QED
  BY <1>3, <1>4

-----------------------------------------------------------------------------
(* The theorems.                                                            *)

\* The inductive invariant holds, whatever the router, the user and softAP() do.
THEOREM WifiInvariant == Spec => []WifiInv
<1>1. Init => WifiInv
  BY WifiInit
<1>2. WifiInv /\ [Next]_vars => WifiInv'
  BY WifiStep
<1>3. QED
  BY <1>1, <1>2, PTL DEF Spec

\* Every variable of the WiFi lifecycle keeps its type.
THEOREM WifiTypeOK == Spec => []TypeOK
<1>1. WifiInv => TypeOK
  BY DEF WifiInv
<1>2. QED
  BY <1>1, WifiInvariant, PTL

\* The reconnect backoff stays within its limits, because its doublings meet the
\* upper one exactly; it would overshoot any other.
THEOREM WifiRetryBounded == Spec => []RetryBounded
<1>1. PICK intervals \in SUBSET (RECONNECT_BASE_MS .. RECONNECT_MAX_MS) : Doubling(intervals)
  BY BackoffAssumption
<1>2. Init => g_retryInterval \in intervals
  BY <1>1 DEF Init, Doubling
<1>3. g_retryInterval \in intervals /\ [Next]_vars => (g_retryInterval \in intervals)'
  BY <1>1, IntervalStep
<1>4. g_retryInterval \in intervals => RetryBounded
  BY DEF RetryBounded
<1>5. QED
  BY <1>2, <1>3, <1>4, PTL DEF Spec

\* The firmware knows of every setup network on the air.
THEOREM WifiNoForgottenAp == Spec => []NoForgottenAp
<1>1. WifiInv => NoForgottenAp
  BY DEF WifiInv
<1>2. QED
  BY <1>1, WifiInvariant, PTL

\* A device with credentials never opens its setup network before the link has
\* really been down for the fallback time, laps of the counter included.
THEOREM WifiNoNeedlessAp == Spec => NoNeedlessAp
<1>1. ASSUME WifiInv, Next, ~g_apUp, g_apUp'
      PROVE  wifiSsid = "" \/ now' - lastUp >= WIFI_FALLBACK_AFTER_MS
  <2>1. CASE wifiBegin
    BY <1>1, <2>1 DEF wifiBegin
  <2>2. CASE wifiLoop
    <3>1. now' = time /\ fallbackAp(time)
      BY <2>2 DEF wifiLoop
    <3>2. ~connected /\ wantAp(time)
      BY <1>1, <3>1, FallbackAp DEF WifiInv
    <3>3. QED
      BY <1>1, <3>1, <3>2, WantedApIsDue
  <2>3. QED
    BY <1>1, <2>1, <2>2, ApOpensInPass
<1>2. WifiInv /\ [Next]_vars
        => [~g_apUp /\ g_apUp' => wifiSsid = "" \/ now' - lastUp >= WIFI_FALLBACK_AFTER_MS]_vars
  BY <1>1
<1>3. QED
  BY <1>2, WifiInvariant, PTL DEF Spec, NoNeedlessAp

=============================================================================
