-------------------------------- MODULE Wifi --------------------------------
(***************************************************************************)
(* The WiFi lifecycle: src/wifi.cpp with the save and apply of credentials *)
(* in src/web.cpp.                                                         *)
(*                                                                         *)
(* loop() runs wifiLoop, then mqttLoop (which may wait for a broker), then *)
(* webLoop, which applies saved credentials, then normalLoop and a short   *)
(* sleep.  The steps "wifi", "web" and "apply" stand for the three that    *)
(* touch the link; time passes before "web" and before "wifi".             *)
(*                                                                         *)
(* The driver is external: `apRadio` says whether the setup network is on  *)
(* the air, `connected` what WiFi.status() answers, `joining` which        *)
(* credentials WiFi.begin was last called with.  Registered mDNS name and  *)
(* TX power always change together with g_wasConnected and g_apUp and are  *)
(* not kept separately.                                                    *)
(***************************************************************************)
EXTENDS Millis

CONSTANTS RECONNECT_BASE_MS, RECONNECT_MAX_MS, WIFI_FALLBACK_AFTER_MS

CONSTANTS
    Saves,          \* credentials the dashboard may save
    Configured,     \* credentials that may be in NVS at boot
    MaxSaves,       \* bound on the number of saves
    MaxApFailures,  \* bound on the SoftAP starts that fail
    MaxWait,        \* how long loop() may go without a wifiLoop
    MaxTime         \* bound on the uptime explored

\* Credentials: none at all, those of the home network, or wrong ones.
Credentials == {"", "home", "wrong"}

ASSUME WifiAssumption ==
    /\ RECONNECT_BASE_MS \in Nat \ {0}
    /\ RECONNECT_MAX_MS \in Nat
    /\ RECONNECT_BASE_MS <= RECONNECT_MAX_MS
    /\ WIFI_FALLBACK_AFTER_MS \in Nat \ {0}
    /\ Saves \subseteq Credentials
    /\ Configured \subseteq Credentials
    /\ MaxSaves \in Nat /\ MaxApFailures \in Nat /\ MaxWait \in Nat /\ MaxTime \in Nat

\* Doubling the first retry interval meets the largest one exactly (15, 30 and 60
\* seconds): the code stops doubling there and has no cap that would cut it short.
Doubling(intervals) ==
    /\ RECONNECT_BASE_MS \in intervals
    /\ \A i \in intervals : i < RECONNECT_MAX_MS => 2 * i \in intervals

ASSUME BackoffAssumption ==
    \E intervals \in SUBSET (RECONNECT_BASE_MS .. RECONNECT_MAX_MS) : Doubling(intervals)

VARIABLES
    time, pc, now,
    wifiSsid,                        \* config.wifiSsid, with its password
    saving,                          \* handleWifi has written it, not yet flagged it
    g_wifiApplyPending,
    g_apUp, g_wasConnected, g_downSince, g_lastAttempt, g_retryInterval,
    dnsUp,                           \* dnsServer.isUp(): the captive portal answers
    apRadio, connected, joining,     \* the WiFi driver
    routerUp, saves, apFailures,     \* the environment
    lastUp      \* history: the last pass that saw the link up or re-armed its clock

loopVars == <<g_apUp, g_wasConnected, g_downSince, g_lastAttempt, g_retryInterval>>
webVars == <<wifiSsid, saving, g_wifiApplyPending, saves>>
passVars == <<pc, now, loopVars, dnsUp, lastUp>>
driverVars == <<apRadio, connected, joining>>
envVars == <<routerUp, apFailures>>
vars == <<time, passVars, webVars, driverVars, envVars>>

-----------------------------------------------------------------------------
Init ==
    /\ time = 1 /\ now = 0 /\ pc = "setup"
    /\ wifiSsid \in Configured
    /\ saving = FALSE /\ g_wifiApplyPending = FALSE
    /\ g_apUp = FALSE /\ g_wasConnected = FALSE /\ g_downSince = 0
    /\ g_lastAttempt = 0 /\ g_retryInterval = RECONNECT_BASE_MS
    /\ dnsUp = FALSE /\ apRadio = FALSE /\ connected = FALSE /\ joining = ""
    /\ routerUp \in BOOLEAN
    /\ saves = 0 /\ apFailures = 0 /\ lastUp = 1

\* MUTANT of startFallbackAp: the flag is raised whatever softAP() answers.
startFallbackApBlind ==
    /\ g_apUp' = TRUE
    /\ \/ apRadio' = TRUE /\ UNCHANGED apFailures
       \/ /\ apFailures < MaxApFailures
          /\ apFailures' = apFailures + 1
          /\ UNCHANGED apRadio

\* softAP() may fail; the flag is raised only if it did not.
startFallbackAp ==
    \/ /\ apRadio' = TRUE /\ g_apUp' = TRUE
       /\ UNCHANGED apFailures
    \/ /\ apFailures < MaxApFailures
       /\ apFailures' = apFailures + 1
       /\ UNCHANGED <<apRadio, g_apUp>>

\* MUTANT of stopFallbackAp: the flag is lowered, the AP left on the air.
stopFallbackApFlag == g_apUp' = FALSE /\ UNCHANGED <<apRadio, apFailures>>

stopFallbackAp == apRadio' = FALSE /\ g_apUp' = FALSE /\ UNCHANGED apFailures

wifiBegin ==
    /\ pc = "setup"
    /\ pc' = "wifi"
    /\ \/ /\ wifiSsid # ""
          /\ joining' = wifiSsid
          /\ g_downSince' = time
          /\ UNCHANGED <<g_apUp, apRadio, apFailures>>
       \/ /\ wifiSsid = ""
          /\ startFallbackAp
          /\ UNCHANGED <<joining, g_downSince>>
    /\ lastUp' = time
    /\ UNCHANGED <<time, now, webVars, g_wasConnected, g_lastAttempt, g_retryInterval,
                   dnsUp, connected, routerUp>>

-----------------------------------------------------------------------------
(* wifiLoop, on one reading of the clock and of the link's status.          *)

linkCameUp == connected /\ ~g_wasConnected
linkWentDown == ~connected /\ g_wasConnected
wantsLink == wifiSsid # "" /\ ~connected

\* MUTANT of downSince: the link's coming and going leaves the clock alone.
downSinceStale(at) == IF wantsLink /\ IsZero(g_downSince) THEN at ELSE g_downSince

\* MUTANT of downSince: a lost link opens the setup network at once.
downSinceBackdated(at) ==
    LET seen == IF linkCameUp THEN 0
                ELSE IF linkWentDown THEN at - WIFI_FALLBACK_AFTER_MS ELSE g_downSince
    IN  IF wantsLink /\ IsZero(seen) THEN at ELSE seen

\* The fallback clock after this pass: cleared when the link comes up, set
\* when it goes down, and (defensively) whenever a wanted link has none.
downSince(at) ==
    LET seen == IF linkCameUp THEN 0
                ELSE IF linkWentDown THEN at ELSE g_downSince
    IN  IF wantsLink /\ IsZero(seen) THEN at ELSE seen

retryDue(at) == wantsLink /\ Elapsed(at, g_lastAttempt) >= g_retryInterval

\* MUTANT of backoff: one doubling too many.
backoffOver(interval) ==
    IF interval <= RECONNECT_MAX_MS THEN 2 * interval ELSE interval

backoff(interval) ==
    IF interval < RECONNECT_MAX_MS THEN 2 * interval ELSE interval

reconnect(at) ==
    \/ /\ retryDue(at)
       /\ g_lastAttempt' = at
       /\ g_retryInterval' = backoff(g_retryInterval)
       /\ joining' = wifiSsid
    \/ /\ ~retryDue(at)
       /\ g_retryInterval' = IF linkCameUp THEN RECONNECT_BASE_MS ELSE g_retryInterval
       /\ UNCHANGED <<g_lastAttempt, joining>>

wantAp(at) ==
    \/ wifiSsid = ""
    \/ ~IsZero(downSince(at)) /\ Elapsed(at, downSince(at)) >= WIFI_FALLBACK_AFTER_MS

\* MUTANT of fallbackAp: the AP is left up beside the connection.
fallbackApKept(at) ==
    \/ wantAp(at) /\ ~g_apUp /\ startFallbackAp
    \/ ~(wantAp(at) /\ ~g_apUp) /\ UNCHANGED <<apRadio, g_apUp, apFailures>>

\* The AP is started if wanted and then dropped if connected: a pass that
\* does both leaves it down.
fallbackAp(at) ==
    \/ connected /\ (g_apUp \/ wantAp(at)) /\ stopFallbackAp
    \/ ~connected /\ wantAp(at) /\ ~g_apUp /\ startFallbackAp
    \/ /\ IF connected THEN ~g_apUp /\ ~wantAp(at) ELSE g_apUp \/ ~wantAp(at)
       /\ UNCHANGED <<apRadio, g_apUp, apFailures>>

wifiLoop ==
    /\ pc = "wifi"
    /\ pc' = "web"
    /\ now' = time
    /\ g_wasConnected' = connected
    /\ g_downSince' = downSince(now')
    /\ reconnect(now')
    /\ fallbackAp(now')
    /\ lastUp' = IF connected THEN now' ELSE lastUp
    /\ UNCHANGED <<time, webVars, dnsUp, connected, routerUp>>

-----------------------------------------------------------------------------
(* webLoop: the captive DNS server follows the setup network; the flag is   *)
(* taken before the credentials are applied, so that a save that comes in   *)
(* between flags them again.                                                *)

captiveDns == dnsUp' = g_apUp

webLoop ==
    /\ pc = "web"
    /\ pc' = IF g_wifiApplyPending THEN "apply" ELSE "wifi"
    /\ captiveDns
    /\ g_wifiApplyPending' = FALSE
    /\ UNCHANGED <<time, now, wifiSsid, saving, saves, loopVars, lastUp, driverVars, envVars>>

\* MUTANT of beginAnew: the driver keeps its old credentials until a retry.
beginLater == g_lastAttempt' = time /\ UNCHANGED joining

beginAnew == g_lastAttempt' = 0 /\ joining' = wifiSsid

\* The mode switch takes an AP that is up off the air and leaves g_apUp alone.
wifiApplyCredentials ==
    /\ pc = "apply"
    /\ pc' = "wifi"
    /\ beginAnew
    /\ g_downSince' = time /\ lastUp' = time
    /\ g_retryInterval' = RECONNECT_BASE_MS
    /\ connected' = FALSE
    /\ apRadio' = (wifiSsid = "" /\ apRadio)
    /\ UNCHANGED <<time, now, webVars, g_apUp, g_wasConnected, dnsUp, envVars>>

\* handleWifi, on the web task: the settings first, the flag after the NVS write.
handleWifi ==
    /\ pc # "setup"
    /\ ~saving
    /\ saves < MaxSaves
    /\ saves' = saves + 1
    /\ \E c \in Saves : wifiSsid' = c
    /\ saving' = TRUE
    /\ UNCHANGED <<time, passVars, g_wifiApplyPending, driverVars, envVars>>

handleWifiFlags ==
    /\ saving
    /\ saving' = FALSE
    /\ g_wifiApplyPending' = TRUE
    /\ UNCHANGED <<time, passVars, wifiSsid, saves, driverVars, envVars>>

-----------------------------------------------------------------------------
(* The driver, the router and time.                                         *)

\* An association takes longer than the end of a pass, so one begun by the
\* apply is over no earlier than the wait in the next.
staJoins ==
    /\ pc = "web"
    /\ joining = "home" /\ routerUp /\ ~connected
    /\ connected' = TRUE
    /\ UNCHANGED <<time, passVars, webVars, apRadio, joining, envVars>>

routerDies ==
    /\ routerUp
    /\ routerUp' = FALSE
    /\ connected' = FALSE
    /\ UNCHANGED <<time, passVars, webVars, apRadio, joining, apFailures>>

routerReturns ==
    /\ ~routerUp
    /\ routerUp' = TRUE
    /\ UNCHANGED <<time, passVars, webVars, driverVars, apFailures>>

Tick ==
    /\ time < MaxTime
    /\ time - now < MaxWait
    /\ pc \in {"setup", "wifi", "web"}
    /\ time' = time + 1
    /\ UNCHANGED <<passVars, webVars, driverVars, envVars>>

loop == wifiBegin \/ wifiLoop \/ webLoop \/ wifiApplyCredentials
Environment == staJoins \/ routerDies \/ routerReturns

Next == loop \/ handleWifi \/ handleWifiFlags \/ Environment \/ Tick

\* The loop task, the handler and time go on; an association that stays
\* possible succeeds.  Nothing makes the router return or the user save.
Spec ==
    /\ Init /\ [][Next]_vars
    /\ WF_vars(loop) /\ WF_vars(handleWifiFlags) /\ WF_vars(Tick) /\ SF_vars(staJoins)

-----------------------------------------------------------------------------
(* Properties.                                                              *)

\* Every variable holds a value of its type.
TypeOK ==
    /\ time \in Nat /\ now \in Nat /\ lastUp \in Nat
    /\ pc \in {"setup", "wifi", "web", "apply"}
    /\ wifiSsid \in Credentials /\ joining \in Credentials
    /\ {saving, g_wifiApplyPending, g_apUp, g_wasConnected, dnsUp, apRadio, connected,
        routerUp} \subseteq BOOLEAN
    /\ g_downSince \in Nat /\ g_lastAttempt \in Nat
    /\ g_retryInterval \in Nat
    /\ saves \in 0 .. MaxSaves /\ apFailures \in 0 .. MaxApFailures

\* The reconnect backoff stays within its limits through losses, connections
\* and saves (the doubling stops in time).
RetryBounded == g_retryInterval \in RECONNECT_BASE_MS .. RECONNECT_MAX_MS

\* No AP is left on the air that the firmware does not know of: one it would
\* never drop, without captive DNS.
NoForgottenAp == apRadio => g_apUp

\* The inductive invariant behind these and the next: no timestamp of the link is
\* ahead of the clock, and the fallback clock of a link that is down, where it
\* runs, began no earlier than the link was last seen up.
WifiInv ==
    /\ TypeOK
    /\ pc = "setup" => now = 0 /\ g_downSince = 0
    /\ g_downSince <= time /\ lastUp <= time
    /\ ~g_wasConnected /\ ~IsZero(g_downSince) => lastUp <= g_downSince
    /\ NoForgottenAp

\* A device with credentials opens its setup network only after the link has
\* been seen down for the whole fallback time, so a blip, a reconnect or a
\* save never opens it early.
NoNeedlessAp ==
    [][~g_apUp /\ g_apUp'
         => wifiSsid = "" \/ now' - lastUp >= WIFI_FALLBACK_AFTER_MS]_vars

\* The setup network gives way to a connection.
ApGivesWay == (connected /\ g_apUp) ~> (~connected \/ ~g_apUp)

\* wifiApplyCredentials left the flag up over an AP it took off the air, which
\* is the finding FallbackOnAir.
staleFlag == g_apUp /\ ~apRadio

\* A link that stays down brings the setup network on the air, through failed
\* starts and every earlier save: an apply of credentials only begins the wait
\* anew, and the fallback comes after it as well unless that apply made the flag
\* stale.  (A link lost in the millisecond in which the counter is 0 waits one pass
\* more.)
FallbackComes ==
    (/\ pc # "setup" /\ ~connected /\ ~staleFlag
     /\ time + 2 * MaxWait + WIFI_FALLBACK_AFTER_MS <= MaxTime)
      ~> (connected \/ apRadio \/ pc = "apply")

\* Saved credentials that work are used, whichever saves raced before, and
\* without waiting for a retry: this holds even if the clock stands still.
SavedCredentialsUsed == <>[](wifiSsid = "home" /\ routerUp) => <>[]connected

\* README.md:161: when the link has been down for the fallback time the setup
\* network is on the air, so that wrong credentials never brick remote access.
FallbackOnAir ==
    (pc # "setup" /\ ~connected /\ time + MaxWait + WIFI_FALLBACK_AFTER_MS <= MaxTime)
      ~> (connected \/ apRadio \/ g_wifiApplyPending)

=============================================================================
