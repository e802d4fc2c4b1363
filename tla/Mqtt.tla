-------------------------------- MODULE Mqtt --------------------------------
(***************************************************************************)
(* The MQTT publisher of src/mqtt.cpp and the handler of src/web.cpp that  *)
(* changes its settings.                                                   *)
(*                                                                         *)
(* A pass of mqttLoop is                                                   *)
(*                                                                         *)
(*   diff -> [drop -> adopt ->] gate -> connect -> announce -> states      *)
(*                                   -> poll -> change                     *)
(*                                                                         *)
(* and ends at "rest", the rest of loop(), where the machine may change.   *)
(* Handlers of the web task come between any two steps; the connection may *)
(* break there too, and between two publications of a step.                *)
(*                                                                         *)
(* Timers are kept as the time since s_lastAttempt and since boot, up to   *)
(* the largest delay they are compared with; so time is unbounded here.    *)
(*                                                                         *)
(* External: PubSubClient, the link and the brokers.  `sock` is what the   *)
(* client's socket really is: "dead" until the client notices.  A broker   *)
(* keeps retained values and a session with the client, whose last will it *)
(* publishes if the session ends otherwise than by a DISCONNECT.           *)
(***************************************************************************)
EXTENDS Naturals

CONSTANTS MQTT_RETRY_START_MS, MQTT_RETRY_MAX_MS

CONSTANTS
    Brokers,     \* what may be configured as the broker
    NoBroker,    \* MQTT disabled, or no host
    Names,       \* device names
    Topics,      \* the retained values published on change
    MaxSaves,    \* bound on the number of saves
    MaxMishaps   \* bound on the losses of link or connection and the resets of the ESP

ASSUME MqttAssumption ==
    /\ MQTT_RETRY_START_MS \in Nat \ {0}
    /\ MQTT_RETRY_MAX_MS \in Nat
    /\ MQTT_RETRY_START_MS <= MQTT_RETRY_MAX_MS
    /\ NoBroker \notin Brokers
    /\ MaxSaves \in Nat /\ MaxMishaps \in Nat

VARIABLES
    pc,
    machine,                  \* what getState() and isBoardUp() answer, by topic
    config, applied,          \* config.mqtt* and deviceName; the applied snapshot
    naming,                   \* handleMqtt has yet to save the name
    s_connected, s_retryDelay,
    sinceAttempt, uptime,     \* now - s_lastAttempt, and now; capped
    s_lastPub,                \* s_lastPubOn and s_lastPubBoard
    s_disc,                   \* the name the discovery payloads were built with
    sock, peer,               \* the socket and the broker at its end
    link,                     \* wifiStaConnected()
    avail, retained, disc,    \* retained by each broker
    session,                  \* each broker's session with the client
    saves, mishaps

Settings == [broker : Brokers \cup {NoBroker}, name : Names]

timers == <<s_retryDelay, sinceAttempt, uptime>>
connVars == <<s_connected, sock, peer>>
clientVars == <<timers, connVars, applied, s_lastPub, s_disc>>
brokerVars == <<avail, retained, disc, session>>
webVars == <<config, naming, saves>>
envVars == <<machine, link, mishaps>>
vars == <<pc, clientVars, brokerVars, webVars, envVars>>

Least(a, b) == IF a < b THEN a ELSE b

-----------------------------------------------------------------------------
(* mqttBegin, after a reset: the first pass of applyConfig has nothing to   *)
(* drop.                                                                    *)

Init ==
    /\ pc = "diff"
    /\ machine \in [Topics -> {"ON", "OFF"}]
    /\ config \in Settings /\ applied = config /\ naming = FALSE
    /\ s_connected = FALSE /\ s_retryDelay = MQTT_RETRY_START_MS
    /\ sinceAttempt = 0 /\ uptime = 0
    /\ s_lastPub = [t \in Topics |-> "OFF"] /\ s_disc = config.name
    /\ sock = "none" /\ peer = NoBroker
    /\ link = FALSE
    /\ avail = [b \in Brokers |-> "unknown"]
    /\ retained = [b \in Brokers |-> [t \in Topics |-> "unknown"]]
    /\ disc = [b \in Brokers |-> "unknown"]
    /\ session = [b \in Brokers |-> "none"]
    /\ saves = 0 /\ mishaps = 0

\* Whatever the firmware publishes on a broken connection is lost.
Delivered == sock = "up"

-----------------------------------------------------------------------------
(* mqttLoop.                                                                *)

pass(from, to) == pc = from /\ pc' = to /\ UNCHANGED <<webVars, envVars>>

diffConfig ==
    /\ pass("diff", IF config = applied THEN "gate" ELSE "drop")
    /\ UNCHANGED <<clientVars, brokerVars>>

\* MUTANT of goodbye: the disconnect alone.
goodbyeSilent == session' = [session EXCEPT ![peer] = "none"] /\ UNCHANGED avail

\* The availability by hand, since a clean disconnect keeps the broker from
\* publishing the will.
goodbye ==
    /\ avail' = [avail EXCEPT ![peer] = "offline"]
    /\ session' = [session EXCEPT ![peer] = "none"]

\* applyConfig, first half ...
dropConnection ==
    /\ pass("drop", "adopt")
    /\ \/ s_connected /\ Delivered /\ goodbye
       \/ ~(s_connected /\ Delivered) /\ UNCHANGED <<avail, session>>
    /\ s_connected' = FALSE /\ sock' = "none"
    /\ UNCHANGED <<timers, peer, applied, s_lastPub, s_disc, retained, disc>>

\* MUTANT of buildDiscovery: the payloads of the start are kept.
buildDiscoveryOnce == UNCHANGED s_disc

buildDiscovery == s_disc' = config.name

\* ... and second: the snapshot, the timers and the discovery payloads.
adoptConfig ==
    /\ pass("adopt", "gate")
    /\ applied' = config
    /\ s_retryDelay' = MQTT_RETRY_START_MS /\ sinceAttempt' = uptime
    /\ buildDiscovery
    /\ UNCHANGED <<connVars, uptime, s_lastPub, brokerVars>>

configured == config.broker # NoBroker
retryDue == sinceAttempt >= s_retryDelay

gate ==
    /\ \/ /\ configured /\ ~s_connected /\ link /\ retryDue
          /\ pass("gate", "connect") /\ sinceAttempt' = 0
       \/ /\ configured /\ s_connected
          /\ pass("gate", "poll") /\ UNCHANGED sinceAttempt
       \/ /\ ~(configured /\ (s_connected \/ (link /\ retryDue)))
          /\ pass("gate", "rest") /\ UNCHANGED sinceAttempt
    /\ UNCHANGED <<s_retryDelay, uptime, connVars, applied, s_lastPub, s_disc, brokerVars>>

\* connect() answers yes.  Settings saved since the diff may have come too late
\* for setServer.  A broker that still has a session ends it, with its will.
connectOk ==
    /\ pass("connect", "announce")
    /\ link
    /\ s_connected' = TRUE /\ sock' = "up"
    /\ s_retryDelay' = MQTT_RETRY_START_MS
    /\ \E b \in Brokers \cap {config.broker, applied.broker} :
          /\ peer' = b
          /\ session' = [session EXCEPT ![b] = "live"]
          /\ avail' = IF session[b] = "stale" THEN [avail EXCEPT ![b] = "offline"] ELSE avail
    /\ UNCHANGED <<sinceAttempt, uptime, applied, s_lastPub, s_disc, retained, disc>>

\* MUTANT of backoff: doubled without the cap.
backoffUncapped(delay) == 2 * delay

backoff(delay) == Least(2 * delay, MQTT_RETRY_MAX_MS)

connectFails ==
    /\ pass("connect", "rest")
    /\ s_retryDelay' = backoff(s_retryDelay)
    /\ UNCHANGED <<connVars, sinceAttempt, uptime, applied, s_lastPub, s_disc,
                   brokerVars>>

\* onConnected: availability and discovery ...
announce ==
    /\ pass("announce", "states")
    /\ avail' = IF Delivered THEN [avail EXCEPT ![peer] = "online"] ELSE avail
    /\ disc' = IF Delivered THEN [disc EXCEPT ![peer] = s_disc] ELSE disc
    /\ UNCHANGED <<clientVars, retained, session>>

\* MUTANT of publishState: a reconnect leaves it to the change detection.
publishStateLater == UNCHANGED <<retained, s_lastPub>>

publishState ==
    /\ retained' = IF Delivered THEN [retained EXCEPT ![peer] = machine] ELSE retained
    /\ s_lastPub' = machine

\* ... and all retained state, remembered as published whether or not it was.
publishStateAll ==
    /\ pass("states", "rest")
    /\ publishState
    /\ UNCHANGED <<timers, connVars, applied, s_disc, avail, disc, session>>

\* s_client.loop() notices a broken connection, at some time.
pollLost ==
    /\ pass("poll", "rest")
    /\ sock = "dead"
    /\ s_connected' = FALSE /\ sock' = "none"
    /\ s_retryDelay' = MQTT_RETRY_START_MS
    /\ UNCHANGED <<sinceAttempt, uptime, peer, applied, s_lastPub, s_disc, brokerVars>>

pollAlive ==
    /\ pass("poll", "change")
    /\ UNCHANGED <<clientVars, brokerVars>>

\* What differs from the remembered value is published.
publishChanges ==
    /\ pass("change", "rest")
    /\ retained' = IF Delivered
                     THEN [retained EXCEPT ![peer] =
                              [t \in Topics |-> IF machine[t] # s_lastPub[t] THEN machine[t] ELSE @[t]]]
                     ELSE retained
    /\ s_lastPub' = machine
    /\ UNCHANGED <<timers, connVars, applied, s_disc, avail, disc, session>>

\* The rest of loop(), where normalLoop may change the machine.
restOfLoop ==
    /\ pc = "rest" /\ pc' = "diff"
    /\ machine' \in [Topics -> {"ON", "OFF"}]
    /\ UNCHANGED <<clientVars, brokerVars, webVars, link, mishaps>>

mqttLoop ==
    \/ diffConfig \/ dropConnection \/ adoptConfig \/ gate
    \/ announce \/ publishStateAll \/ pollAlive \/ publishChanges \/ restOfLoop

-----------------------------------------------------------------------------
(* The web task.                                                            *)

\* handleMqtt: setMqtt, then the name, each changed before its NVS writes.
setMqtt ==
    /\ ~naming
    /\ saves < MaxSaves
    /\ saves' = saves + 1
    /\ \E b \in Brokers \cup {NoBroker} : config' = [config EXCEPT !.broker = b]
    /\ naming' = TRUE
    /\ UNCHANGED <<pc, clientVars, brokerVars, envVars>>

\* An empty name leaves the old one.
setDeviceName ==
    /\ naming
    /\ naming' = FALSE
    /\ \E n \in Names : config' = [config EXCEPT !.name = n]
    /\ UNCHANGED <<pc, clientVars, brokerVars, saves, envVars>>

-----------------------------------------------------------------------------
(* The link, the brokers, resets and time.                                  *)

\* The socket breaks; the broker keeps the session until its keep-alive ends.
Broken ==
    /\ sock' = IF sock = "up" THEN "dead" ELSE sock
    /\ session' = [b \in Brokers |-> IF session[b] = "live" THEN "stale" ELSE session[b]]

\* What the step that is going on had published when the connection, or the
\* firmware, was gone.  The rest of it goes on as on any broken connection.
partOfStep ==
    \/ UNCHANGED <<avail, retained>>
    \/ /\ Delivered
       /\ \/ pc = "drop" /\ s_connected /\ avail' = [avail EXCEPT ![peer] = "offline"]
          \/ pc = "announce" /\ avail' = [avail EXCEPT ![peer] = "online"]
       /\ UNCHANGED retained
    \/ /\ Delivered
       /\ pc \in {"states", "change"}
       /\ \E T \in SUBSET {t \in Topics : pc = "states" \/ machine[t] # s_lastPub[t]} :
             retained' = [retained EXCEPT ![peer] =
                             [t \in Topics |-> IF t \in T THEN machine[t] ELSE @[t]]]
       /\ UNCHANGED avail

linkLost ==
    /\ mishaps < MaxMishaps
    /\ mishaps' = mishaps + 1
    /\ link
    /\ link' \in BOOLEAN
    /\ Broken /\ partOfStep
    /\ UNCHANGED <<pc, timers, s_connected, peer, applied, s_lastPub, s_disc,
                   disc, webVars, machine>>

linkBack ==
    /\ ~link
    /\ link' = TRUE
    /\ UNCHANGED <<pc, clientVars, brokerVars, webVars, machine, mishaps>>

lastWill ==
    /\ \E b \in Brokers :
          /\ session[b] = "stale"
          /\ session' = [session EXCEPT ![b] = "none"]
          /\ avail' = [avail EXCEPT ![b] = "offline"]
    /\ UNCHANGED <<pc, clientVars, retained, disc, webVars, envVars>>

Reset ==
    /\ mishaps < MaxMishaps
    /\ mishaps' = mishaps + 1
    /\ pc' = "diff"
    /\ applied' = config /\ naming' = FALSE
    /\ s_connected' = FALSE /\ s_retryDelay' = MQTT_RETRY_START_MS
    /\ sinceAttempt' = 0 /\ uptime' = 0
    /\ s_lastPub' = [t \in Topics |-> "OFF"] /\ s_disc' = config.name
    /\ sock' = "none" /\ peer' = NoBroker
    /\ session' = [b \in Brokers |-> IF session[b] = "live" THEN "stale" ELSE session[b]]
    /\ partOfStep
    /\ UNCHANGED <<disc, config, saves, machine, link>>

Tick ==
    /\ pc \in {"rest", "connect"}
    /\ uptime' = Least(uptime + 1, MQTT_RETRY_START_MS)
    /\ sinceAttempt' = Least(sinceAttempt + 1, MQTT_RETRY_MAX_MS)
    /\ UNCHANGED <<pc, connVars, s_retryDelay, applied, s_lastPub, s_disc, brokerVars,
                   webVars, envVars>>

connecting == connectOk \/ connectFails
handleMqtt == setMqtt \/ setDeviceName
network == linkLost \/ linkBack \/ lastWill

Next == mqttLoop \/ connecting \/ pollLost \/ handleMqtt \/ network \/ Reset \/ Tick

\* The loop task goes on and so does time; a handler that has begun ends; a
\* broker that can be reached again and again accepts, one that lost the client
\* says so, and the client notices in the end.
Spec ==
    /\ Init /\ [][Next]_vars
    /\ WF_vars(mqttLoop \/ connecting) /\ WF_vars(setDeviceName) /\ WF_vars(lastWill)
    /\ SF_vars(connectOk) /\ SF_vars(pollLost) /\ SF_vars(Tick)

-----------------------------------------------------------------------------
(* Properties.                                                              *)

\* Every variable holds a value of its type; the backoff stays within limits.
TypeOK ==
    /\ pc \in {"diff", "drop", "adopt", "gate", "connect", "announce", "states",
               "poll", "change", "rest"}
    /\ machine \in [Topics -> {"ON", "OFF"}] /\ s_lastPub \in [Topics -> {"ON", "OFF"}]
    /\ config \in Settings /\ applied \in Settings
    /\ {naming, s_connected, link} \subseteq BOOLEAN
    /\ s_retryDelay \in MQTT_RETRY_START_MS .. MQTT_RETRY_MAX_MS
    /\ sinceAttempt \in 0 .. MQTT_RETRY_MAX_MS /\ uptime \in 0 .. MQTT_RETRY_START_MS
    /\ s_disc \in Names
    /\ sock \in {"none", "up", "dead"} /\ peer \in Brokers \cup {NoBroker}
    /\ avail \in [Brokers -> {"unknown", "online", "offline"}]
    /\ retained \in [Brokers -> [Topics -> {"unknown", "ON", "OFF"}]]
    /\ disc \in [Brokers -> Names \cup {"unknown"}]
    /\ session \in [Brokers -> {"none", "live", "stale"}]

\* Nobody is shown as online by a broker that has nothing left to take it back
\* with: neither a will to publish nor a connection to say goodbye on.
AvailabilityBacked == \A b \in Brokers : avail[b] = "online" => session[b] # "none"

\* On a connection that stands, what the firmware remembers as published is
\* what the broker has, although it remembers failed publications too.
RememberedIsRetained ==
    sock = "up" /\ pc \notin {"announce", "states"} => retained[peer] = s_lastPub

\* The inductive invariant behind the two: the broker at the end of a connection
\* that stands has a live session, so no other broker's will, no failed connect
\* and no loss of the link can take the session under an announced availability.
MqttInv ==
    /\ TypeOK
    /\ sock = "up" => peer \in Brokers /\ session[peer] = "live"
    /\ AvailabilityBacked
    /\ RememberedIsRetained

\* What the brokers are promised, by a device that is connected where its socket
\* stands and goes by the name it last applied.
standsAt == IF sock = "up" THEN peer ELSE NoBroker
willsAt == {b \in Brokers : session[b] # "none"}

Shown == INSTANCE RetainedState WITH at <- standsAt, name <- applied.name, held <- willsAt

\* The publisher keeps it, although it publishes only what differs from what it
\* remembers having published, and remembers failed publications too: unless the
\* connection breaks, what is delivered completes the state of the machine.
ImplementsRetainedState == Shown!Spec

\* Behind it: there is no live session but that of the socket which stands, and
\* no socket once the firmware takes itself to be disconnected.
ClientInv ==
    /\ ~s_connected => sock = "none"
    /\ pc \in {"adopt", "connect"} => ~s_connected
    /\ \A b \in Brokers : session[b] = "live" => sock = "up" /\ peer = b
    /\ s_disc = applied.name

\* Once settings, machine and link stay as they are, the configured broker has
\* it all: the availability, the machine's state and the name of the device.
RetainedConverges ==
    (<>[][UNCHANGED <<config, machine>>]_vars /\ <>[](link /\ configured))
      => <>[](/\ configured
              /\ avail[config.broker] = "online"
              /\ retained[config.broker] = machine
              /\ disc[config.broker] = config.name)

\* A broker the device has left, in whatever order settings, losses and resets
\* came, ends up showing it as offline.
LeftBehindIsOffline ==
    \A b \in Brokers : <>[](config.broker # b) => <>[](avail[b] # "online")

=============================================================================
