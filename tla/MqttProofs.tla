----------------------------- MODULE MqttProofs -----------------------------
(***************************************************************************)
(* Theorems about the MQTT publisher for any number of brokers, topics and *)
(* names, any delays and any number of saves, losses and resets.           *)
(***************************************************************************)
EXTENDS Mqtt, TLAPS

\* Of two numbers, Least is one and is not above either.
LEMMA LeastIs ==
    ASSUME NEW a \in Nat, NEW b \in Nat
    PROVE  /\ Least(a, b) \in Nat
           /\ Least(a, b) <= a /\ Least(a, b) <= b
           /\ Least(a, b) = a \/ Least(a, b) = b
  BY DEF Least

\* The backoff of a failed connect stays within its limits.
LEMMA BackoffBounded ==
    ASSUME NEW delay \in MQTT_RETRY_START_MS .. MQTT_RETRY_MAX_MS
    PROVE  backoff(delay) \in MQTT_RETRY_START_MS .. MQTT_RETRY_MAX_MS
  BY MqttAssumption DEF backoff, Least

-----------------------------------------------------------------------------
(* The inductive invariant, one lemma for each step.                        *)

LEMMA MqttInit ==
    ASSUME Init
    PROVE  MqttInv
<1>1. /\ s_retryDelay \in MQTT_RETRY_START_MS .. MQTT_RETRY_MAX_MS
      /\ sinceAttempt \in 0 .. MQTT_RETRY_MAX_MS /\ uptime \in 0 .. MQTT_RETRY_START_MS
  BY MqttAssumption DEF Init
<1>2. config.name \in Names
  BY DEF Init, Settings
<1>3. TypeOK
  BY <1>1, <1>2 DEF Init, TypeOK
<1>4. QED
  BY <1>3 DEF Init, MqttInv, AvailabilityBacked, RememberedIsRetained

\* Steps that leave the brokers and the socket as they are, remember nothing
\* new, and come neither from the announcement nor into what follows it.
LEMMA QuietStep ==
    ASSUME MqttInv, TypeOK',
           UNCHANGED <<sock, peer, session, avail, retained, s_lastPub>>,
           pc' \in {"announce", "states"} \/ pc \notin {"announce", "states"}
    PROVE  MqttInv'
  BY DEF MqttInv, AvailabilityBacked, RememberedIsRetained

\* Steps that end on a socket that does not stand and take no session away.
LEMMA SocketDown ==
    ASSUME MqttInv, TypeOK', sock' # "up", avail' = avail,
           \A b \in Brokers : session[b] # "none" => session'[b] # "none"
    PROVE  MqttInv'
  BY DEF MqttInv, AvailabilityBacked, RememberedIsRetained

LEMMA DiffConfigInv ==
    ASSUME MqttInv, diffConfig
    PROVE  MqttInv'
<1>1. TypeOK'
  BY DEF diffConfig, pass, MqttInv, TypeOK, clientVars, timers, connVars, brokerVars,
         webVars, envVars
<1>2. QED
  BY <1>1, QuietStep DEF diffConfig, pass, clientVars, connVars, brokerVars

LEMMA DropConnectionInv ==
    ASSUME MqttInv, dropConnection
    PROVE  MqttInv'
<1>1. /\ pc' = "adopt" /\ sock' = "none" /\ s_connected' = FALSE
      /\ UNCHANGED <<timers, peer, applied, s_lastPub, s_disc, retained, disc, webVars, envVars>>
  BY DEF dropConnection, pass
<1>2. CASE s_connected /\ Delivered /\ goodbye
  <2>1. peer \in Brokers
    BY <1>2 DEF MqttInv, Delivered
  <2>2. /\ avail' = [avail EXCEPT ![peer] = "offline"]
        /\ session' = [session EXCEPT ![peer] = "none"]
    BY <1>2 DEF goodbye
  <2>3. TypeOK'
    BY <1>1, <2>1, <2>2 DEF MqttInv, TypeOK, timers, webVars, envVars
  <2>4. AvailabilityBacked'
    BY <2>1, <2>2 DEF MqttInv, TypeOK, AvailabilityBacked
  <2>5. QED
    BY <1>1, <2>3, <2>4 DEF MqttInv, RememberedIsRetained
<1>3. CASE ~(s_connected /\ Delivered) /\ UNCHANGED <<avail, session>>
  <2>1. TypeOK'
    BY <1>1, <1>3 DEF MqttInv, TypeOK, timers, webVars, envVars
  <2>2. QED
    BY <1>1, <1>3, <2>1, SocketDown
<1>4. QED
  BY <1>2, <1>3 DEF dropConnection

LEMMA AdoptConfigInv ==
    ASSUME MqttInv, adoptConfig
    PROVE  MqttInv'
<1>1. TypeOK'
  BY MqttAssumption
     DEF adoptConfig, buildDiscovery, pass, MqttInv, TypeOK, Settings, connVars,
         brokerVars, webVars, envVars
<1>2. QED
  BY <1>1, QuietStep DEF adoptConfig, pass, connVars, brokerVars

LEMMA GateInv ==
    ASSUME MqttInv, gate
    PROVE  MqttInv'
<1>1. /\ pc = "gate" /\ pc' \in {"connect", "poll", "rest"}
      /\ sinceAttempt' \in {0, sinceAttempt}
      /\ UNCHANGED <<s_retryDelay, uptime, connVars, applied, s_lastPub, s_disc, brokerVars,
                     webVars, envVars>>
  BY DEF gate, pass
<1>2. TypeOK'
  BY <1>1, MqttAssumption DEF MqttInv, TypeOK, connVars, brokerVars, webVars, envVars
<1>3. QED
  BY <1>1, <1>2, QuietStep DEF connVars, brokerVars

LEMMA ConnectOkInv ==
    ASSUME MqttInv, connectOk
    PROVE  MqttInv'
<1>1. PICK b \in Brokers \cap {config.broker, applied.broker} :
          /\ peer' = b
          /\ session' = [session EXCEPT ![b] = "live"]
          /\ avail' = IF session[b] = "stale" THEN [avail EXCEPT ![b] = "offline"] ELSE avail
  BY DEF connectOk
<1>2. TypeOK'
  BY <1>1, MqttAssumption DEF connectOk, pass, MqttInv, TypeOK, webVars, envVars
<1>3. session'[b] = "live" /\ \A c \in Brokers \ {b} : session'[c] = session[c]
  BY <1>1 DEF MqttInv, TypeOK
<1>4. \A c \in Brokers \ {b} : avail'[c] = avail[c]
  BY <1>1 DEF MqttInv, TypeOK
<1>5. AvailabilityBacked'
  BY <1>3, <1>4 DEF MqttInv, AvailabilityBacked
<1>6. QED
  BY <1>1, <1>2, <1>3, <1>5 DEF connectOk, pass, MqttInv, RememberedIsRetained

LEMMA ConnectFailsInv ==
    ASSUME MqttInv, connectFails
    PROVE  MqttInv'
<1>1. s_retryDelay' \in MQTT_RETRY_START_MS .. MQTT_RETRY_MAX_MS
  BY BackoffBounded DEF connectFails, MqttInv, TypeOK
<1>2. TypeOK'
  BY <1>1 DEF connectFails, pass, MqttInv, TypeOK, connVars, brokerVars, webVars, envVars
<1>3. QED
  BY <1>2, QuietStep DEF connectFails, pass, connVars, brokerVars

LEMMA AnnounceInv ==
    ASSUME MqttInv, announce
    PROVE  MqttInv'
<1>1. CASE Delivered
  <2>1. peer \in Brokers /\ session[peer] = "live"
    BY <1>1 DEF MqttInv, Delivered
  <2>2. /\ pc' = "states"
        /\ avail' = [avail EXCEPT ![peer] = "online"]
        /\ disc' = [disc EXCEPT ![peer] = s_disc]
        /\ UNCHANGED <<clientVars, retained, session, webVars, envVars>>
    BY <1>1 DEF announce, pass
  <2>3. TypeOK'
    BY <2>1, <2>2 DEF MqttInv, TypeOK, clientVars, timers, connVars, webVars, envVars
  <2>4. AvailabilityBacked'
    BY <2>1, <2>2 DEF MqttInv, TypeOK, AvailabilityBacked
  <2>5. QED
    BY <2>1, <2>2, <2>3, <2>4 DEF MqttInv, RememberedIsRetained, clientVars, connVars
<1>2. CASE ~Delivered
  <2>1. TypeOK'
    BY <1>2 DEF announce, pass, MqttInv, TypeOK, clientVars, timers, connVars, webVars, envVars
  <2>2. QED
    BY <1>2, <2>1, QuietStep DEF announce, pass, clientVars, connVars
<1>3. QED
  BY <1>1, <1>2

LEMMA PublishStateAllInv ==
    ASSUME MqttInv, publishStateAll
    PROVE  MqttInv'
<1>1. /\ pc' = "rest" /\ s_lastPub' = machine
      /\ retained' = IF Delivered THEN [retained EXCEPT ![peer] = machine] ELSE retained
      /\ UNCHANGED <<timers, connVars, applied, s_disc, avail, disc, session, webVars, envVars>>
  BY DEF publishStateAll, publishState, pass
<1>2. Delivered => peer \in Brokers /\ session[peer] = "live"
  BY DEF MqttInv, Delivered
<1>3. machine \in [Topics -> {"unknown", "ON", "OFF"}]
  BY DEF MqttInv, TypeOK
<1>4. TypeOK'
  BY <1>1, <1>2, <1>3 DEF MqttInv, TypeOK, timers, connVars, webVars, envVars
<1>5. RememberedIsRetained'
  BY <1>1, <1>2 DEF Delivered, RememberedIsRetained, MqttInv, TypeOK, connVars
<1>6. QED
  BY <1>1, <1>4, <1>5 DEF MqttInv, AvailabilityBacked, connVars

LEMMA PollLostInv ==
    ASSUME MqttInv, pollLost
    PROVE  MqttInv'
<1>1. s_retryDelay' \in MQTT_RETRY_START_MS .. MQTT_RETRY_MAX_MS
  BY MqttAssumption DEF pollLost
<1>2. TypeOK'
  BY <1>1 DEF pollLost, pass, MqttInv, TypeOK, brokerVars, webVars, envVars
<1>3. QED
  BY <1>2, SocketDown DEF pollLost, brokerVars

LEMMA PollAliveInv ==
    ASSUME MqttInv, pollAlive
    PROVE  MqttInv'
<1>1. TypeOK'
  BY DEF pollAlive, pass, MqttInv, TypeOK, clientVars, timers, connVars, brokerVars,
         webVars, envVars
<1>2. QED
  BY <1>1, QuietStep DEF pollAlive, pass, clientVars, connVars, brokerVars

\* What was left unpublished is what equals the remembered value, and that is
\* what the broker has: the change detection loses nothing.
LEMMA ChangesComplete ==
    ASSUME MqttInv, publishChanges, Delivered
    PROVE  retained' = [retained EXCEPT ![peer] = machine]
<1>1. peer \in Brokers /\ retained[peer] = s_lastPub
  BY DEF publishChanges, pass, MqttInv, Delivered, RememberedIsRetained
<1>2. retained' = [retained EXCEPT ![peer] =
                      [t \in Topics |-> IF machine[t] # s_lastPub[t] THEN machine[t]
                                        ELSE retained[peer][t]]]
  BY DEF publishChanges
<1>3. [t \in Topics |-> IF machine[t] # s_lastPub[t] THEN machine[t] ELSE retained[peer][t]]
        = machine
  BY <1>1 DEF MqttInv, TypeOK
<1>4. QED
  BY <1>2, <1>3

LEMMA PublishChangesInv ==
    ASSUME MqttInv, publishChanges
    PROVE  MqttInv'
<1>1. /\ pc = "change" /\ pc' = "rest" /\ s_lastPub' = machine
      /\ UNCHANGED <<timers, connVars, applied, s_disc, avail, disc, session, webVars, envVars>>
  BY DEF publishChanges, pass
<1>2. CASE Delivered
  <2>1. peer \in Brokers /\ session[peer] = "live"
    BY <1>2 DEF MqttInv, Delivered
  <2>2. retained' = [retained EXCEPT ![peer] = machine]
    BY <1>2, ChangesComplete
  <2>3. machine \in [Topics -> {"unknown", "ON", "OFF"}]
    BY DEF MqttInv, TypeOK
  <2>4. TypeOK'
    BY <1>1, <2>1, <2>2, <2>3 DEF MqttInv, TypeOK, timers, connVars, webVars, envVars
  <2>5. RememberedIsRetained'
    BY <1>1, <2>1, <2>2 DEF RememberedIsRetained, MqttInv, TypeOK, connVars
  <2>6. QED
    BY <1>1, <2>4, <2>5 DEF MqttInv, AvailabilityBacked, connVars
<1>3. CASE ~Delivered
  <2>1. sock' # "up" /\ retained' = retained
    BY <1>1, <1>3 DEF publishChanges, Delivered, connVars
  <2>2. TypeOK'
    BY <1>1, <2>1 DEF MqttInv, TypeOK, timers, connVars, webVars, envVars
  <2>3. QED
    BY <1>1, <2>1, <2>2, SocketDown
<1>4. QED
  BY <1>2, <1>3

LEMMA RestOfLoopInv ==
    ASSUME MqttInv, restOfLoop
    PROVE  MqttInv'
<1>1. TypeOK'
  BY DEF restOfLoop, MqttInv, TypeOK, clientVars, timers, connVars, brokerVars, webVars
<1>2. QED
  BY <1>1, QuietStep DEF restOfLoop, clientVars, connVars, brokerVars

LEMMA HandleMqttInv ==
    ASSUME MqttInv, handleMqtt
    PROVE  MqttInv'
<1>1. CASE setMqtt
  <2>1. PICK b \in Brokers \cup {NoBroker} : config' = [config EXCEPT !.broker = b]
    BY <1>1 DEF setMqtt
  <2>2. config' \in Settings
    BY <2>1 DEF MqttInv, TypeOK, Settings
  <2>3. TypeOK'
    BY <1>1, <2>2 DEF setMqtt, MqttInv, TypeOK, clientVars, timers, connVars, brokerVars,
                      envVars
  <2>4. QED
    BY <1>1, <2>3, QuietStep DEF setMqtt, clientVars, connVars, brokerVars
<1>2. CASE setDeviceName
  <2>1. PICK n \in Names : config' = [config EXCEPT !.name = n]
    BY <1>2 DEF setDeviceName
  <2>2. config' \in Settings
    BY <2>1 DEF MqttInv, TypeOK, Settings
  <2>3. TypeOK'
    BY <1>2, <2>2 DEF setDeviceName, MqttInv, TypeOK, clientVars, timers, connVars,
                      brokerVars, envVars
  <2>4. QED
    BY <1>2, <2>3, QuietStep DEF setDeviceName, clientVars, connVars, brokerVars
<1>3. QED
  BY <1>1, <1>2 DEF handleMqtt

\* A step cut short by the loss of the connection keeps the types, and shows the
\* device as online only where its will is.
LEMMA PartOfStep ==
    ASSUME MqttInv, partOfStep
    PROVE  /\ avail' \in [Brokers -> {"unknown", "online", "offline"}]
           /\ retained' \in [Brokers -> [Topics -> {"unknown", "ON", "OFF"}]]
           /\ \A b \in Brokers : avail'[b] = "online" => session[b] # "none"
<1>1. /\ avail \in [Brokers -> {"unknown", "online", "offline"}]
      /\ retained \in [Brokers -> [Topics -> {"unknown", "ON", "OFF"}]]
      /\ machine \in [Topics -> {"ON", "OFF"}]
      /\ \A b \in Brokers : avail[b] = "online" => session[b] # "none"
  BY DEF MqttInv, TypeOK, AvailabilityBacked
<1>2. CASE UNCHANGED <<avail, retained>>
  BY <1>1, <1>2
<1>3. CASE Delivered /\ retained' = retained /\ \E a \in {"online", "offline"} :
             avail' = [avail EXCEPT ![peer] = a]
  <2>1. peer \in Brokers /\ session[peer] # "none"
    BY <1>3 DEF MqttInv, Delivered
  <2>2. QED
    BY <1>1, <1>3, <2>1
<1>4. CASE Delivered /\ avail' = avail /\ \E T \in SUBSET Topics :
             retained' = [retained EXCEPT ![peer] =
                             [t \in Topics |-> IF t \in T THEN machine[t] ELSE retained[peer][t]]]
  <2>1. peer \in Brokers
    BY <1>4 DEF MqttInv, Delivered
  <2>2. PICK T \in SUBSET Topics :
             retained' = [retained EXCEPT ![peer] =
                             [t \in Topics |-> IF t \in T THEN machine[t] ELSE retained[peer][t]]]
    BY <1>4
  <2>3. [t \in Topics |-> IF t \in T THEN machine[t] ELSE retained[peer][t]]
          \in [Topics -> {"unknown", "ON", "OFF"}]
    BY <1>1, <2>1
  <2>4. QED
    BY <1>1, <1>4, <2>1, <2>2, <2>3
<1>5. QED
  BY <1>2, <1>3, <1>4 DEF partOfStep

LEMMA LinkLostInv ==
    ASSUME MqttInv, linkLost
    PROVE  MqttInv'
<1>1. TypeOK'
  BY PartOfStep, MqttAssumption DEF linkLost, Broken, MqttInv, TypeOK, timers, webVars
<1>2. sock' # "up"
  BY DEF linkLost, Broken, MqttInv, TypeOK
<1>3. \A b \in Brokers : session[b] # "none" => session'[b] # "none"
  BY DEF linkLost, Broken
<1>4. AvailabilityBacked'
  BY <1>3, PartOfStep DEF linkLost, AvailabilityBacked
<1>5. QED
  BY <1>1, <1>2, <1>4 DEF MqttInv, RememberedIsRetained

LEMMA LinkBackInv ==
    ASSUME MqttInv, linkBack
    PROVE  MqttInv'
<1>1. TypeOK'
  BY DEF linkBack, MqttInv, TypeOK, clientVars, timers, connVars, brokerVars, webVars
<1>2. QED
  BY <1>1, QuietStep DEF linkBack, clientVars, connVars, brokerVars

LEMMA LastWillInv ==
    ASSUME MqttInv, lastWill
    PROVE  MqttInv'
<1>1. PICK b \in Brokers :
          /\ session[b] = "stale"
          /\ session' = [session EXCEPT ![b] = "none"]
          /\ avail' = [avail EXCEPT ![b] = "offline"]
  BY DEF lastWill
<1>2. TypeOK'
  BY <1>1 DEF lastWill, MqttInv, TypeOK, clientVars, timers, connVars, webVars, envVars
<1>3. AvailabilityBacked'
  BY <1>1 DEF MqttInv, TypeOK, AvailabilityBacked
<1>4. sock' = "up" => peer' \in Brokers /\ session'[peer'] = "live"
  BY <1>1 DEF lastWill, MqttInv, TypeOK, clientVars, connVars
<1>5. QED
  BY <1>2, <1>3, <1>4 DEF lastWill, MqttInv, RememberedIsRetained, clientVars, connVars

LEMMA ResetInv ==
    ASSUME MqttInv, Reset
    PROVE  MqttInv'
<1>1. /\ s_retryDelay' \in MQTT_RETRY_START_MS .. MQTT_RETRY_MAX_MS
      /\ sinceAttempt' \in 0 .. MQTT_RETRY_MAX_MS /\ uptime' \in 0 .. MQTT_RETRY_START_MS
  BY MqttAssumption DEF Reset
<1>2. config.name \in Names
  BY DEF MqttInv, TypeOK, Settings
<1>3. TypeOK'
  BY <1>1, <1>2, PartOfStep DEF Reset, MqttInv, TypeOK
<1>4. \A b \in Brokers : session[b] # "none" => session'[b] # "none"
  BY DEF Reset
<1>5. AvailabilityBacked'
  BY <1>4, PartOfStep DEF Reset, AvailabilityBacked
<1>6. QED
  BY <1>3, <1>5 DEF Reset, MqttInv, RememberedIsRetained

LEMMA TickInv ==
    ASSUME MqttInv, Tick
    PROVE  MqttInv'
<1>1. /\ uptime' \in 0 .. MQTT_RETRY_START_MS
      /\ sinceAttempt' \in 0 .. MQTT_RETRY_MAX_MS
  BY LeastIs, MqttAssumption DEF Tick, MqttInv, TypeOK
<1>2. TypeOK'
  BY <1>1 DEF Tick, MqttInv, TypeOK, connVars, brokerVars, webVars, envVars
<1>3. QED
  BY <1>2, QuietStep DEF Tick, connVars, brokerVars

LEMMA MqttStep ==
    ASSUME MqttInv, [Next]_vars
    PROVE  MqttInv'
<1>1. CASE mqttLoop
  BY <1>1, DiffConfigInv, DropConnectionInv, AdoptConfigInv, GateInv, AnnounceInv,
     PublishStateAllInv, PollAliveInv, PublishChangesInv, RestOfLoopInv DEF mqttLoop
<1>2. CASE connecting \/ pollLost
  BY <1>2, ConnectOkInv, ConnectFailsInv, PollLostInv DEF connecting
<1>3. CASE handleMqtt \/ network \/ Reset \/ Tick
  BY <1>3, HandleMqttInv, LinkLostInv, LinkBackInv, LastWillInv, ResetInv, TickInv DEF network
<1>4. CASE UNCHANGED vars
  BY <1>4 DEF vars, MqttInv, TypeOK, AvailabilityBacked, RememberedIsRetained, clientVars,
              timers, connVars, brokerVars, webVars, envVars
<1>5. QED
  BY <1>1, <1>2, <1>3, <1>4 DEF Next

-----------------------------------------------------------------------------
(* The theorems.                                                            *)

\* The inductive invariant holds: in every order of handlers, losses, wills and
\* resets a socket that stands has a live session at its end.
THEOREM MqttInvariant == Spec => []MqttInv
<1>1. Init => MqttInv
  BY MqttInit
<1>2. MqttInv /\ [Next]_vars => MqttInv'
  BY MqttStep
<1>3. QED
  BY <1>1, <1>2, PTL DEF Spec

\* Every variable of the publisher keeps its type, the backoff its limits.
THEOREM MqttTypeOK == Spec => []TypeOK
<1>1. MqttInv => TypeOK
  BY DEF MqttInv
<1>2. QED
  BY <1>1, MqttInvariant, PTL

\* No broker shows the device as online without a will or a connection left to
\* take that back.
THEOREM MqttAvailabilityBacked == Spec => []AvailabilityBacked
<1>1. MqttInv => AvailabilityBacked
  BY DEF MqttInv
<1>2. QED
  BY <1>1, MqttInvariant, PTL

\* On a connection that stands, what the firmware remembers as published is what
\* the broker retains, topic by topic.
THEOREM MqttRememberedIsRetained == Spec => []RememberedIsRetained
<1>1. MqttInv => RememberedIsRetained
  BY DEF MqttInv
<1>2. QED
  BY <1>1, MqttInvariant, PTL

-----------------------------------------------------------------------------
(* Where the socket stands, and whose session that is.                      *)

LEMMA ClientInit ==
    ASSUME Init
    PROVE  ClientInv
  BY DEF Init, ClientInv

\* Steps that leave the connection as it is and do not begin a connect or an
\* adoption.
LEMMA QuietClient ==
    ASSUME ClientInv, UNCHANGED <<connVars, applied, s_disc, session>>,
           pc' \in {"adopt", "connect"} => pc' = pc
    PROVE  ClientInv'
  BY DEF ClientInv, connVars

LEMMA DropConnectionClient ==
    ASSUME MqttInv, ClientInv, dropConnection
    PROVE  ClientInv'
<1>1. s_connected' = FALSE /\ sock' = "none" /\ UNCHANGED <<applied, s_disc>>
  BY DEF dropConnection
<1>2. \A b \in Brokers : session'[b] # "live"
  <2>1. CASE s_connected /\ Delivered /\ goodbye
    BY <2>1 DEF goodbye, Delivered, MqttInv, TypeOK, ClientInv
  <2>2. CASE ~(s_connected /\ Delivered) /\ UNCHANGED <<avail, session>>
    BY <2>2 DEF Delivered, ClientInv
  <2>3. QED
    BY <2>1, <2>2 DEF dropConnection
<1>3. QED
  BY <1>1, <1>2 DEF ClientInv

LEMMA AdoptConfigClient ==
    ASSUME ClientInv, adoptConfig
    PROVE  ClientInv'
  BY DEF ClientInv, adoptConfig, buildDiscovery, pass, connVars, brokerVars

LEMMA GateClient ==
    ASSUME ClientInv, gate
    PROVE  ClientInv'
  BY DEF ClientInv, gate, pass, connVars, brokerVars

LEMMA ConnectOkClient ==
    ASSUME MqttInv, ClientInv, connectOk
    PROVE  ClientInv'
<1>1. \A b \in Brokers : session[b] # "live"
  BY DEF ClientInv, connectOk, pass
<1>2. PICK b \in Brokers : peer' = b /\ session' = [session EXCEPT ![b] = "live"]
  BY DEF connectOk
<1>3. \A c \in Brokers : session'[c] = "live" => c = b
  BY <1>1, <1>2 DEF MqttInv, TypeOK
<1>4. QED
  BY <1>2, <1>3 DEF ClientInv, connectOk, pass

LEMMA PollLostClient ==
    ASSUME ClientInv, pollLost
    PROVE  ClientInv'
  BY DEF ClientInv, pollLost, pass, brokerVars

LEMMA LinkLostClient ==
    ASSUME ClientInv, linkLost
    PROVE  ClientInv'
<1>1. \A b \in Brokers : session'[b] # "live"
  BY DEF linkLost, Broken
<1>2. QED
  BY <1>1 DEF ClientInv, linkLost, Broken

LEMMA LastWillClient ==
    ASSUME MqttInv, ClientInv, lastWill
    PROVE  ClientInv'
<1>1. PICK b \in Brokers : session' = [session EXCEPT ![b] = "none"]
  BY DEF lastWill
<1>2. \A c \in Brokers : session'[c] = "live" => session[c] = "live"
  BY <1>1 DEF MqttInv, TypeOK
<1>3. QED
  BY <1>2 DEF ClientInv, lastWill, clientVars, connVars

LEMMA ResetClient ==
    ASSUME Reset
    PROVE  ClientInv'
<1>1. \A b \in Brokers : session'[b] # "live"
  BY DEF Reset
<1>2. QED
  BY <1>1 DEF ClientInv, Reset

LEMMA ClientStep ==
    ASSUME MqttInv, ClientInv, [Next]_vars
    PROVE  ClientInv'
<1>1. CASE mqttLoop
  <2>1. CASE dropConnection \/ adoptConfig \/ gate
    BY <2>1, DropConnectionClient, AdoptConfigClient, GateClient
  <2>2. CASE diffConfig \/ pollAlive
    BY <2>2, QuietClient DEF diffConfig, pollAlive, pass, clientVars, brokerVars
  <2>3. CASE announce \/ restOfLoop
    BY <2>3, QuietClient DEF announce, restOfLoop, pass, clientVars, brokerVars
  <2>4. CASE publishStateAll \/ publishChanges
    BY <2>4, QuietClient DEF publishStateAll, publishChanges, pass
  <2>5. QED
    BY <1>1, <2>1, <2>2, <2>3, <2>4 DEF mqttLoop
<1>2. CASE connecting \/ pollLost
  <2>1. CASE connectFails
    BY <2>1, QuietClient DEF connectFails, pass, brokerVars
  <2>2. QED
    BY <1>2, <2>1, ConnectOkClient, PollLostClient DEF connecting
<1>3. CASE handleMqtt \/ Tick
  BY <1>3, QuietClient DEF handleMqtt, setMqtt, setDeviceName, Tick, clientVars, brokerVars
<1>4. CASE network
  <2>1. CASE linkBack
    BY <2>1, QuietClient DEF linkBack, clientVars, brokerVars
  <2>2. QED
    BY <1>4, <2>1, LinkLostClient, LastWillClient DEF network
<1>5. CASE Reset
  BY <1>5, ResetClient
<1>6. CASE UNCHANGED vars
  BY <1>6, QuietClient DEF vars, clientVars, brokerVars
<1>7. QED
  BY <1>1, <1>2, <1>3, <1>4, <1>5, <1>6 DEF Next

LEMMA ClientInvariant == Spec => []ClientInv
<1>1. Init => ClientInv
  BY ClientInit
<1>2. MqttInv /\ ClientInv /\ [Next]_vars => ClientInv'
  BY ClientStep
<1>3. QED
  BY <1>1, <1>2, MqttInvariant, PTL DEF Spec

-----------------------------------------------------------------------------
(* What the brokers are promised, one lemma for each step that they see.    *)

\* A connection that stands is to a broker, which has the will.
LEMMA StandsAtBroker ==
    ASSUME MqttInv, sock = "up"
    PROVE  standsAt = peer /\ peer \in Brokers /\ standsAt # NoBroker
  BY MqttAssumption DEF MqttInv, standsAt

LEMMA ShownInit ==
    ASSUME Init
    PROVE  Shown!Init
<1>1. standsAt = NoBroker /\ willsAt = {}
  BY DEF Init, standsAt, willsAt
<1>2. applied.name \in Names
  BY DEF Init, Settings
<1>3. QED
  BY <1>1, <1>2 DEF Init, Shown!Init

\* Steps that touch neither the brokers nor the connection are not seen.
LEMMA NotSeen ==
    ASSUME UNCHANGED <<machine, sock, peer, session, avail, retained, disc, applied.name>>
    PROVE  UNCHANGED Shown!vars
  BY DEF Shown!vars, standsAt, willsAt

\* A step that leaves no connection and the brokers as they are is a loss.
LEMMA DownIsLose ==
    ASSUME sock' # "up", applied.name' \in Names, willsAt' = willsAt,
           UNCHANGED <<machine, avail, retained, disc>>
    PROVE  Shown!Lose
  BY DEF Shown!Lose, Shown!CutShort, standsAt

LEMMA DropConnectionIsLeave ==
    ASSUME MqttInv, ClientInv, dropConnection
    PROVE  Shown!Leave \/ Shown!Lose
<1>1. /\ sock' = "none" /\ UNCHANGED <<machine, applied, retained, disc>>
  BY DEF dropConnection, pass, envVars
<1>2. CASE s_connected /\ Delivered /\ goodbye
  <2>1. standsAt = peer /\ peer \in Brokers /\ standsAt # NoBroker /\ standsAt' = NoBroker
    BY <1>1, <1>2, StandsAtBroker DEF Delivered, standsAt
  <2>2. willsAt' = willsAt \ {peer}
    BY <1>2, <2>1 DEF goodbye, willsAt, MqttInv, TypeOK
  <2>3. QED
    BY <1>1, <1>2, <2>1, <2>2 DEF Shown!Leave, goodbye
<1>3. CASE UNCHANGED <<avail, session>>
  <2>1. applied.name' \in Names
    BY <1>1 DEF MqttInv, TypeOK, Settings
  <2>2. QED
    BY <1>1, <1>3, <2>1, DownIsLose DEF willsAt
<1>4. QED
  BY <1>2, <1>3 DEF dropConnection

LEMMA AdoptConfigIsLose ==
    ASSUME MqttInv, ClientInv, adoptConfig
    PROVE  Shown!Lose
<1>1. sock' # "up"
  BY DEF ClientInv, adoptConfig, pass, connVars
<1>2. applied.name' \in Names
  BY DEF MqttInv, TypeOK, Settings, adoptConfig
<1>3. QED
  BY <1>1, <1>2, DownIsLose DEF adoptConfig, pass, brokerVars, envVars, willsAt

LEMMA ConnectOkIsJoin ==
    ASSUME MqttInv, ClientInv, connectOk
    PROVE  \E b \in Brokers : Shown!Join(b)
<1>1. PICK b \in Brokers :
          /\ peer' = b
          /\ session' = [session EXCEPT ![b] = "live"]
          /\ avail' = IF session[b] = "stale" THEN [avail EXCEPT ![b] = "offline"] ELSE avail
  BY DEF connectOk
<1>2. standsAt = NoBroker /\ standsAt' = b
  BY <1>1 DEF standsAt, ClientInv, connectOk, pass
<1>3. willsAt' = willsAt \cup {b}
  BY <1>1 DEF willsAt, MqttInv, TypeOK
<1>4. b \in willsAt <=> session[b] = "stale"
  BY DEF willsAt, MqttInv, TypeOK, ClientInv, connectOk, pass
<1>5. UNCHANGED <<machine, applied, retained, disc>>
  BY DEF connectOk, pass, envVars
<1>6. Shown!Join(b)
  BY <1>1, <1>2, <1>3, <1>4, <1>5 DEF Shown!Join
<1>7. QED
  BY <1>6

LEMMA AnnounceIsGreet ==
    ASSUME MqttInv, ClientInv, announce
    PROVE  Shown!Greet \/ UNCHANGED Shown!vars
<1>1. UNCHANGED <<machine, sock, peer, session, retained, applied>>
  BY DEF announce, pass, clientVars, connVars, envVars
<1>2. CASE Delivered
  <2>1. standsAt = peer /\ standsAt # NoBroker
    BY <1>2, StandsAtBroker DEF Delivered
  <2>2. standsAt' = standsAt /\ willsAt' = willsAt
    BY <1>1 DEF standsAt, willsAt
  <2>3. avail' = [avail EXCEPT ![peer] = "online"] /\ disc' = [disc EXCEPT ![peer] = applied.name]
    BY <1>2 DEF announce, ClientInv
  <2>4. QED
    BY <1>1, <2>1, <2>2, <2>3 DEF Shown!Greet
<1>3. CASE ~Delivered
  BY <1>1, <1>3, NotSeen DEF announce
<1>4. QED
  BY <1>2, <1>3

\* All of the state or only what changed: the broker is left with all of it.
LEMMA PublishIsTell ==
    ASSUME MqttInv, publishStateAll \/ publishChanges
    PROVE  Shown!Tell \/ UNCHANGED Shown!vars
<1>1. UNCHANGED <<machine, sock, peer, session, avail, disc, applied>>
  BY DEF publishStateAll, publishChanges, pass, connVars, envVars
<1>2. CASE Delivered
  <2>1. standsAt = peer /\ standsAt # NoBroker
    BY <1>2, StandsAtBroker DEF Delivered
  <2>2. standsAt' = standsAt /\ willsAt' = willsAt
    BY <1>1 DEF standsAt, willsAt
  <2>3. retained' = [retained EXCEPT ![peer] = machine]
    BY <1>2, ChangesComplete DEF publishStateAll, publishState
  <2>4. QED
    BY <1>1, <2>1, <2>2, <2>3 DEF Shown!Tell
<1>3. CASE ~Delivered
  <2>1. retained' = retained
    BY <1>3 DEF publishStateAll, publishState, publishChanges
  <2>2. QED
    BY <1>1, <2>1, NotSeen
<1>4. QED
  BY <1>2, <1>3

LEMMA PollLostIsNotSeen ==
    ASSUME pollLost
    PROVE  UNCHANGED Shown!vars
  BY DEF pollLost, pass, brokerVars, envVars, Shown!vars, standsAt, willsAt

\* What a step cut short had published is what the abstract one allows.
LEMMA PartIsCutShort ==
    ASSUME MqttInv, partOfStep
    PROVE  Shown!CutShort
<1>1. CASE UNCHANGED <<avail, retained>>
  BY <1>1 DEF Shown!CutShort
<1>2. CASE Delivered
  <2>1. standsAt = peer /\ standsAt # NoBroker
    BY <1>2, StandsAtBroker DEF Delivered
  <2>2. QED
    BY <2>1 DEF partOfStep, Shown!CutShort
<1>3. QED
  BY <1>1, <1>2 DEF partOfStep

LEMMA LinkLostIsLose ==
    ASSUME MqttInv, linkLost
    PROVE  Shown!Lose
<1>1. standsAt' = NoBroker
  BY DEF linkLost, Broken, MqttInv, TypeOK, standsAt
<1>2. applied.name' \in Names
  BY DEF linkLost, MqttInv, TypeOK, Settings
<1>3. willsAt' = willsAt
  BY DEF linkLost, Broken, willsAt
<1>4. QED
  BY <1>1, <1>2, <1>3, PartIsCutShort DEF Shown!Lose, linkLost

LEMMA ResetIsLose ==
    ASSUME MqttInv, Reset
    PROVE  Shown!Lose
<1>1. standsAt' = NoBroker
  BY DEF Reset, standsAt
<1>2. applied.name' \in Names
  BY DEF Reset, MqttInv, TypeOK, Settings
<1>3. willsAt' = willsAt
  BY DEF Reset, willsAt
<1>4. QED
  BY <1>1, <1>2, <1>3, PartIsCutShort DEF Shown!Lose, Reset

LEMMA LastWillIsWill ==
    ASSUME MqttInv, lastWill
    PROVE  \E b \in Brokers : Shown!Will(b)
<1>1. PICK b \in Brokers :
          /\ session[b] = "stale"
          /\ session' = [session EXCEPT ![b] = "none"]
          /\ avail' = [avail EXCEPT ![b] = "offline"]
  BY DEF lastWill
<1>2. UNCHANGED <<machine, sock, peer, applied, retained, disc>>
  BY DEF lastWill, clientVars, connVars, envVars
<1>3. b \in willsAt \ {standsAt}
  BY <1>1, MqttAssumption DEF willsAt, standsAt, MqttInv
<1>4. willsAt' = willsAt \ {b} /\ standsAt' = standsAt
  BY <1>1, <1>2 DEF willsAt, standsAt, MqttInv, TypeOK
<1>5. Shown!Will(b)
  BY <1>1, <1>2, <1>3, <1>4 DEF Shown!Will
<1>6. QED
  BY <1>5

LEMMA RestOfLoopIsWork ==
    ASSUME restOfLoop
    PROVE  Shown!Work
  BY DEF restOfLoop, clientVars, connVars, brokerVars, Shown!Work, standsAt, willsAt

LEMMA ShownStep ==
    ASSUME MqttInv, ClientInv, [Next]_vars
    PROVE  [Shown!Next]_(Shown!vars)
<1>1. CASE dropConnection \/ adoptConfig
  BY <1>1, DropConnectionIsLeave, AdoptConfigIsLose DEF Shown!Next
<1>2. CASE announce
  BY <1>2, AnnounceIsGreet DEF Shown!Next
<1>3. CASE publishStateAll \/ publishChanges
  BY <1>3, PublishIsTell DEF Shown!Next
<1>4. CASE restOfLoop
  BY <1>4, RestOfLoopIsWork DEF Shown!Next
<1>5. CASE connectOk
  BY <1>5, ConnectOkIsJoin DEF Shown!Next
<1>6. CASE linkLost \/ Reset
  BY <1>6, LinkLostIsLose, ResetIsLose DEF Shown!Next
<1>7. CASE lastWill
  BY <1>7, LastWillIsWill DEF Shown!Next
<1>8. CASE diffConfig \/ gate \/ pollAlive \/ connectFails
  BY <1>8, NotSeen DEF diffConfig, gate, pollAlive, connectFails, pass, clientVars, connVars,
                       brokerVars, envVars
<1>9. CASE handleMqtt \/ linkBack \/ Tick
  BY <1>9, NotSeen DEF handleMqtt, setMqtt, setDeviceName, linkBack, Tick, clientVars, connVars,
                       brokerVars, envVars
<1>10. CASE pollLost
  BY <1>10, PollLostIsNotSeen
<1>11. CASE UNCHANGED vars
  BY <1>11, NotSeen DEF vars, clientVars, connVars, brokerVars, envVars
<1>12. QED
  BY <1>1, <1>2, <1>3, <1>4, <1>5, <1>6, <1>7, <1>8, <1>9, <1>10, <1>11
     DEF Next, mqttLoop, connecting, network

\* The publisher keeps what the brokers are promised, in every order of saves,
\* losses, wills and resets: change detection by what is remembered leaves a
\* broker with the same state as publishing all of it would.
THEOREM MqttImplementsRetainedState == Spec => ImplementsRetainedState
<1>1. Init => Shown!Init
  BY ShownInit
<1>2. MqttInv /\ ClientInv /\ [Next]_vars => [Shown!Next]_(Shown!vars)
  BY ShownStep
<1>3. QED
  BY <1>1, <1>2, MqttInvariant, ClientInvariant, PTL
     DEF Spec, ImplementsRetainedState, Shown!Spec

=============================================================================
