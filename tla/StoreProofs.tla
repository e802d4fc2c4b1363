---------------------------- MODULE StoreProofs -----------------------------
(***************************************************************************)
(* Theorems about the configuration store and the web sessions, for every  *)
(* set of passwords and values and any number of resets.                   *)
(***************************************************************************)
EXTENDS Store, TLAPS

-----------------------------------------------------------------------------
(* The keys and the calls.                                                  *)

\* Each setting has at least one key, and no key is named like another call.
LEMMA KeysOfSetting ==
    ASSUME NEW s \in Settings
    PROVE  /\ Len(KeysOf[s]) \in Nat \ {0} /\ DOMAIN KeysOf[s] = 1 .. Len(KeysOf[s])
           /\ ToSet(KeysOf[s]) \subseteq Keys
           /\ \A k \in ToSet(KeysOf[s]) : k \notin {"begin", "clear", "end"}
           /\ s # "password" => "passHash" \notin ToSet(KeysOf[s])
<1>1. s \in {"password", "wifi", "mqtt"}
  BY StoreAssumption
<1>2. ToSet(KeysOf[s]) \subseteq Keys
  BY DEF Keys
<1>3. CASE s = "password"
  <2>1. KeysOf[s] = <<"passHash">>
    BY <1>3 DEF KeysOf
  <2>2. ToSet(KeysOf[s]) = {"passHash"}
    BY <2>1 DEF ToSet
  <2>3. QED
    BY <1>2, <1>3, <2>1, <2>2
<1>4. CASE s = "wifi"
  <2>1. KeysOf[s] = <<"wifiSsid", "wifiPass">>
    BY <1>4 DEF KeysOf
  <2>2. ToSet(KeysOf[s]) = {"wifiSsid", "wifiPass"}
    BY <2>1 DEF ToSet
  <2>3. QED
    BY <1>2, <2>1, <2>2
<1>5. CASE s = "mqtt"
  <2>1. KeysOf[s]
          = <<"mqttEnabled", "mqttHost", "mqttPort", "mqttUser", "mqttPass", "deviceName">>
    BY <1>5 DEF KeysOf
  <2>2. ToSet(KeysOf[s])
          = {"mqttEnabled", "mqttHost", "mqttPort", "mqttUser", "mqttPass", "deviceName"}
    BY <2>1 DEF ToSet
  <2>3. QED
    BY <1>2, <2>1, <2>2
<1>6. QED
  BY <1>1, <1>3, <1>4, <1>5

LEMMA KeysAre ==
    /\ "passHash" \in Keys
    /\ \A k \in Keys : k \notin {"begin", "clear", "end"}
<1>1. ToSet(KeysOf["password"]) = {"passHash"}
  BY DEF KeysOf, ToSet
<1>2. "passHash" \in Keys
  BY <1>1, StoreAssumption DEF Keys
<1>3. QED
  BY <1>2, KeysOfSetting DEF Keys

\* The place of a call among the three of its key.
LEMMA OfThree ==
    ASSUME NEW n \in Nat, NEW i \in 1 .. 3 * n
    PROVE  /\ i % 3 = 1 => i + 1 \in 1 .. 3 * n /\ (i + 1) % 3 = 2
           /\ i % 3 = 2 => i + 1 \in 1 .. 3 * n /\ (i + 1) % 3 = 0
           /\ i % 3 = 0 /\ i < 3 * n => i + 1 \in 1 .. 3 * n /\ (i + 1) % 3 = 1
<1>1. (3 * n) % 3 = 0
  OBVIOUS
<1>2. i % 3 # 0 => i # 3 * n
  BY <1>1
<1>3. QED
  BY <1>2

\* The calls of a setter: in order, for each of its keys and for no other.
LEMMA SaveCalls ==
    ASSUME NEW s \in Settings
    PROVE  /\ saveCalls(s) \in Seq(Call)
           /\ InOrder(saveCalls(s))
           /\ saveCalls(s) # <<>> /\ saveCalls(s)[1] = "begin"
           /\ \A i \in DOMAIN saveCalls(s) :
                 saveCalls(s)[i] \in ToSet(KeysOf[s]) \cup {"begin", "end"}
           /\ \A k \in ToSet(KeysOf[s]) : \E i \in DOMAIN saveCalls(s) : saveCalls(s)[i] = k
<1> DEFINE n == Len(KeysOf[s])
           cs == saveCalls(s)
<1>1. n \in Nat /\ n > 0 /\ DOMAIN KeysOf[s] = 1 .. n
  BY KeysOfSetting
<1>2. /\ DOMAIN cs = 1 .. 3 * n
      /\ \A i \in 1 .. 3 * n :
            /\ i % 3 = 1 => cs[i] = "begin"
            /\ i % 3 = 2 => cs[i] = KeysOf[s][(i + 1) \div 3]
            /\ i % 3 = 0 => cs[i] = "end"
  BY DEF saveCalls
<1>3. \A i \in 1 .. 3 * n : i % 3 = 2 => (i + 1) \div 3 \in 1 .. n
  BY <1>1
<1>4. \A j \in 1 .. n : KeysOf[s][j] \in ToSet(KeysOf[s])
  BY <1>1 DEF ToSet
<1>5. \A i \in 1 .. 3 * n : i % 3 = 2 => cs[i] \in ToSet(KeysOf[s])
  BY <1>2, <1>3, <1>4
<1>6. \A i \in 1 .. 3 * n : i % 3 \in {0, 1, 2}
  BY <1>1
<1>7. \A i \in DOMAIN cs : cs[i] \in ToSet(KeysOf[s]) \cup {"begin", "end"}
  BY <1>2, <1>5, <1>6
<1>8. cs \in Seq(Call)
  <2>1. \A i \in 1 .. 3 * n : cs[i] \in Call
    BY <1>2, <1>7, KeysOfSetting DEF Call
  <2>2. cs = [i \in 1 .. 3 * n |-> cs[i]]
    BY DEF saveCalls
  <2>3. 3 * n \in Nat
    BY <1>1
  <2>4. QED
    BY <2>1, <2>2, <2>3
<1>9. Len(cs) = 3 * n
  BY <1>1, <1>2, <1>8
<1>10. InOrder(cs)
  <2> SUFFICES ASSUME NEW i \in 1 .. 3 * n
               PROVE  /\ cs[i] = "begin" => i < 3 * n /\ cs[i + 1] \in Keys \cup {"clear"}
                      /\ cs[i] = "end" /\ i < 3 * n => cs[i + 1] = "begin"
                      /\ cs[i] \in Keys \cup {"clear"} => i < 3 * n /\ cs[i + 1] = "end"
    BY <1>2, <1>9 DEF InOrder
  <2>1. CASE i % 3 = 1
    <3>1. i + 1 \in 1 .. 3 * n /\ (i + 1) % 3 = 2
      BY <1>1, <2>1, OfThree
    <3>2. cs[i] = "begin" /\ cs[i + 1] \in Keys
      BY <1>2, <1>5, <2>1, <3>1, KeysOfSetting
    <3>3. QED
      BY <3>1, <3>2, <1>1, KeysAre
  <2>2. CASE i % 3 = 2
    <3>1. i + 1 \in 1 .. 3 * n /\ (i + 1) % 3 = 0
      BY <1>1, <2>2, OfThree
    <3>2. cs[i] \in Keys /\ cs[i + 1] = "end"
      BY <1>2, <1>5, <2>2, <3>1, KeysOfSetting
    <3>3. QED
      BY <3>1, <3>2, <1>1, KeysAre
  <2>3. CASE i % 3 = 0
    <3>1. i < 3 * n => i + 1 \in 1 .. 3 * n /\ (i + 1) % 3 = 1
      BY <1>1, <2>3, OfThree
    <3>2. cs[i] = "end"
      BY <1>2, <2>3
    <3>3. i < 3 * n => cs[i + 1] = "begin"
      BY <1>2, <3>1
    <3>4. "end" \notin Keys \cup {"clear"}
      BY KeysAre
    <3>5. QED
      BY <3>2, <3>3, <3>4
  <2>4. QED
    BY <1>6, <2>1, <2>2, <2>3
<1>11. cs # <<>> /\ cs[1] = "begin"
  BY <1>1, <1>2, <1>8, <1>9
<1>12. \A k \in ToSet(KeysOf[s]) : \E i \in DOMAIN cs : cs[i] = k
  <2> SUFFICES ASSUME NEW j \in 1 .. n
               PROVE  \E i \in DOMAIN cs : cs[i] = KeysOf[s][j]
    BY <1>1 DEF ToSet
  <2>1. /\ 3 * j - 1 \in 1 .. 3 * n
        /\ (3 * j - 1) % 3 = 2
        /\ ((3 * j - 1) + 1) \div 3 = j
    BY <1>1
  <2>2. QED
    BY <1>2, <2>1
<1>13. QED
  BY <1>7, <1>8, <1>10, <1>11, <1>12

LEMMA WipeCalls ==
    /\ wipeCalls \in Seq(Call) /\ InOrder(wipeCalls)
    /\ wipeCalls # <<>> /\ wipeCalls[1] = "begin"
    /\ \A i \in DOMAIN wipeCalls : wipeCalls[i] \in {"begin", "clear", "end"}
    /\ \E i \in DOMAIN wipeCalls : wipeCalls[i] = "clear"
<1>1. /\ wipeCalls \in Seq(Call) /\ Len(wipeCalls) = 3
      /\ wipeCalls[1] = "begin" /\ wipeCalls[2] = "clear" /\ wipeCalls[3] = "end"
  BY DEF wipeCalls, Call
<1>2. \A i \in DOMAIN wipeCalls : i \in {1, 2, 3}
  BY <1>1
<1>3. InOrder(wipeCalls)
  BY <1>1, <1>2, KeysAre DEF InOrder
<1>4. wipeCalls # <<>> /\ \E i \in DOMAIN wipeCalls : wipeCalls[i] = "clear"
  BY <1>1
<1>5. QED
  BY <1>1, <1>2, <1>3, <1>4

\* What is left after a call is the calls but the first, in the same order.
LEMMA TailCalls ==
    ASSUME NEW cs \in Seq(Call), cs # <<>>
    PROVE  /\ Tail(cs) \in Seq(Call)
           /\ Head(cs) = cs[1] /\ cs[1] \in Call
           /\ Len(Tail(cs)) = Len(cs) - 1
           /\ \A i \in DOMAIN Tail(cs) : i + 1 \in DOMAIN cs /\ Tail(cs)[i] = cs[i + 1]
           /\ \A i \in DOMAIN cs : i # 1 => i - 1 \in DOMAIN Tail(cs) /\ Tail(cs)[i - 1] = cs[i]
           /\ InOrder(cs) => InOrder(Tail(cs))
<1>1. /\ Tail(cs) \in Seq(Call) /\ Len(Tail(cs)) = Len(cs) - 1
      /\ Head(cs) = cs[1] /\ cs[1] \in Call /\ Len(cs) \in Nat
      /\ \A i \in 1 .. Len(cs) - 1 : Tail(cs)[i] = cs[i + 1]
  OBVIOUS
<1>2. DOMAIN cs = 1 .. Len(cs) /\ DOMAIN Tail(cs) = 1 .. Len(cs) - 1
  BY <1>1
<1>3. /\ \A i \in DOMAIN Tail(cs) : i + 1 \in DOMAIN cs /\ Tail(cs)[i] = cs[i + 1]
      /\ \A i \in DOMAIN cs : i # 1 => i - 1 \in DOMAIN Tail(cs) /\ Tail(cs)[i - 1] = cs[i]
  BY <1>1, <1>2
<1>4. ASSUME InOrder(cs)
      PROVE  InOrder(Tail(cs))
  <2> SUFFICES ASSUME NEW i \in 1 .. Len(cs) - 1
               PROVE  /\ cs[i + 1] = "begin"
                           => i < Len(cs) - 1 /\ Tail(cs)[i + 1] \in Keys \cup {"clear"}
                      /\ cs[i + 1] = "end" /\ i < Len(cs) - 1 => Tail(cs)[i + 1] = "begin"
                      /\ cs[i + 1] \in Keys \cup {"clear"}
                           => i < Len(cs) - 1 /\ Tail(cs)[i + 1] = "end"
    BY <1>1, <1>2 DEF InOrder
  <2>1. i + 1 \in DOMAIN cs /\ (i < Len(cs) - 1 <=> i + 1 < Len(cs))
    BY <1>1, <1>2
  <2>2. i < Len(cs) - 1 => Tail(cs)[i + 1] = cs[(i + 1) + 1]
    BY <1>1
  <2>3. QED
    BY <1>4, <2>1, <2>2 DEF InOrder
<1>5. QED
  BY <1>1, <1>3, <1>4

\* What follows the first call, by its kind.
LEMMA HeadInOrder ==
    ASSUME NEW cs \in Seq(Call), cs # <<>>, InOrder(cs)
    PROVE  /\ cs[1] = "begin" => 1 < Len(cs) /\ cs[2] \in Keys \cup {"clear"}
           /\ cs[1] = "end" /\ 1 < Len(cs) => cs[2] = "begin"
           /\ cs[1] \in Keys \cup {"clear"} => 1 < Len(cs) /\ cs[2] = "end"
<1>1. 1 \in DOMAIN cs
  OBVIOUS
<1>2. \A i \in DOMAIN cs :
         /\ cs[i] = "begin" => i < Len(cs) /\ cs[i + 1] \in Keys \cup {"clear"}
         /\ cs[i] = "end" /\ i < Len(cs) => cs[i + 1] = "begin"
         /\ cs[i] \in Keys \cup {"clear"} => i < Len(cs) /\ cs[i + 1] = "end"
  BY DEF InOrder
<1>3. /\ cs[1] = "begin" => 1 < Len(cs) /\ cs[1 + 1] \in Keys \cup {"clear"}
      /\ cs[1] = "end" /\ 1 < Len(cs) => cs[1 + 1] = "begin"
      /\ cs[1] \in Keys \cup {"clear"} => 1 < Len(cs) /\ cs[1 + 1] = "end"
  BY <1>1, <1>2, Zenon
<1>4. cs[1 + 1] = cs[2]
  OBVIOUS
<1>5. QED
  BY <1>3, <1>4, Zenon

-----------------------------------------------------------------------------
(* The inductive invariant, one lemma for each step.                        *)

LEMMA BlankType == Blank \in [Keys -> Values] /\ \A k \in Keys : Blank[k] = Default
  BY DEF Blank, Values

\* Idle tasks: nothing pending, the handle closed.
LEMMA NoCalls ==
    ASSUME calls = [t \in {"web", "loop"} |-> <<>>], doing = "idle", prefs = "closed"
    PROVE  PutsInv /\ WebAlone
<1>1. calls["web"] = <<>> /\ calls["loop"] = <<>>
  OBVIOUS
<1>2. \A c : ~Pending(c)
  BY <1>1 DEF Pending
<1>3. InOrder(<<>>)
  BY DEF InOrder
<1>4. Saving = {}
  BY StoreAssumption DEF Saving
<1>5. QED
  BY <1>1, <1>2, <1>3, <1>4 DEF PutsInv, WebAlone

LEMMA StoreInit ==
    ASSUME Init
    PROVE  StoreInv
<1>1. calls = [t \in {"web", "loop"} |-> <<>>] /\ calls \in [{"web", "loop"} -> Seq(Call)]
  BY DEF Init
<1>2. TypeOK
  BY <1>1, BlankType, StoreAssumption DEF Init, TypeOK, Values
<1>3. ClockInv
  BY StoreAssumption DEF Init, ClockInv
<1>4. SessionInv
  BY BlankType, KeysAre DEF Init, SessionInv, authed
<1>5. PutsInv /\ WebAlone
  BY NoCalls DEF Init
<1>6. SavedSurvives /\ WebFactoryWipes
  BY DEF Init, SavedSurvives, WebFactoryWipes
<1>7. QED
  BY <1>2, <1>3, <1>4, <1>5, <1>6 DEF StoreInv

\* What a reset leaves is what the user goes by from then on.
LEMMA ResetInv ==
    ASSUME StoreInv, Reset
    PROVE  StoreInv'
<1>1. TypeOK /\ SessionInv
  BY DEF StoreInv
<1>2. calls' = [t \in {"web", "loop"} |-> <<>>] /\ calls' \in [{"web", "loop"} -> Seq(Call)]
  BY DEF Reset
<1>3. resets' \in 0 .. MaxResets
  BY <1>1, StoreAssumption DEF Reset, TypeOK
<1>4. TypeOK'
  BY <1>1, <1>2, <1>3, BlankType, StoreAssumption DEF Reset, TypeOK, Values
<1>5. ClockInv'
  BY StoreAssumption DEF Reset, ClockInv
<1>6. SessionInv'
  BY <1>1, BlankType, KeysAre DEF Reset, SessionInv, authed
<1>7. PutsInv' /\ WebAlone'
  <2>1. Saving' = {}
    BY StoreAssumption DEF Reset, Saving
  <2>2. calls'["web"] = <<>> /\ calls'["loop"] = <<>>
    BY <1>2
  <2>3. \A c : ~Pending(c)'
    BY <2>2 DEF Pending
  <2>4. QED
    BY <2>1, <2>2, <2>3 DEF Reset, PutsInv, WebAlone, InOrder
<1>8. SavedSurvives' /\ WebFactoryWipes'
  BY DEF Reset, SavedSurvives, WebFactoryWipes
<1>9. QED
  BY <1>4, <1>5, <1>6, <1>7, <1>8 DEF StoreInv

\* Steps that leave the calls, the handle and NVS alone.
LEMMA SameCalls ==
    ASSUME PutsInv, lpc # "wiping" => WebAlone, UNCHANGED <<calls, prefs, nvs, doing, val>>,
           lpc' # "wiping" => lpc # "wiping", lpc' = "boot" => lpc = "boot"
    PROVE  PutsInv' /\ (lpc' # "wiping" => WebAlone')
  BY DEF PutsInv, WebAlone, Pending, Saving, InOrder

LEMMA LoadConfigInv ==
    ASSUME StoreInv, loadConfig
    PROVE  StoreInv'
<1>1. /\ TypeOK /\ ClockInv /\ SessionInv /\ PutsInv /\ WebAlone
      /\ SavedSurvives /\ WebFactoryWipes
  BY DEF StoreInv, loadConfig
<1>2. TypeOK'
  BY <1>1 DEF loadConfig, TypeOK, webVars, histVars
<1>3. ClockInv'
  BY <1>1 DEF loadConfig, ClockInv, webVars
<1>4. SessionInv'
  BY <1>1 DEF loadConfig, SessionInv, PutsInv, webVars, authed
<1>5. PutsInv' /\ WebAlone'
  BY <1>1, SameCalls DEF loadConfig, webVars
<1>6. SavedSurvives' /\ WebFactoryWipes'
  BY <1>1 DEF loadConfig, SavedSurvives, WebFactoryWipes, webVars, histVars
<1>7. QED
  BY <1>2, <1>3, <1>4, <1>5, <1>6 DEF StoreInv

\* A setter of the idle web task.
LEMMA SaveInv ==
    ASSUME StoreInv, Idle, NEW s \in Settings, NEW v \in Values, save(s, v),
           s = "password" => v \in Passwords
    PROVE  StoreInv'
<1>1. /\ TypeOK /\ ClockInv /\ SessionInv /\ PutsInv /\ (lpc # "wiping" => WebAlone)
      /\ SavedSurvives /\ WebFactoryWipes
  BY DEF StoreInv
<1>2. /\ lpc # "boot" /\ doing = "idle" /\ doing' = s /\ val' = v
      /\ config' = [k \in Keys |-> IF k \in ToSet(KeysOf[s]) THEN v ELSE config[k]]
      /\ calls' = [calls EXCEPT !["web"] = saveCalls(s)]
      /\ UNCHANGED <<time, resets, nvs, prefs, g_token, g_rebootAt, lpc, saved, since>>
  BY DEF Idle, save, histVars
<1>3. s # "idle" /\ s # "factory" /\ Saving' = ToSet(KeysOf[s])
  BY <1>2, StoreAssumption DEF Saving
<1>4. /\ calls' \in [{"web", "loop"} -> Seq(Call)]
      /\ calls'["web"] = saveCalls(s) /\ calls'["loop"] = calls["loop"]
  BY <1>1, <1>2, SaveCalls DEF TypeOK
<1>5. config' \in [Keys -> Values]
  BY <1>1, <1>2 DEF TypeOK
<1>6. TypeOK'
  BY <1>1, <1>2, <1>4, <1>5 DEF TypeOK
<1>7. ClockInv'
  BY <1>1, <1>2, <1>3 DEF ClockInv
<1>8. SessionInv'
  <2>1. CASE s = "password"
    <3>1. config'["passHash"] \in {v, config["passHash"]}
      BY <1>2, KeysAre
    <3>2. "passHash" \in ToSet(KeysOf[s])
      BY <2>1 DEF KeysOf, ToSet
    <3>3. config'["passHash"] = v
      BY <1>2, <3>2, KeysAre
    <3>4. QED
      BY <1>1, <1>2, <2>1, <3>3 DEF SessionInv, authed
  <2>2. CASE s # "password"
    <3>1. config'["passHash"] = config["passHash"]
      BY <1>2, <2>2, KeysAre, KeysOfSetting
    <3>2. doing # "password"
      BY <1>2
    <3>3. QED
      BY <1>1, <1>2, <2>2, <3>1, <3>2 DEF SessionInv, authed
  <2>3. QED
    BY <2>1, <2>2
<1>9. PutsInv'
  <2>1. \A k \in Keys : Pending(k)' => k \in Saving'
    BY <1>3, <1>4, SaveCalls, KeysAre DEF Pending
  <2>2. QED
    BY <1>1, <1>2, <1>3, <1>4, <2>1 DEF PutsInv
<1>10. ASSUME lpc' # "wiping"
       PROVE  WebAlone'
  <2>1. calls["web"] = <<>> /\ prefs = "closed" /\ calls["loop"] = <<>>
    BY <1>1, <1>2, <1>10 DEF PutsInv, WebAlone
  <2>2. \A k \in Saving' : Pending(k)'
    BY <1>3, <1>4, SaveCalls DEF Pending
  <2>3. ~Pending("clear")'
    BY <1>4, SaveCalls, KeysOfSetting DEF Pending
  <2>4. InOrder(calls'["web"]) /\ calls'["web"][1] = "begin"
    BY <1>4, SaveCalls
  <2>5. QED
    BY <1>2, <1>3, <1>4, <2>1, <2>2, <2>3, <2>4 DEF WebAlone, InOrder
<1>11. SavedSurvives' /\ WebFactoryWipes'
  BY <1>1, <1>2 DEF SavedSurvives, WebFactoryWipes
<1>12. QED
  BY <1>6, <1>7, <1>8, <1>9, <1>10, <1>11 DEF StoreInv

LEMMA HandleLoginInv ==
    ASSUME StoreInv, handleLogin
    PROVE  StoreInv'
<1>1. /\ TypeOK /\ ClockInv /\ SessionInv /\ PutsInv /\ (lpc # "wiping" => WebAlone)
      /\ SavedSurvives /\ WebFactoryWipes
  BY DEF StoreInv
<1>2. /\ lpc # "boot" /\ doing = "idle" /\ config["passHash"] # Default
      /\ g_token' = config["passHash"]
      /\ UNCHANGED <<time, resets, storeVars, doing, val, g_rebootAt, lpc, histVars>>
  BY DEF handleLogin, Idle
<1>3. g_token' \in Passwords
  BY <1>1, <1>2 DEF SessionInv
<1>4. TypeOK'
  BY <1>1, <1>2, <1>3 DEF TypeOK, storeVars, histVars
<1>5. SessionInv'
  BY <1>1, <1>2 DEF SessionInv, storeVars, authed
<1>6. PutsInv' /\ (lpc' # "wiping" => WebAlone')
  BY <1>1, <1>2, SameCalls DEF storeVars
<1>7. ClockInv' /\ SavedSurvives' /\ WebFactoryWipes'
  BY <1>1, <1>2 DEF ClockInv, SavedSurvives, WebFactoryWipes, storeVars, histVars
<1>8. QED
  BY <1>4, <1>5, <1>6, <1>7 DEF StoreInv

LEMMA HandleFactoryInv ==
    ASSUME StoreInv, handleFactory
    PROVE  StoreInv'
<1>1. /\ TypeOK /\ ClockInv /\ SessionInv /\ PutsInv /\ (lpc # "wiping" => WebAlone)
  BY DEF StoreInv
<1>2. /\ lpc # "boot" /\ doing = "idle" /\ doing' = "factory" /\ time <= MaxTime
      /\ config' = Blank /\ since' = {}
      /\ calls' = [calls EXCEPT !["web"] = wipeCalls]
      /\ UNCHANGED <<nvs, prefs, time, resets, val, g_token, g_rebootAt, lpc, saved>>
  BY DEF handleFactory, Idle, factoryReset
<1>3. /\ calls' \in [{"web", "loop"} -> Seq(Call)]
      /\ calls'["web"] = wipeCalls /\ calls'["loop"] = calls["loop"]
  BY <1>1, <1>2, WipeCalls DEF TypeOK
<1>4. TypeOK'
  BY <1>1, <1>2, <1>3, BlankType DEF TypeOK
<1>5. ClockInv'
  BY <1>1, <1>2, StoreAssumption DEF ClockInv, TypeOK
<1>6. SessionInv'
  BY <1>1, <1>2, BlankType, KeysAre DEF SessionInv, authed
<1>7. Saving' = {}
  BY <1>2, StoreAssumption DEF Saving
<1>8. Pending("clear")' /\ \A k \in Keys : ~Pending(k)'
  BY <1>3, WipeCalls, KeysAre DEF Pending
<1>9. PutsInv'
  BY <1>1, <1>2, <1>3, <1>8 DEF PutsInv
<1>10. ASSUME lpc' # "wiping"
       PROVE  WebAlone'
  <2>1. prefs = "closed" /\ calls["loop"] = <<>>
    BY <1>1, <1>2, <1>10 DEF PutsInv, WebAlone
  <2>2. QED
    BY <1>2, <1>3, <1>7, <1>8, <2>1, WipeCalls DEF WebAlone, InOrder
<1>11. SavedSurvives' /\ WebFactoryWipes'
  BY <1>2 DEF SavedSurvives, WebFactoryWipes
<1>12. QED
  BY <1>4, <1>5, <1>6, <1>9, <1>10, <1>11 DEF StoreInv

\* Once its calls are made, a handler's keys are in NVS, or NVS is blank.
LEMMA AnswerInv ==
    ASSUME StoreInv, answer
    PROVE  StoreInv'
<1>1. /\ TypeOK /\ ClockInv /\ SessionInv /\ PutsInv /\ (lpc # "wiping" => WebAlone)
      /\ SavedSurvives /\ WebFactoryWipes
  BY DEF StoreInv
<1>2. /\ doing # "idle" /\ calls["web"] = <<>> /\ doing' = "idle" /\ val' = Default
      /\ g_token' = IF doing = "password" THEN val ELSE g_token
      /\ g_rebootAt' = IF doing = "factory" THEN time + REBOOT_DELAY_MS ELSE g_rebootAt
      /\ saved' = IF doing = "factory" THEN Blank
                  ELSE [k \in Keys |-> IF k \in ToSet(KeysOf[doing]) THEN val ELSE saved[k]]
      /\ UNCHANGED <<time, resets, config, nvs, prefs, calls, lpc, since>>
  BY DEF answer, newSession, storeVars
<1>3. doing = "factory" \/ doing \in Settings
  BY <1>1, <1>2 DEF TypeOK
<1>4. \A c : ~Pending(c) /\ ~Pending(c)'
  BY <1>2 DEF Pending
<1>5. Saving' = {}
  BY <1>2, StoreAssumption DEF Saving
<1>6. saved' \in [Keys -> Values]
  BY <1>1, <1>2, BlankType DEF TypeOK
<1>7. g_token' \in Passwords \cup {NoSession}
  BY <1>1, <1>2 DEF TypeOK, SessionInv
<1>8. g_rebootAt' \in 0 .. MaxTime + 2 * REBOOT_DELAY_MS + 1 /\ ClockInv'
  <2>1. /\ MaxTime \in Nat /\ REBOOT_DELAY_MS \in Nat /\ time \in Nat
        /\ g_rebootAt \in 0 .. MaxTime + 2 * REBOOT_DELAY_MS + 1
    BY <1>1, StoreAssumption DEF TypeOK
  <2>2. CASE doing = "factory"
    <3>1. g_rebootAt' = time + REBOOT_DELAY_MS
      BY <1>2, <2>2
    <3>2. time <= MaxTime + REBOOT_DELAY_MS + 1
      BY <1>1, <2>2 DEF ClockInv
    <3>3. QED
      BY <1>2, <2>1, <3>1, <3>2 DEF ClockInv
  <2>3. CASE doing # "factory"
    BY <1>1, <1>2, <2>1, <2>3 DEF ClockInv
  <2>4. QED
    BY <2>2, <2>3
<1>9. TypeOK'
  BY <1>1, <1>2, <1>6, <1>7, <1>8 DEF TypeOK, Values
<1>10. SessionInv'
  BY <1>1, <1>2 DEF SessionInv, PutsInv, authed
<1>11. PutsInv'
  BY <1>1, <1>2, <1>4 DEF PutsInv
<1>12. lpc' # "wiping" => WebAlone'
  BY <1>1, <1>2, <1>4, <1>5 DEF WebAlone
<1>13. SavedSurvives' /\ WebFactoryWipes'
  <2> SUFFICES ASSUME lpc # "wiping", NEW k \in Keys
               PROVE  nvs[k] = saved'[k] /\ (nvs[k] # Default => k \in since)
    BY <1>2 DEF SavedSurvives, WebFactoryWipes
  <2>1. CASE doing = "factory"
    BY <1>1, <1>2, <1>4, <2>1, BlankType DEF WebAlone
  <2>2. CASE doing \in Settings /\ doing # "factory"
    <3>1. k \in ToSet(KeysOf[doing]) => nvs[k] = val
      BY <1>1, <1>4, <2>2 DEF WebAlone, Saving
    <3>2. saved'[k] = IF k \in ToSet(KeysOf[doing]) THEN val ELSE saved[k]
      BY <1>2, <2>2
    <3>3. QED
      BY <1>1, <2>2, <3>1, <3>2 DEF SavedSurvives, WebFactoryWipes
  <2>3. QED
    BY <1>3, <2>1, <2>2
<1>14. QED
  BY <1>8, <1>9, <1>10, <1>11, <1>12, <1>13 DEF StoreInv

LEMMA FactoryHoldInv ==
    ASSUME StoreInv, factoryHold
    PROVE  StoreInv'
<1>1. TypeOK /\ ClockInv /\ SessionInv /\ PutsInv
  BY DEF StoreInv
<1>2. /\ lpc = "web" /\ lpc' = "wiping"
      /\ config' = Blank /\ since' = {}
      /\ calls' = [calls EXCEPT !["loop"] = wipeCalls]
      /\ UNCHANGED <<nvs, prefs, time, resets, webVars, saved>>
  BY DEF factoryHold, factoryReset
<1>3. /\ calls' \in [{"web", "loop"} -> Seq(Call)]
      /\ calls'["loop"] = wipeCalls /\ calls'["web"] = calls["web"]
  BY <1>1, <1>2, WipeCalls DEF TypeOK
<1>4. TypeOK'
  BY <1>1, <1>2, <1>3, BlankType DEF TypeOK, webVars
<1>5. ClockInv'
  BY <1>1, <1>2 DEF ClockInv, webVars
<1>6. SessionInv'
  BY <1>1, <1>2, BlankType, KeysAre DEF SessionInv, webVars, authed
<1>7. PutsInv'
  BY <1>1, <1>2, <1>3, WipeCalls, KeysAre DEF PutsInv, Pending, Saving, webVars
<1>8. SavedSurvives' /\ WebFactoryWipes'
  BY <1>2 DEF SavedSurvives, WebFactoryWipes
<1>9. QED
  BY <1>2, <1>4, <1>5, <1>6, <1>7, <1>8 DEF StoreInv

LEMMA TickInv ==
    ASSUME StoreInv, Tick
    PROVE  StoreInv'
<1>1. /\ TypeOK /\ ClockInv /\ SessionInv /\ PutsInv /\ (lpc # "wiping" => WebAlone)
      /\ SavedSurvives /\ WebFactoryWipes
  BY DEF StoreInv
<1>2. /\ time < MaxTime \/ (g_rebootAt # 0 /\ time <= g_rebootAt)
      /\ time' = time + 1
      /\ UNCHANGED <<resets, storeVars, webVars, lpc, histVars>>
  BY DEF Tick
<1>3. time' \in 0 .. MaxTime + 2 * REBOOT_DELAY_MS + 2
  BY <1>1, <1>2, StoreAssumption DEF TypeOK
<1>4. TypeOK'
  BY <1>1, <1>2, <1>3 DEF TypeOK, storeVars, webVars, histVars
<1>5. ClockInv'
  BY <1>1, <1>2, StoreAssumption DEF ClockInv, TypeOK, webVars
<1>6. PutsInv' /\ (lpc' # "wiping" => WebAlone')
  BY <1>1, <1>2, SameCalls DEF storeVars, webVars
<1>7. SessionInv' /\ SavedSurvives' /\ WebFactoryWipes'
  BY <1>1, <1>2 DEF SessionInv, SavedSurvives, WebFactoryWipes, storeVars, webVars, histVars, authed
<1>8. QED
  BY <1>4, <1>5, <1>6, <1>7 DEF StoreInv

\* The next call of a task: the others stay, and NVS changes by a put or a clear
\* of a handle that is open for writing, or not at all.
LEMMA CallTypes ==
    ASSUME StoreInv, NEW t \in {"web", "loop"}, call(t)
    PROVE  /\ calls[t] \in Seq(Call) /\ calls[t] # <<>>
           /\ calls' \in [{"web", "loop"} -> Seq(Call)]
           /\ calls'[t] = Tail(calls[t])
           /\ \A u \in {"web", "loop"} : u # t => calls'[u] = calls[u]
           /\ nvs' \in [Keys -> Values]
           /\ TypeOK' /\ ClockInv'
           /\ UNCHANGED <<config, doing, val, g_token, lpc, saved>>
<1>1. TypeOK /\ ClockInv
  BY DEF StoreInv
<1>2. /\ calls[t] # <<>>
      /\ calls' = [calls EXCEPT ![t] = Tail(@)]
      /\ UNCHANGED <<time, resets, config, doing, val, g_token, g_rebootAt, lpc, saved>>
  BY DEF call, webVars
<1>3. calls[t] \in Seq(Call)
  BY <1>1 DEF TypeOK
<1>4. Tail(calls[t]) \in Seq(Call)
  BY <1>2, <1>3, TailCalls
<1>5. calls' \in [{"web", "loop"} -> Seq(Call)]
  BY <1>1, <1>2, <1>4 DEF TypeOK
<1>6. /\ calls'[t] = Tail(calls[t])
      /\ \A u \in {"web", "loop"} : u # t => calls'[u] = calls[u]
  BY <1>1, <1>2 DEF TypeOK
<1>7. DEFINE c == Head(calls[t])
<1>8. \/ c = "begin" /\ prefsBegin /\ UNCHANGED since
      \/ c = "end" /\ prefsEnd /\ UNCHANGED since
      \/ c \in Keys /\ prefsPut(c, val) /\ since' = since \cup {c}
      \/ c = "clear" /\ prefsClear /\ UNCHANGED since
  BY DEF call
<1>9. nvs' \in [Keys -> Values]
  <2>1. nvs \in [Keys -> Values] /\ val \in Values
    BY <1>1 DEF TypeOK
  <2> HIDE DEF c
  <2>2. QED
    BY <1>8, <2>1, BlankType DEF prefsBegin, prefsEnd, prefsPut, prefsClear
<1>10. prefs' \in {"closed", "read", "write"}
  <2>1. prefs \in {"closed", "read", "write"}
    BY <1>1 DEF TypeOK
  <2> HIDE DEF c
  <2>2. QED
    BY <1>8, <2>1 DEF prefsBegin, prefsEnd, prefsPut, prefsClear
<1>11. since' \subseteq Keys
  <2> HIDE DEF c
  <2>1. QED
    BY <1>1, <1>8 DEF TypeOK
<1>12. TypeOK'
  BY <1>1, <1>2, <1>5, <1>9, <1>10, <1>11 DEF TypeOK
<1>13. ClockInv'
  BY <1>1, <1>2 DEF ClockInv
<1>14. QED
  BY <1>2, <1>3, <1>5, <1>6, <1>9, <1>12, <1>13

LEMMA CallWebInv ==
    ASSUME StoreInv, call("web")
    PROVE  StoreInv'
<1> DEFINE cs == calls["web"]
           c == Head(cs)
<1>1. /\ TypeOK /\ SessionInv /\ PutsInv /\ (lpc # "wiping" => WebAlone)
      /\ SavedSurvives /\ WebFactoryWipes
  BY DEF StoreInv
<1>2. /\ cs \in Seq(Call) /\ cs # <<>>
      /\ calls'["web"] = Tail(cs) /\ calls'["loop"] = calls["loop"]
      /\ TypeOK' /\ ClockInv'
      /\ UNCHANGED <<config, doing, val, g_token, lpc, saved>>
  BY CallTypes
<1>3. \/ c = "begin" /\ prefsBegin /\ UNCHANGED since
      \/ c = "end" /\ prefsEnd /\ UNCHANGED since
      \/ c \in Keys /\ prefsPut(c, val) /\ since' = since \cup {c}
      \/ c = "clear" /\ prefsClear /\ UNCHANGED since
  BY DEF call
<1>4. /\ c = cs[1] /\ 1 \in DOMAIN cs /\ Len(Tail(cs)) = Len(cs) - 1 /\ Len(cs) \in Nat
      /\ Tail(cs) \in Seq(Call)
      /\ \A i \in DOMAIN Tail(cs) : i + 1 \in DOMAIN cs /\ Tail(cs)[i] = cs[i + 1]
      /\ \A i \in DOMAIN cs : i # 1 => i - 1 \in DOMAIN Tail(cs) /\ Tail(cs)[i - 1] = cs[i]
      /\ InOrder(cs) => InOrder(Tail(cs))
  <2>1. 1 \in DOMAIN cs /\ Len(cs) \in Nat
    BY <1>2
  <2>2. QED
    BY <1>2, <2>1, TailCalls
<1> HIDE DEF cs, c
\* The calls still pending are those that were, but for this one.
<1>5. Pending(c) /\ \A x : /\ Pending(x)' => Pending(x)
                           /\ Pending(x) => x = c \/ Pending(x)'
  <2>1. /\ \A x : Pending(x) <=> \E i \in DOMAIN cs : cs[i] = x
        /\ \A x : Pending(x)' <=> \E i \in DOMAIN Tail(cs) : Tail(cs)[i] = x
    BY <1>2 DEF Pending, cs
  <2>2. Pending(c)
    BY <1>4, <2>1
  <2>3. ASSUME NEW x, Pending(x)'
        PROVE  Pending(x)
    BY <1>4, <2>1, <2>3
  <2>4. ASSUME NEW x, Pending(x), x # c
        PROVE  Pending(x)'
    <3>1. PICK i \in DOMAIN cs : cs[i] = x
      BY <2>1, <2>4
    <3>2. i # 1
      BY <1>4, <2>4, <3>1
    <3>3. i - 1 \in DOMAIN Tail(cs) /\ Tail(cs)[i - 1] = x
      BY <1>4, <3>1, <3>2
    <3>4. QED
      BY <2>1, <3>3
  <2>5. QED
    BY <2>2, <2>3, <2>4
<1>6. doing # "idle" /\ (c \in Keys => c \in Saving)
  BY <1>1, <1>2, <1>5 DEF PutsInv, cs
<1>7. SessionInv'
  <2>1. nvs'["passHash"] \in Passwords \cup {Default}
    <3>1. nvs \in [Keys -> Values] /\ nvs["passHash"] \in Passwords \cup {Default}
      BY <1>1 DEF TypeOK, SessionInv
    <3>2. CASE c = "passHash"
      <4>1. c \in Saving
        BY <1>6, <3>2, KeysAre
      <4>2. doing \in Settings /\ c \in ToSet(KeysOf[doing])
        BY <4>1 DEF Saving
      <4>3. val \in Passwords
        BY <1>1, <3>2, <4>2, KeysOfSetting DEF SessionInv
      <4>4. QED
        BY <1>3, <3>1, <3>2, <4>3, KeysAre, BlankType
           DEF prefsBegin, prefsEnd, prefsPut, prefsClear
    <3>3. CASE c # "passHash"
      BY <1>3, <3>1, <3>3, KeysAre, BlankType DEF prefsBegin, prefsEnd, prefsPut, prefsClear
    <3>4. QED
      BY <3>2, <3>3
  <2>2. QED
    BY <1>1, <1>2, <2>1 DEF SessionInv, authed
<1>8. Saving' = Saving
  BY <1>2 DEF Saving
<1>9. PutsInv'
  BY <1>1, <1>2, <1>5, <1>6, <1>8 DEF PutsInv
<1>10. ASSUME lpc' # "wiping"
       PROVE  WebAlone' /\ SavedSurvives' /\ WebFactoryWipes'
  <2>1. /\ InOrder(cs) /\ calls'["loop"] = <<>>
        /\ prefs = IF c = "begin" THEN "closed" ELSE "write"
        /\ \A k \in Saving : nvs[k] = val \/ Pending(k)
        /\ doing = "factory" => nvs = Blank \/ Pending("clear")
        /\ doing # "factory" => ~Pending("clear")
    BY <1>1, <1>2, <1>4, <1>10 DEF WebAlone, cs
  <2>2. /\ c = "begin" => 1 < Len(cs) /\ cs[2] \in Keys \cup {"clear"}
        /\ c = "end" /\ 1 < Len(cs) => cs[2] = "begin"
        /\ c \in Keys \cup {"clear"} => 1 < Len(cs) /\ cs[2] = "end"
    BY <1>2, <1>4, <2>1, HeadInOrder
  <2>3. 1 < Len(cs) => Tail(cs) # <<>> /\ Tail(cs)[1] = cs[2]
    BY <1>2, <1>4
  <2>4. CASE c \in {"begin", "end"}
    <3>1. UNCHANGED <<nvs, since>> /\ prefs' = IF c = "begin" THEN "write" ELSE "closed"
      BY <1>3, <2>1, <2>4, KeysAre DEF prefsBegin, prefsEnd
    <3>2. c \notin Keys /\ c # "clear"
      BY <2>4, KeysAre
    <3>3. c = "begin" => Tail(cs) # <<>> /\ Tail(cs)[1] # "begin"
      BY <2>2, <2>3, KeysAre
    <3>4. c = "end" => Tail(cs) = <<>> \/ Tail(cs)[1] = "begin"
      <4>1. ~(1 < Len(cs)) => Tail(cs) = <<>>
        BY <1>4
      <4>2. QED
        BY <2>2, <2>3, <4>1
    <3>5. prefs' = IF Tail(cs) = <<>> \/ Tail(cs)[1] = "begin" THEN "closed" ELSE "write"
      BY <2>4, <3>1, <3>3, <3>4
    <3>6. WebAlone'
      <4>1. InOrder(calls["web"])'
        BY <1>2, <1>4, <2>1 DEF InOrder
      <4>2. \A x : Pending(x)' => Pending(x)
        BY <1>5
      <4>3. \A x : Pending(x) /\ x # c => Pending(x)'
        BY <1>5
      <4>4. \A k \in Saving : nvs[k] = val \/ Pending(k)'
        <5>1. \A k \in Saving : k # c
          BY <1>6, <3>2, KeysOfSetting DEF Saving
        <5>2. QED
          BY <2>1, <4>3, <5>1
      <4>5. doing = "factory" => nvs = Blank \/ Pending("clear")'
        BY <2>1, <3>2, <4>3
      <4>6. doing # "factory" => ~Pending("clear")'
        BY <2>1, <4>2
      <4>7. nvs' = nvs /\ doing' = doing /\ val' = val
        BY <1>2, <3>1
      <4>8. Blank' = Blank
        BY DEF Blank
      <4>9. QED
        BY <1>2, <1>8, <2>1, <3>5, <4>1, <4>4, <4>5, <4>6, <4>7, <4>8 DEF WebAlone
    <3>7. SavedSurvives' /\ WebFactoryWipes'
      BY <1>1, <1>2, <3>1 DEF SavedSurvives, WebFactoryWipes
    <3>8. QED
      BY <3>6, <3>7
  <2>5. CASE c \in Keys \cup {"clear"}
    <3>1. c # "begin" /\ c # "end" /\ prefs = "write"
      BY <2>1, <2>5, KeysAre
    <3>2. /\ prefs' = "write"
          /\ c = "clear" => nvs' = Blank /\ UNCHANGED since
          /\ c \in Keys => nvs' = [nvs EXCEPT ![c] = val] /\ since' = since \cup {c}
      BY <1>3, <3>1, KeysAre DEF prefsPut, prefsClear
    <3>3. Tail(cs) # <<>> /\ Tail(cs)[1] = "end"
      BY <2>2, <2>3, <2>5
    <3>4. CASE c = "clear"
      <4>1. doing = "factory" /\ Saving' = {}
        BY <1>5, <1>8, <2>1, <3>4, StoreAssumption DEF Saving
      <4>2. nvs' = Blank
        BY <3>2, <3>4
      <4>3. WebAlone'
        BY <1>2, <1>4, <2>1, <3>2, <3>3, <4>1, <4>2 DEF WebAlone, InOrder, Blank
      <4>4. SavedSurvives' /\ WebFactoryWipes'
        BY <1>2, <4>1 DEF SavedSurvives, WebFactoryWipes
      <4>5. QED
        BY <4>3, <4>4
    <3>5. CASE c \in Keys
      <4>1. c \in Saving /\ doing \in Settings /\ c \in ToSet(KeysOf[doing])
        BY <1>6, <3>5 DEF Saving
      <4>2. doing # "factory"
        BY <4>1, StoreAssumption
      <4>3. /\ nvs' = [nvs EXCEPT ![c] = val] /\ since' = since \cup {c}
            /\ nvs \in [Keys -> Values]
        BY <1>1, <3>2, <3>5 DEF TypeOK
      <4>4. \A k \in Keys : nvs'[k] = IF k = c THEN val ELSE nvs[k]
        BY <4>3
      <4>5. Saving \subseteq Keys
        BY <4>1, KeysOfSetting DEF Saving
      <4>6. \A k \in Saving : nvs'[k] = val \/ Pending(k)'
        BY <1>5, <2>1, <4>4, <4>5
      <4>7. WebAlone'
        BY <1>2, <1>4, <1>5, <1>8, <2>1, <3>2, <3>3, <4>2, <4>6 DEF WebAlone, InOrder
      <4>8. SavedSurvives' /\ WebFactoryWipes'
        BY <1>1, <1>2, <1>6, <1>10, <4>1, <4>2, <4>3, <4>4 DEF SavedSurvives, WebFactoryWipes
      <4>9. QED
        BY <4>7, <4>8
    <3>6. QED
      BY <2>5, <3>4, <3>5
  <2>6. QED
    BY <1>3, <2>4, <2>5
<1>11. SavedSurvives' /\ WebFactoryWipes'
  BY <1>10 DEF SavedSurvives, WebFactoryWipes
<1>12. QED
  BY <1>2, <1>7, <1>9, <1>10, <1>11 DEF StoreInv

\* The loop task has calls to make only while it wipes, when nothing is promised.
LEMMA CallLoopInv ==
    ASSUME StoreInv, call("loop")
    PROVE  StoreInv'
<1> DEFINE cs == calls["loop"]
           c == Head(cs)
<1>1. /\ TypeOK /\ SessionInv /\ PutsInv /\ (lpc # "wiping" => WebAlone)
  BY DEF StoreInv
<1>2. /\ cs \in Seq(Call) /\ cs # <<>>
      /\ calls'["loop"] = Tail(cs) /\ calls'["web"] = calls["web"]
      /\ TypeOK' /\ ClockInv'
      /\ UNCHANGED <<config, doing, val, g_token, lpc, saved>>
  BY CallTypes
<1>3. \/ c = "begin" /\ prefsBegin
      \/ c = "end" /\ prefsEnd
      \/ c \in Keys /\ prefsPut(c, val)
      \/ c = "clear" /\ prefsClear
  BY DEF call
<1>4. c = cs[1] /\ 1 \in DOMAIN cs
      /\ \A i \in DOMAIN Tail(cs) : i + 1 \in DOMAIN cs /\ Tail(cs)[i] = cs[i + 1]
  <2>1. 1 \in DOMAIN cs
    BY <1>2
  <2>2. QED
    BY <1>2, <2>1, TailCalls
<1>5. c \notin Keys
  BY <1>1, <1>4 DEF PutsInv
<1> HIDE DEF cs, c
<1>6. lpc' = "wiping"
  BY <1>1, <1>2 DEF WebAlone, cs
<1>7. SessionInv'
  <2>1. nvs'["passHash"] \in {nvs["passHash"], Default}
    BY <1>3, <1>5, KeysAre, BlankType DEF prefsBegin, prefsEnd, prefsClear
  <2>2. QED
    BY <1>1, <1>2, <2>1 DEF SessionInv, authed
<1>8. PutsInv'
  <2>1. \A k : Pending(k)' <=> Pending(k)
    BY <1>2 DEF Pending
  <2>2. \A i \in DOMAIN calls'["loop"] : calls'["loop"][i] \notin Keys
    BY <1>1, <1>2, <1>4 DEF PutsInv, cs
  <2>3. QED
    BY <1>1, <1>2, <2>1, <2>2 DEF PutsInv, Saving
<1>9. SavedSurvives' /\ WebFactoryWipes'
  BY <1>6 DEF SavedSurvives, WebFactoryWipes
<1>10. QED
  BY <1>2, <1>6, <1>7, <1>8, <1>9 DEF StoreInv

LEMMA HandlersInv ==
    ASSUME StoreInv, handlers
    PROVE  StoreInv'
<1>1. CASE \E v \in Passwords : handlePassword(v)
  <2>1. PICK v \in Passwords : handlePassword(v)
    BY <1>1
  <2>2. Idle /\ save("password", v) /\ v \in Values /\ "password" \in Settings
    BY <2>1, StoreAssumption DEF handlePassword, Values
  <2>3. QED
    BY <2>2, SaveInv
<1>2. CASE \E s \in Settings, v \in Others : handleSave(s, v)
  <2>1. PICK s \in Settings, v \in Others : handleSave(s, v)
    BY <1>2
  <2>2. Idle /\ save(s, v) /\ s # "password" /\ v \in Values
    BY <2>1 DEF handleSave, Values
  <2>3. QED
    BY <2>2, SaveInv
<1>3. QED
  BY <1>1, <1>2, HandleLoginInv, HandleFactoryInv DEF handlers

LEMMA StoreStep ==
    ASSUME StoreInv, [Next]_vars
    PROVE  StoreInv'
<1>1. ASSUME deferredReboot \/ doFactoryReset \/ Reset
      PROVE  Reset
  BY <1>1 DEF deferredReboot, doFactoryReset
<1>2. CASE UNCHANGED vars
  <2>1. UNCHANGED <<time, resets, config, nvs, prefs, calls, doing, val, g_token, g_rebootAt,
                    lpc, saved, since>>
    BY <1>2 DEF vars, storeVars, webVars, histVars
  <2>2. /\ TypeOK' = TypeOK /\ ClockInv' = ClockInv /\ SessionInv' = SessionInv
        /\ SavedSurvives' = SavedSurvives /\ WebFactoryWipes' = WebFactoryWipes
    BY <2>1 DEF TypeOK, ClockInv, SessionInv, authed, SavedSurvives, WebFactoryWipes
  <2>3. PutsInv' /\ (lpc' # "wiping" => WebAlone')
    BY <2>1, SameCalls DEF StoreInv
  <2>4. QED
    BY <2>2, <2>3 DEF StoreInv
<1>3. QED
  BY <1>1, <1>2, ResetInv, LoadConfigInv, CallLoopInv, FactoryHoldInv, HandlersInv, CallWebInv,
     AnswerInv, TickInv DEF Next, loopTask

-----------------------------------------------------------------------------
(* The theorems.                                                            *)

THEOREM StoreInvariant == Spec => []StoreInv
  BY StoreInit, StoreStep, PTL DEF Spec

\* Whatever is asked of the web server, and whenever the module restarts, the
\* copies of the settings hold settings and the handle's calls are well formed.
THEOREM StoreTypeOK == Spec => []TypeOK
<1>1. StoreInv => TypeOK
  BY DEF StoreInv
<1>2. QED
  BY <1>1, StoreInvariant, PTL

\* No answered save is lost: the web task's puts take effect although the loop
\* task has the handle too, however its calls and the loop's interleave
\* (config.cpp:38-47, web.cpp:195-281).
THEOREM StoreSavedSurvives == Spec => []SavedSurvives
<1>1. StoreInv => SavedSurvives
  BY DEF StoreInv
<1>2. QED
  BY <1>1, StoreInvariant, PTL

\* A factory reset from the dashboard leaves in NVS only what was saved after it
\* (config.cpp:91-95, web.cpp:283-288).
THEOREM StoreWebFactoryWipes == Spec => []WebFactoryWipes
<1>1. StoreInv => WebFactoryWipes
  BY DEF StoreInv
<1>2. QED
  BY <1>1, StoreInvariant, PTL

\* Changing the password gives its session to the one who changed it, so no
\* session survives a password it was not got with (web.cpp:165-217).
THEOREM StoreSessionShowedPassword == Spec => []SessionShowedPassword
<1>1. StoreInv => SessionShowedPassword
  BY DEF StoreInv, SessionInv, SessionShowedPassword
<1>2. QED
  BY <1>1, StoreInvariant, PTL

=============================================================================
