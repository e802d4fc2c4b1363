-------------------------------- MODULE Store --------------------------------
(***************************************************************************)
(* The settings of src/config.cpp and what src/web.cpp does with them: the *)
(* copy in RAM, the keys in NVS, the handlers that save and wipe, and the  *)
(* actions webLoop defers for them.                                        *)
(*                                                                         *)
(* Every access to NVS goes through one Preferences handle which the web   *)
(* task and the loop task share.  A task that has called into config.cpp   *)
(* has the calls on that handle it still has to make in `calls`; the other *)
(* task may run between any two of them, the web task because it outranks  *)
(* the loop task and the loop task because the web task waits for the      *)
(* flash.                                                                  *)
(***************************************************************************)
EXTENDS Millis, Sequences, SequencesExt

CONSTANTS REBOOT_DELAY_MS   \* 800 in handleFactory

CONSTANTS
    Settings,    \* what is saved: a subset of {"password", "wifi", "mqtt"}
    Default,     \* the value of a key that NVS does not hold
    Passwords,   \* what may be saved as the password ...
    Others,      \* ... and as any other setting
    MaxTime,     \* bound on the uptime explored
    MaxResets    \* bound on the resets, asked for and not

ASSUME StoreAssumption ==
    /\ {REBOOT_DELAY_MS, MaxTime, MaxResets} \subseteq Nat
    /\ Settings \subseteq {"password", "wifi", "mqtt"} /\ "password" \in Settings
    /\ Default \notin Passwords

\* The keys a handler saves, in the order of its setters' calls.
KeysOf ==
    [password |-> <<"passHash">>,
     wifi     |-> <<"wifiSsid", "wifiPass">>,
     mqtt     |-> <<"mqttEnabled", "mqttHost", "mqttPort", "mqttUser", "mqttPass", "deviceName">>]

Values == Passwords \cup Others \cup {Default}
Keys == UNION {ToSet(KeysOf[s]) : s \in Settings}

VARIABLES
    time, resets,
    config,              \* the settings in RAM
    nvs,                 \* the settings in flash
    prefs,               \* the handle: "closed", "read" or "write"
    calls,               \* the calls on it each task has yet to make
    doing, val,          \* the handler of the web task, and what it saves
    lpc,                 \* the step of the loop task
    g_token,             \* history: the password the session was got with
    g_rebootAt,          \* when webLoop restarts, or 0
    saved,               \* history: what the clients were told is saved
    since                \* history: the keys put since the last wipe began

storeVars == <<config, nvs, prefs, calls>>
webVars == <<doing, val, g_token, g_rebootAt>>
histVars == <<saved, since>>
vars == <<time, resets, storeVars, webVars, lpc, histVars>>

Blank == [k \in Keys |-> Default]
NoSession == "none"

-----------------------------------------------------------------------------
(* The Preferences handle.  A begin of an open handle changes nothing, and  *)
(* neither does a put or a clear by a handle not opened for writing.        *)

prefsBegin == prefs' = (IF prefs = "closed" THEN "write" ELSE prefs) /\ UNCHANGED nvs
prefsEnd == prefs' = "closed" /\ UNCHANGED nvs
prefsPut(k, v) == nvs' = (IF prefs = "write" THEN [nvs EXCEPT ![k] = v] ELSE nvs) /\ UNCHANGED prefs
prefsClear == nvs' = (IF prefs = "write" THEN Blank ELSE nvs) /\ UNCHANGED prefs

\* The calls; a put goes by the name of its key.
Call == {"begin", "clear", "end"} \cup Keys

\* Those of a setter: begin, put and end for each of its keys.
saveCalls(s) ==
    [i \in 1 .. 3 * Len(KeysOf[s]) |->
        CASE i % 3 = 1 -> "begin" [] i % 3 = 2 -> KeysOf[s][(i + 1) \div 3] [] i % 3 = 0 -> "end"]

\* MUTANT of wipeCalls: the namespace is cleared without being opened.
wipeCallsUnopened == <<"clear", "end">>

wipeCalls == <<"begin", "clear", "end">>

\* The next call of task t.
call(t) ==
    /\ calls[t] # <<>>
    /\ LET c == Head(calls[t]) IN
          \/ c = "begin" /\ prefsBegin /\ UNCHANGED since
          \/ c = "end" /\ prefsEnd /\ UNCHANGED since
          \/ c \in Keys /\ prefsPut(c, val) /\ since' = since \cup {c}
          \/ c = "clear" /\ prefsClear /\ UNCHANGED since
    /\ calls' = [calls EXCEPT ![t] = Tail(@)]
    /\ UNCHANGED <<time, resets, config, webVars, lpc, saved>>

\* factoryReset: RAM at once, then the namespace.
factoryReset(t) ==
    /\ config' = Blank
    /\ calls' = [calls EXCEPT ![t] = wipeCalls]
    /\ since' = {}
    /\ UNCHANGED <<nvs, prefs>>

-----------------------------------------------------------------------------
(* A boot.                                                                  *)

Init ==
    /\ time = 0 /\ resets = 0
    /\ config = Blank /\ nvs = Blank /\ prefs = "closed"
    /\ calls = [t \in {"web", "loop"} |-> <<>>]
    /\ doing = "idle" /\ val = Default /\ g_token = NoSession
    /\ lpc = "boot"
    /\ g_rebootAt = 0
    /\ saved = Blank /\ since = Keys

\* A reset loses all but NVS; whatever that holds is what the user goes by.
Reset ==
    /\ resets < MaxResets
    /\ resets' = resets + 1
    /\ time' = 0
    /\ config' = Blank /\ prefs' = "closed"
    /\ calls' = [t \in {"web", "loop"} |-> <<>>]
    /\ doing' = "idle" /\ val' = Default /\ g_token' = NoSession
    /\ lpc' = "boot"
    /\ g_rebootAt' = 0
    /\ saved' = nvs /\ since' = Keys
    /\ UNCHANGED nvs

\* MUTANT of loadConfig: the read-only handle is left open.
loadConfigOpen ==
    /\ lpc = "boot"
    /\ lpc' = "web"
    /\ config' = nvs
    /\ prefs' = "read"
    /\ UNCHANGED <<time, resets, nvs, calls, webVars, histVars>>

loadConfig ==
    /\ lpc = "boot"
    /\ lpc' = "web"
    /\ config' = nvs
    /\ UNCHANGED <<time, resets, nvs, prefs, calls, webVars, histVars>>

-----------------------------------------------------------------------------
(* The handlers of the web task, one at a time.                             *)

Idle == lpc # "boot" /\ doing = "idle"
authed == g_token # NoSession

\* A setter: RAM first, then NVS key by key.
save(s, v) ==
    /\ s \in Settings
    /\ doing' = s /\ val' = v
    /\ config' = [k \in Keys |-> IF k \in ToSet(KeysOf[s]) THEN v ELSE config[k]]
    /\ calls' = [calls EXCEPT !["web"] = saveCalls(s)]
    /\ UNCHANGED <<time, resets, nvs, prefs, g_token, g_rebootAt, lpc, histVars>>

\* The first password is open to all; changing one takes a session.
handlePassword(v) ==
    /\ Idle
    /\ config["passHash"] = Default \/ authed
    /\ save("password", v)

\* The other settings: handleWifi and handleMqtt.
handleSave(s, v) == Idle /\ authed /\ s # "password" /\ save(s, v)

handleFactory ==
    /\ Idle /\ authed
    /\ resets < MaxResets /\ time <= MaxTime
    /\ doing' = "factory"
    /\ factoryReset("web")
    /\ UNCHANGED <<time, resets, val, g_token, g_rebootAt, lpc, saved>>

handleLogin ==
    /\ Idle
    /\ config["passHash"] # Default
    /\ g_token' = config["passHash"]
    /\ UNCHANGED <<time, resets, storeVars, doing, val, g_rebootAt, lpc, histVars>>

\* MUTANT of newSession: a session that exists is kept.
newSessionKept == IF doing = "password" /\ ~authed THEN val ELSE g_token

\* MUTANT of newSession: every answer hands out a session.
newSessionAlways == val

newSession == IF doing = "password" THEN val ELSE g_token

\* What a handler does once its calls are made, and its answer.
answer ==
    /\ doing # "idle" /\ calls["web"] = <<>>
    /\ doing' = "idle" /\ val' = Default
    /\ g_token' = newSession
    /\ g_rebootAt' = IF doing = "factory" THEN time + REBOOT_DELAY_MS ELSE g_rebootAt
    /\ saved' = IF doing = "factory" THEN Blank
                ELSE [k \in Keys |-> IF k \in ToSet(KeysOf[doing]) THEN val ELSE saved[k]]
    /\ UNCHANGED <<time, resets, storeVars, lpc, since>>

-----------------------------------------------------------------------------
(* The loop task: webLoop, and the button's factory reset in normalLoop.    *)

\* MUTANT of rebootDue: only in the very millisecond.
rebootDueExactly == ~IsZero(g_rebootAt) /\ Elapsed(time, g_rebootAt) = 0

\* (int32_t)(millis() - g_rebootAt) >= 0, 0 standing for "none".
rebootDue == ~IsZero(g_rebootAt) /\ ~Ahead(g_rebootAt, time)

deferredReboot == lpc = "web" /\ rebootDue /\ Reset

\* The button has been held: doFactoryReset wipes and restarts.
factoryHold ==
    /\ lpc = "web" /\ ~rebootDue
    /\ resets < MaxResets
    /\ lpc' = "wiping"
    /\ factoryReset("loop")
    /\ UNCHANGED <<time, resets, webVars, saved>>

doFactoryReset == lpc = "wiping" /\ calls["loop"] = <<>> /\ Reset

\* The bound on the time lets a reboot that is due come, and come late.
Tick ==
    /\ time < MaxTime \/ (g_rebootAt # 0 /\ time <= g_rebootAt)
    /\ time' = time + 1
    /\ UNCHANGED <<resets, storeVars, webVars, lpc, histVars>>

handlers ==
    \/ \E v \in Passwords : handlePassword(v)
    \/ \E s \in Settings, v \in Others : handleSave(s, v)
    \/ handleLogin \/ handleFactory

loopTask == loadConfig \/ deferredReboot \/ call("loop") \/ doFactoryReset

Next == loopTask \/ factoryHold \/ handlers \/ call("web") \/ answer \/ Reset \/ Tick

\* Both tasks go on with what they have begun, and time goes on; nobody has to
\* send a request or hold the button.
Spec ==
    /\ Init /\ [][Next]_vars
    /\ WF_vars(loopTask) /\ WF_vars(call("web") \/ answer) /\ WF_vars(Tick)

-----------------------------------------------------------------------------
(* Properties.                                                              *)

\* Every variable holds a value of its type.
TypeOK ==
    /\ time \in 0 .. MaxTime + 2 * REBOOT_DELAY_MS + 2 /\ resets \in 0 .. MaxResets
    /\ {config, nvs, saved} \subseteq [Keys -> Values]
    /\ prefs \in {"closed", "read", "write"}
    /\ calls \in [{"web", "loop"} -> Seq(Call)]
    /\ doing \in {"idle", "factory"} \cup Settings /\ val \in Values
    /\ g_token \in Passwords \cup {NoSession}
    /\ lpc \in {"boot", "web", "wiping"}
    /\ g_rebootAt \in 0 .. MaxTime + 2 * REBOOT_DELAY_MS + 1
    /\ since \subseteq Keys

\* While the button wipes nothing, NVS holds for every key what the last answer
\* said it holds, or the value being saved: a reset between two writes of one
\* handler leaves each key old or new, and no answered save is lost.
SavedSurvives ==
    lpc # "wiping" /\ doing # "factory" =>
        \A k \in Keys : nvs[k] = saved[k] \/ (doing # "idle" /\ k \in ToSet(KeysOf[doing]) /\ nvs[k] = val)

\* A factory reset from the dashboard, unlike the button's, leaves nothing in NVS
\* but what was saved after it began, through the 800 ms in which the handlers
\* still run.
WebFactoryWipes ==
    lpc # "wiping" /\ doing # "factory" => \A k \in Keys : nvs[k] # Default => k \in since

\* The session belongs to whoever showed the password that is in force: neither
\* a change of the password nor a login leaves an older one (until a wipe).
SessionShowedPassword ==
    doing = "idle" /\ authed => config["passHash"] \in {g_token, Default}

\* The inductive invariant behind these.  Nothing but the button's wipe makes two
\* tasks use the handle at once; without it the handle is open between a begin
\* and its end and at no other time, so every put and clear the web task has
\* behind it took effect ...
Saving == IF doing \in Settings THEN ToSet(KeysOf[doing]) ELSE {}

Pending(c) == \E i \in DOMAIN calls["web"] : calls["web"][i] = c

InOrder(cs) ==
    \A i \in DOMAIN cs :
        /\ cs[i] = "begin" => i < Len(cs) /\ cs[i + 1] \in Keys \cup {"clear"}
        /\ cs[i] = "end" /\ i < Len(cs) => cs[i + 1] = "begin"
        /\ cs[i] \in Keys \cup {"clear"} => i < Len(cs) /\ cs[i + 1] = "end"

WebAlone ==
    /\ calls["loop"] = <<>>
    /\ InOrder(calls["web"])
    /\ prefs = IF calls["web"] = <<>> \/ calls["web"][1] = "begin" THEN "closed" ELSE "write"
    /\ \A k \in Saving : nvs[k] = val \/ Pending(k)
    /\ doing = "factory" => nvs = Blank \/ Pending("clear")
    /\ doing # "factory" => ~Pending("clear")

\* ... the password in RAM is that of the session, unless it is being changed or
\* was wiped, and the bounds on the time hold.
SessionInv ==
    /\ {config["passHash"], nvs["passHash"]} \subseteq Passwords \cup {Default}
    /\ doing = "password" => val \in Passwords /\ config["passHash"] \in {val, Default}
    /\ doing # "password" /\ authed => config["passHash"] \in {g_token, Default}
    /\ lpc = "boot" => ~authed

ClockInv ==
    \/ g_rebootAt <= MaxTime + REBOOT_DELAY_MS /\ time <= MaxTime + REBOOT_DELAY_MS + 1
    \/ time > MaxTime /\ doing # "factory"

\* Only the keys of the web task's handler are pending, and the loop task puts none.
PutsInv ==
    /\ doing = "idle" => calls["web"] = <<>>
    /\ lpc = "boot" => doing = "idle"
    /\ \A k \in Keys : Pending(k) => k \in Saving
    /\ \A i \in DOMAIN calls["loop"] : calls["loop"][i] \notin Keys

StoreInv ==
    /\ TypeOK /\ ClockInv /\ SessionInv /\ PutsInv
    /\ lpc # "wiping" => WebAlone
    /\ SavedSurvives /\ WebFactoryWipes

\* handleFactory's restart comes, however late the loop looks (a due time that
\* happens to be stored as 0 is the exception, see g_rebootAt).
RebootComes ==
    ~IsZero(g_rebootAt) ~> lpc = "boot"

\* config.h:56: factoryReset is to "wipe every setting back to factory defaults
\* and clear the NVS namespace"; the restart that follows finds in NVS only what
\* was saved after the wipe began.
FactoryWipes ==
    [][deferredReboot \/ doFactoryReset
         => \A k \in Keys : nvs[k] # Default => k \in since]_vars

=============================================================================
