# bc250-esp32-switch: TLA+ models, model checking and proofs

The firmware runs on an ESP32-C3 that is permanently powered. It switches the
PSU of a BC250 board through `PS_ON#`, reads whether the board is up from
`TPMS1`, and takes orders from a push button, a web dashboard, MQTT and the
presence of a Bluetooth controller. These modules model its control logic,
TLC checks it on small instances and TLAPS proves its safety properties for every
value of the constants. All paths below are relative to `src/`.

## 1. Inventory

### Tasks and clocks

| Task | Runs | Touches |
|---|---|---|
| loop | `wifiLoop`, `mqttLoop`, `webLoop`, `normalLoop`, 5 ms sleep (`main.cpp:412`) | everything |
| web (AsyncTCP) | one HTTP handler at a time | config in RAM and NVS, request flags, the BLE scan |
| NimBLE host | scan callbacks | `bleLastSeen`, `bleSeenEver`, the picker's table |
| WiFi driver | association | the link's status |

The C3 has one core: tasks preempt each other at any point, and a step of a
higher-priority task is whole for a lower one. `millis()` is a 32-bit counter
that comes round after 49.7 days; every timer is a difference of its readings.

### Components

| Component | State | Operations | Interaction |
|---|---|---|---|
| Power state machine (`main.cpp`) | `state`, `PS_ON#`, debouncers of button and board, press flags, BLE timestamps, request flags | `normalBegin`, `normalLoop`, `requestPowerOn/Off`, scan callback | requests from web and MQTT, timestamps from NimBLE, factory reset into config |
| WiFi lifecycle (`wifi.cpp`) | `g_apUp`, `g_wasConnected`, `g_downSince`, retry timers | `wifiBegin`, `wifiLoop`, `wifiApplyCredentials` | flag set by a handler, executed by `webLoop`; the driver |
| Controllers and scan (`config.cpp`, `main.cpp`, `web.cpp`) | wake list in RAM and NVS, legacy key, `g_bleScanStarted`, `g_pickerActive`, `g_pickerLastRequest` | add, remove, devices, scan start/stop, picker time-box, migration | web and loop task share NimBLE's one scan |
| Configuration store (`config.cpp`) | ten settings in RAM and NVS | load, setters, factory reset | written by the web task, read by all |
| Web API (`web.cpp`) | `g_token`, `g_rebootAt`, `g_wifiApplyPending` | eleven endpoints | as above |
| MQTT (`mqtt.cpp`) | connection, backoff, last published values, applied config | `mqttLoop`, `onMessage`, `applyConfig` | requests to power, reads its state; blocks the loop while connecting |
| Device table (`web.cpp:37`) | 48 advertisers | upsert, snapshot | NimBLE task and web task under a lock |
| Dashboard (`app/index.html`) | token, timers | polling, forms | a client of the API |

### What is hard here, and what makes each component correct

`PROJECT.json` lists every hazard at its line. In short:

- **Power.** Five triggers race for one output. `PS_ON#` has to follow the state
  through all of them and through resets; a boot ends, and not early; a dip of
  the sense line does not cut the power; one press has one effect; a controller
  wakes the machine exactly when it is present and the guard window is over;
  a requested off takes place.
- **WiFi.** Two tasks and a driver with a state of its own. The setup network
  opens when the link has been down for 30 s, not earlier, and goes when the
  link is back; credentials saved last are the ones used.
- **Controllers.** Two tasks hand one scan to and fro. A bound controller is
  listened for whenever no picker is open; a picker nobody polls ends; what is bound is
  stored; what is unbound stops counting.
- **Configuration.** Two tasks share one NVS handle. What was answered as saved
  survives a reset, wherever it falls; a wipe wipes.
- **Sessions.** The one session belongs to whoever showed the password in force;
  a restart that was promised comes.
- **MQTT.** Retained state converges to the truth although publishing fails,
  connections drop and the configuration changes.

## 2. Modules

| Module | Models | Extends |
|---|---|---|
| `Millis` | the counter's arithmetic: unsigned difference, signed cast, zero as "not set" | Integers |
| `PowerSwitch` | abstract: what the power switch promises, in real time | Integers |
| `PowerControl` | `main.cpp`'s state machine, `handlePower` and `onMessage` | `Millis` |
| `PowerHistory` | the same with history variables, the properties about the past and the refinement of `PowerSwitch` | `PowerControl` |
| `MillisProofs` | what the counter's differences say of real time | `Millis`, TLAPS |
| `PowerProofs` | theorems about `PowerControl` | `PowerControl`, `MillisProofs` |
| `HistoryProofs` | theorems about `PowerHistory` | `PowerHistory`, `PowerProofs` |
| `SwitchProofs` | `PowerHistory` implements `PowerSwitch` | `HistoryProofs` |
| `Wifi` | `wifi.cpp`, the save/apply and the captive DNS of `web.cpp` | `Millis` |
| `RetainedState` | abstract: what brokers may show of the device | |
| `Mqtt` | `mqtt.cpp` and the settings handler of `web.cpp` | Naturals |
| `Controllers` | wake list, wake scan, picker and its table, of `config.cpp`, `main.cpp`, `web.cpp` | `Millis` |
| `Store` | settings in RAM and NVS, password, login, saves, both factory resets and the deferred restart, of `config.cpp`, `web.cpp`, `main.cpp` | `Millis` |
| `WifiProofs`, `MqttProofs`, `ControllersProofs`, `StoreProofs` | theorems about each | the component, TLAPS |

The components compose through few variables, and each module leaves the other
side of its interface free: `PowerControl` takes requests at any time, `Mqtt`
sees a machine that changes after any pass, `Wifi` and `Mqtt` have the
save of their own settings, `Controllers` gets a factory reset at any time. What
`Store` shows of the NVS handle is therefore not repeated in the others, which
take a write to NVS for one step.

**Time.** A timestamp is kept as the true uptime and the modulus is applied
where the code subtracts or compares with zero. That is the same program, since
the code does nothing else with a timestamp, and it lets a property compare what
the code computes with the time that really went by. `WRAP` stands for 2^32.

**`PowerControl`.** One pass of `normalLoop` is the steps `pollOn`, `pollOff`,
`inputs`, `holds`, `ble`, `board`, in the code's order, all on the reading `now`
taken at its top; `setup` is the time up to the end of `normalBegin`. Requests,
advertisements and ticks come between any two steps. `powerOn` and `powerOff` are
operators shared by every trigger, as in the code. A factory hold and a
spontaneous reset lead to the initial state; `PS_ON#` floats high then. The
averaged sense voltage is one of three bands around the two thresholds.

A TOGGLE is decided by the state at the time of the message and
then is a request like any other. MQTT messages arrive before `normalLoop`, from
`mqttLoop` on the same task.

**`PowerHistory`** adds `offAt`, `lastHigh`, `sawRelease`, `pressOrigin`,
`pressActs` and `toggled`. They never guard a step. A reset forgets them as it
forgets the guard window (`bleInhibitUntil` starts at 0).

**`PowerSwitch`** says what the power component promises without passes,
debouncing, tasks or a counter: power comes on for an order, a tap that began
while off and was not too long, or a controller heard within the presence window
and outside the guard window; it goes off for an order, a hold that began while not off, a
boot whose time is up, or a board that has not been read high for the whole
off-debounce window; a boot completes only with a board that was read high in
this boot of the ESP. The mapping takes `mode` from `state`, the orders from the request
flags, the press from the debounced button, `heardAt` from `bleLastSeen` (or
long ago, if nothing was heard), `highAt` and `offAt` from the history. Each step
of a pass is one abstract step or a stutter.

**`Wifi`.** The steps `wifi`, `web` and `apply` are the three calls of a pass
that touch the link. `handleWifi` is two steps, because the NVS writes lie
between the new settings and the flag. The driver is external: `apRadio` (what is
on the air), `connected` and `joining`. It is assumed that `mode(WIFI_STA)` ends a
SoftAP, that an association takes longer than the end of the pass that began
it, and that the mode switch to `WIFI_AP` without a `softAP()` call opens no
setup network. `dnsUp` is the captive DNS server, which copies `g_apUp` at the
top of `webLoop`; nothing else depends on it and no property is about it.

**`Controllers`.** `lpc` and `wpc` are the places of the loop and the web task.
The web task outranks the loop task and yields to it only where it waits for
NimBLE or the flash, so `endPickerScan` goes line by line while a handler's
assignments between two waits are one step. `scan` says whose callbacks the one
scan reports to. The wake list is text, a sequence of addresses and separators:
a line is an address with a separator or an end of the text on either side
(`lineAt`), the search ends at the first empty line (`emptyLineAt`), appending adds
a separator to a text that is not empty, and a removal (`without`) writes the other
addresses in their order, `nth` by `nth`, with a separator between any two. An address is one symbol; what a request
may write for it (`Spellings`) goes through `toLowerCase`, `validMac` and
`normMac`. A controller bound again after its removal in the same boot counts as
not bound: `hasWakeAddr` finds it in RAM and nothing is stored (see `Unbound`).

**`Store`.** `calls[t]` holds what task `t`, inside a function of `config.cpp`,
has yet to call on the one `Preferences` handle: `begin`, `clear`, `end`, or a put, which
goes by the name of its key.
Either task may run between any two calls: the web task outranks the loop task,
and waits for the flash, which yields while it erases. `begin` of an open
handle, and `put` or `clear` on one that is not open for writing, do nothing, as
in the Arduino library (external). A handler changes RAM first, then NVS key by
key, then answers; `saved` is what the answers said. Passwords stand for their
hashes and a session for the password it was got with. The wake list and the
migration are in `Controllers`.

**`Mqtt`.** The steps of `mqttLoop` with the connection's real condition (`sock`)
kept apart from `s_connected`; a publication is delivered only on a socket that
stands. A connection that breaks, or a reset, in the middle of a step leaves what the
step had published by then (`partOfStep`). `config` is the broker (or none) and the device name; `setMqtt` and
`setDeviceName` are two steps, and a connect may use the settings from before or
after a save that races with it. Timers are the time since `s_lastAttempt` and
since boot, capped at the longest delay they are compared with, so that this
module has no bound on time. Brokers are external:
retained values, sessions, the last will when a session ends without a DISCONNECT
(a new connect of the same client ends the old session first). `onMessage` is in
`PowerControl`. The periodic sense voltage is left out.

**`RetainedState`** says what a broker may show, without the loop, the backoff, the
detection of changes and connections that are broken unnoticed: there is one
connection at a time; only a device that is there is shown as online, under the
name it goes by; whatever is published leaves the broker with the machine's
whole state as it is then, unless the connection is lost meanwhile; a broker left on
purpose shows the device as offline at once, one that lost it has its will. The
mapping takes the connection from the socket that stands, the name from the
applied settings and the will from the session.

## 3. Runs

| Run | Question | Bounds |
|---|---|---|
| `PowerBoard` | types, `PS_ON#`, board sense, a boot watched to its end, sustained shutdown, TOGGLE, the abstract switch, under requests and spontaneous resets | 6 ticks of uptime, one tick may fall inside a pass |
| `PowerButton` | effects of one press against power-ons by others; the abstract switch | 5 ticks, shortened windows, a pass takes no time |
| `PowerBle` | wakes with a cause and none missed, no early watchdog; boots end, requested offs happen; the abstract switch | 4 ticks, first lap of the counter |
| `WifiLink` | retry bounds, setup network neither early nor lasting nor missing from the air, last credentials used | 2 saves, 1 failed SoftAP start, 8 ticks over the counter's zero |
| `ControllersScan` | the wake scan and the picker share the radio; what is bound is stored and read back | 2 controllers, 2 spellings, a table of 1, 1 reset, a counter of 4 values that goes round for ever |
| `MqttBroker` | who is shown online, and what brokers retain in the end; the abstract retained state | 2 brokers, 2 names, 1 save, 1 loss or reset, one retained topic (each topic is treated alike) |
| `StoreWeb` | answered saves survive, what a wipe leaves, sessions, the restart | 2 passwords, a setting of one key and one of two, 2 resets, 1 tick besides the reboot delay |
| `ResetOnlyWhileOff` | violation: the button table's "while off" | |
| `WrapMissedWake` | violation: the guard window after half a lap of the counter | `WRAP = 12`, 7 ticks: one more than the theorem allows |
| `FallbackOnAir` | violation: the fallback AP after wrong credentials | |
| `Unbound` | violation: a removed controller goes on waking | |
| `FactoryWipes` | violation: the button's wipe against a handler | settings of one key and of six |

**Bounds.** Windows are scaled to a few ticks keeping their order: debounce <
presence, off-debounce < long press < factory hold; the boot timeout is no
shorter than the long press. In
`PowerBoard`, `PowerBle` and the violations the guard window outlasts the
presence window, as in `board.h`. Six ticks hold a boot with its timeout, the
power-off after it and a restart; in the runs with the button the windows are
shorter so that a whole hold and a second press fit. `MaxIdle` lets the loop
stand still (`mqttLoop` connects from it), `MaxPass` lets time move inside a
pass. Timestamps are bounded by `MaxTime` alone, save in `Controllers`, which keeps
the counter and the stamp as the code stores them, modulo `WRAP`: its time has no end,
so that a dashboard can poll for ever. There an idle picker is looked at before the
counter has gone round once since the last request (`lastTickOfLap`): the loop task
is away for seconds, a lap takes 49.7 days. `WRAP` exceeds `MaxTime` in the other
passing runs but `WifiLink`, where the counter comes round to 0 once, longer than
any delay it is compared with; in `WrapMissedWake` it is small enough to be
passed half way. In `StoreWeb` two settings, of one key and of two, are enough for
every interleaving of calls: more keys only repeat `begin`, `put`, `end`.

**Fairness.** Weak fairness of the loop task's steps and of time: FreeRTOS runs
the loop task for ever and nothing in a pass waits for another task's leave.
In `Wifi` a handler that has begun ends (weak), and an association that is
possible again and again succeeds at last (strong): a router that flaps is
otherwise free to win every time. In `Mqtt` a broker that can be reached again
and again accepts, the client notices a broken connection in the end (strong:
`loop()` may miss it any number of times) and a broker's keep-alive ends; time is
strongly fair because it is counted only where the pass waits. In `Controllers`
loop, running handlers, a due
restart and time are weakly fair, and so are the two tasks and time in `Store`. No user or router is assumed to do
anything. Where the clock stops at `MaxTime`, liveness that needs time to pass
says so in its premise; in `Controllers`, where it does not stop, `WakeScanResumes` and
`PickerEnds` have the premise that the dashboards stop polling (`PollingStops`), which
nothing makes them do.

`FallbackComes` asks for the setup network on the air (`apRadio`), not for its flag. Its
premise leaves out a flag that is already stale (`staleFlag`), and an apply
ends the obligation and begins it anew from the state after it, which has a stale
flag only if the AP was up when the credentials were applied. So the finding
`FallbackOnAir` is the one way in which a link that stays down brings no setup network.

**Deadlock** is checked in every run.

## 4. What the violations show

1. `ResetOnlyWhileOff` — a press that began while off goes on being a factory hold
   after the web, MQTT or a controller has switched the machine on; at eight
   seconds it wipes the configuration and cuts the power (`main.cpp:347`,
   `README.md:114`).
2. `WrapMissedWake` — `bleInhibitUntil` is never cleared; from 24.8 days after it
   was last set (after boot, if never) until 49.7 days the signed comparison holds
   and controllers do not wake the machine (`main.cpp:367`).
3. `FallbackOnAir` — saving credentials from the fallback dashboard takes the AP
   down with `g_apUp` still set; if they are wrong it never comes back
   (`wifi.cpp:121`, `README.md:161`).
4. `Unbound` — `removeWakeAddr` does not touch the list in RAM (`config.cpp:136`).
   It follows too that removing a second controller stores the first again, and
   that binding a removed one again is not stored.
5. `FactoryWipes` — one `Preferences` handle serves two tasks. If a handler saves
   while the loop task is inside the button's factory reset, its `end` closes the
   handle and `clear` does nothing: after the restart the device still has its old
   settings (`config.cpp:182`, `config.h:56`). The same `end` can make a `put` do
   nothing; `SavedSurvives` therefore speaks of the time in which nothing wipes.

A related effect has no run of its own: `bleSeenEver` is never cleared either, so
49.7 days after the last advertisement a controller counts as present for 4 s
(`main.cpp:366`), and the refinement fails when `WRAP` is 12 and `MaxTime` 13; it is
stated for the first lap. Another: the debounced board level outlives a quick off
and on, whose boot then is over at once on a level from before (`main.cpp:380`);
that is why `PowerSwitch` asks for a board read high in this boot of the ESP and
not since the power-on.

And: a poll that comes while the loop task is inside `endPickerScan`, past the line
that clears `g_pickerActive`, opens the picker anew; the loop task then resumes the
wake scan over it (`web.cpp:160`). That picker hears nothing, and while the dashboard
polls it stays so, because `startPickerScan` returns at once (`web.cpp:141`) and each
poll puts the idle timeout off, which `web.cpp:289` means for a scan that is alive.
When polling stops the picker ends (`PickerEnds`) and the next poll opens a sound one.

## 5. Proofs

Every invariant and every action property of the passing runs is a theorem of its
specification, for every modulus of the counter, every set of windows, any number
of controllers, brokers, topics and saves; so are the two refinements. They
rest on the named assumptions of the modules, which TLC evaluates in each run.
Where a property is not inductive by itself, the invariant that carries it is
defined next to it in the component's module. TLC checked each of them as an
invariant of a run before it was proved. Each proof has one lemma per action
or group of actions, and a step lemma that puts them together.

**`MillisProofs`.** An unsigned difference is never more than the time that really
went by, and on the first lap of the counter it is that time; a time that is
behind does not seem to lie ahead in the first half of a lap.

**`PowerProofs`** proves `PowerInv` from `WrapAssumption`, `TimingAssumption` and
`EnvironmentAssumption`, and `TypeOK`, `PsuFollowsState`, `OnHasBoardSense`,
`BootIsWatched` and `WatchdogNotEarly` from it. That no pass leaves an expired boot
behind needs that a boot begun in this pass is stamped with the pass's own clock,
which is `BootNotAhead` (the single-clock rule of `main.cpp:110`); `now - bootStart`
may then lose a lap but never underflow, which is all `WatchdogNotEarly` needs.

**`HistoryProofs`** is about the past. `ShutdownIsSustained`: while the recorded raw
level is low, its recorded change is no older than the last high reading
(`SenseInv`), so a falling edge of the debounced level lies a whole window after
it. `OneEffectPerPress`: a press that has acted either was released or has its hold
flag up (`PressInv`). `TapBeganInThisBoot`: a button debounced as released was read
released in this boot (`OriginInv`). `ToggleInverts`: until the pass has come to the
request a TOGGLE made, the state is the one that decided it and the request is
still pending (`ToggleInv`).

**`SwitchProofs`** proves `HistoryImplementsSwitch`: under `FirstLap` (the uptime
explored is less than `WRAP`, the cooldown less than half of it) every behaviour
of `PowerHistory` is one of `PowerSwitch` under the mapping of section 2. It rests
on `SwitchInv`, which ties what the code stores to real time: the guard window
ends a cooldown after the last power-off, no timestamp the pass compares with is
ahead of it, a level the code takes for high was read high in this boot.
`HistoryWakeNotMissed` holds under `FirstHalfLap`, an uptime of no more than half a lap
(24.8 days). The run `WrapMissedWake` refutes the property one tick later, so the two
together say exactly for how long a controller is sure to be heard.

**`WifiProofs`.** `WifiInv` says that no timestamp of the link is ahead of the clock
and that the fallback clock of a link that is down, where it runs, began no
earlier than the link was last seen up; only with both is a difference that
reaches the fallback time a real one (`NoNeedlessAp`), laps of the counter included.
`NoForgottenAp` is inductive beside it. `RetryBounded`
rests on `BackoffAssumption`, that the doublings of the first interval meet the
largest one exactly, as 15, 30 and 60 seconds do: the code doubles below the limit and
has no cap, so with other numbers the property fails.

**`ControllersProofs`.** `ListsInv` is the shape of the text: addresses at the odd
places, none twice, separators at the even ones (`OneToALine`), and what the
migration has written so far. `Added` and `Removed` show that appending and
rewriting keep the shape and change the addresses reported by just the one, for
lists of any length, and `ReadsAsSet` that the search which ends at an empty line
misses nothing in a text of that shape. `BoundInv`: what the user bound is in RAM
once loaded, so that any later write of the list has it. `WakeInv`: a list without its
scan is one whose scan somebody is about to start, be it the loop task that ended a
picker, the handler that bound a first controller or the one that takes the scan
for a picker; `WakeScanCovers` alone says nothing of these handovers.

**`MqttProofs`.** `MqttInv`: the broker at the end of a socket that stands has a live
session, so no will and no failed connect can take the session under an
announced availability. `ClientInv`: there is no live session but that one, and no socket
once the firmware takes itself to be disconnected. From the two,
`MqttImplementsRetainedState`: the heart of it is `ChangesComplete`, that a value left
unpublished because it equals the remembered one is what the broker has, although
failed publications are remembered too. The theorem is for any number of topics, where
`MqttBroker` has the states for one.

**`StoreProofs`.** `StoreInv` is about the shared handle. `WebAlone`: while the button
wipes nothing, one task uses the handle, its calls come as begin, one put or clear,
end, and the handle is open exactly between a begin and its end; so every put and
clear the web task has behind it took effect, and what it has before it is of its own
keys (`PutsInv`). `SavedSurvives` and `WebFactoryWipes` follow for every reset between
any two calls. Once the button wipes, `WebAlone` is lost, which is the finding
`FactoryWipes`. `SessionInv` carries `SessionShowedPassword` through the steps in
which a password is being changed.

**Only model-checked.** Liveness, since fairness and `ENABLED` are out of the prover's
reach: `BootEnds`, `OffRequestServed`, `ApGivesWay`, `FallbackComes`,
`SavedCredentialsUsed`, `WakeScanResumes`, `PickerEnds`, `RetainedConverges`,
`LeftBehindIsOffline`, `RebootComes`. The five properties of the violation runs are
refuted there.

## 6. Not modelled

The periodic sense voltage of MQTT (telemetry that nothing else reads; its timer
would multiply the states of `MqttBroker` beyond what a run can hold), JSON,
status reporting, serial logging, SPIFFS, mDNS and TX power (they change with
variables that are modelled), names and signal strengths in the picker's table,
the characters of an address, and the dashboard page. The data race of the scan
task reading `config.wakeAddrs` while the web task appends to it needs a memory
model of `String` and is outside: the list changes in one step. Nor are the
lengths of payloads (`mqtt.cpp:124`) modelled.

## 7. Plan

1. The findings delimited by theorems, as `HistoryWakeNotMissed` does for
   `WrapMissedWake`: `UnboundCannotWake` until something is removed, `FactoryWipes`
   while no handler is under way, `ResetOnlyWhileOff` without power-ons by others.
2. An abstract specification of the radio's one scan, which `Controllers` implements.
