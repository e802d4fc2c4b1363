---------------------------- MODULE Controllers -----------------------------
(***************************************************************************)
(* The bound controllers and the one BLE scan: the wake list of            *)
(* src/config.cpp, the wake scan of src/main.cpp, and the picker scan, its *)
(* table and its handlers of src/web.cpp.                                  *)
(*                                                                         *)
(* Three tasks meet here.  The web task runs one handler at a time (its    *)
(* place in it is `wpc`); the loop task ends an idle picker (`lpc`); both  *)
(* drive the one scan NimBLE has, whose results go to `scan`.  The web     *)
(* task may preempt the loop task anywhere and yields to it where it waits *)
(* for the radio or for the flash.                                         *)
(***************************************************************************)
EXTENDS Millis, FiniteSets, Sequences

CONSTANTS PICKER_IDLE_MS, MAX_DEVS

CONSTANTS
    Macs,       \* the controllers, as the addresses in lower case
    Spellings,  \* how a request may spell one: "lower", "upper" or "other",
                \* which is no 17-character address at all
    NL,         \* the separator of the wake list
    MaxResets   \* bound on the resets, asked for and not

ASSUME ControllersAssumption ==
    /\ {PICKER_IDLE_MS, MAX_DEVS, MaxResets} \subseteq Nat
    /\ NL \notin Macs

VARIABLES
    time,                    \* millis(): it comes round, the uptime does not end
    resets,
    wakeAddrs,               \* config.wakeAddrs: addresses and separators
    nvsAddrs, nvsLegacy,     \* the keys "wakeAddrs" and "wakeAddr" in NVS
    scan,                    \* who gets the results of the running scan
    g_bleScanStarted, g_pickerActive, g_pickerLastRequest,
    devs,                    \* the addresses in the picker's table
    rebooting,               \* g_rebootAt is set
    lpc,                     \* the step of the loop task
    wpc, wasEmpty,           \* the step of the web task, and a local of it
    owned, unbound           \* history: bound by the user; removed in this
                             \* boot and not bound again

nvsVars == <<nvsAddrs, nvsLegacy>>
radioVars == <<scan, g_bleScanStarted>>
pickerVars == <<g_pickerActive, g_pickerLastRequest>>
histVars == <<owned, unbound>>
vars == <<time, resets, wakeAddrs, nvsVars, radioVars, pickerVars, devs, rebooting,
          lpc, wpc, wasEmpty, histVars>>

-----------------------------------------------------------------------------
(* The wake list, one address to a line.                                    *)

Tokens == Macs \cup {NL}

beginsLine(s, i) == i = 1 \/ s[i - 1] = NL
endsLine(s, i) == i = Len(s) \/ s[i + 1] = NL
emptyLineAt(s, i) == s[i] = NL /\ beginsLine(s, i)
lineAt(s, i, c) == s[i] = c /\ beginsLine(s, i) /\ endsLine(s, i)

\* The search ends at the first line that is empty.
hasWakeAddr(s, c) ==
    \E i \in DOMAIN s : lineAt(s, i, c) /\ \A j \in 1 .. i - 1 : ~emptyLineAt(s, j)

\* MUTANT of separator: one before every address.
separatorAlways(s) == <<NL>>

separator(s) == IF s = <<>> THEN <<>> ELSE <<NL>>

addWakeAddr(s, c) == IF hasWakeAddr(s, c) THEN s ELSE s \o separator(s) \o <<c>>

\* What removeWakeAddr writes: the other addresses, in order, each on its line.
nth(K, n) == CHOOSE i \in K : Cardinality({j \in K : j <= i}) = n

others(s, c) == {i \in DOMAIN s : s[i] \notin {NL, c}}

without(s, c) ==
    [n \in 1 .. 2 * Cardinality(others(s, c)) - 1 |->
        IF n % 2 = 1 THEN s[nth(others(s, c), (n + 1) \div 2)] ELSE NL]

\* The addresses handleStatus reports.
reported(s) == {c \in Macs : \E i \in DOMAIN s : lineAt(s, i, c)}

\* A handler lowers the case and then wants 17 characters of an address.
toLowerCase(as) == IF as = "upper" THEN "lower" ELSE as
validMac(as) == as \in {"lower", "upper"}
normMac(as) == toLowerCase(as) = "lower"

-----------------------------------------------------------------------------
(* A boot: loadConfig with the migration of the single-controller key, then *)
(* the wake scan of normalBegin.                                            *)

\* The NVS of a device that was bound by this firmware, or by an older one.
Init ==
    /\ time = 0 /\ resets = 0
    /\ \E c, d \in Macs : nvsAddrs \in {<<>>, <<c>>, addWakeAddr(<<c>>, d)}
    /\ nvsLegacy \in {<<>>} \cup {<<c>> : c \in Macs}
    /\ nvsAddrs = <<>> \/ nvsLegacy = <<>>
    /\ wakeAddrs = <<>> /\ scan = "none" /\ g_bleScanStarted = FALSE
    /\ g_pickerActive = FALSE /\ g_pickerLastRequest = 0 /\ devs = {}
    /\ rebooting = FALSE
    /\ lpc = "load" /\ wpc = "idle" /\ wasEmpty = FALSE
    /\ owned = reported(nvsAddrs \o nvsLegacy) /\ unbound = {}

\* A step of the loop task, and one of a handler on the web task.
loopStep(from, to) ==
    lpc = from /\ lpc' = to /\ UNCHANGED <<time, resets, devs, rebooting, wpc, wasEmpty, histVars>>
webStep(from, to) ==
    wpc = from /\ wpc' = to /\ UNCHANGED <<time, resets, devs, rebooting, lpc>>

migrating == nvsAddrs = <<>> /\ nvsLegacy # <<>>

loadConfig ==
    /\ loopStep("load", IF migrating THEN "fold" ELSE "begin")
    /\ wakeAddrs' = IF migrating THEN nvsLegacy ELSE nvsAddrs
    /\ UNCHANGED <<nvsVars, radioVars, pickerVars>>

\* The legacy key is folded in by one write and dropped by another.
foldLegacy ==
    /\ loopStep("fold", "drop")
    /\ nvsAddrs' = wakeAddrs
    /\ UNCHANGED <<wakeAddrs, nvsLegacy, radioVars, pickerVars>>

dropLegacy ==
    /\ loopStep("drop", "begin")
    /\ nvsLegacy' = <<>>
    /\ UNCHANGED <<wakeAddrs, nvsAddrs, radioVars, pickerVars>>

-----------------------------------------------------------------------------
(* The scan.                                                                *)

\* startBleScan, past its test of the list: NimBLE restarts a running scan.
takeScanForWake == scan' = "wake" /\ g_bleScanStarted' = TRUE

stopBleScan ==
    /\ scan' = IF g_bleScanStarted THEN "none" ELSE scan
    /\ g_bleScanStarted' = FALSE

\* normalBegin's scan, then the web server comes up.
beginScan ==
    /\ loopStep("begin", "check")
    /\ IF wakeAddrs # <<>> THEN takeScanForWake ELSE UNCHANGED radioVars
    /\ UNCHANGED <<wakeAddrs, nvsVars, pickerVars>>

\* webLoop finds the picker idle; endPickerScan ends it line by line.
\* MUTANT of pickerIdle: 0 is taken for "no request", as the 0 of g_rebootAt is.
pickerIdleIfAsked ==
    /\ g_pickerActive /\ g_pickerLastRequest # 0
    /\ Elapsed(time, g_pickerLastRequest) > PICKER_IDLE_MS

pickerIdle == g_pickerActive /\ Elapsed(time, g_pickerLastRequest) > PICKER_IDLE_MS

checkPicker ==
    /\ loopStep("check", "stop")
    /\ pickerIdle
    /\ UNCHANGED <<wakeAddrs, nvsVars, radioVars, pickerVars>>

stopPicker ==
    /\ loopStep("stop", IF g_pickerActive THEN "release" ELSE "check")
    /\ scan' = IF g_pickerActive THEN "none" ELSE scan
    /\ UNCHANGED <<wakeAddrs, nvsVars, g_bleScanStarted, pickerVars>>

\* MUTANT of releasePicker: the last request is remembered as recent.
releasePickerKept ==
    /\ loopStep("release", "forget")
    /\ UNCHANGED <<wakeAddrs, nvsVars, radioVars, pickerVars>>

releasePicker ==
    /\ loopStep("release", "forget")
    /\ g_pickerActive' = FALSE
    /\ UNCHANGED <<wakeAddrs, nvsVars, radioVars, g_pickerLastRequest>>

forgetRequest ==
    /\ loopStep("forget", "resume")
    /\ g_pickerLastRequest' = 0
    /\ UNCHANGED <<wakeAddrs, nvsVars, radioVars, g_pickerActive>>

resumeTest ==
    /\ loopStep("resume", IF wakeAddrs = <<>> THEN "check" ELSE "restart")
    /\ UNCHANGED <<wakeAddrs, nvsVars, radioVars, pickerVars>>

resumeScan ==
    /\ loopStep("restart", "check")
    /\ takeScanForWake
    /\ UNCHANGED <<wakeAddrs, nvsVars, pickerVars>>

endPickerScan ==
    stopPicker \/ releasePicker \/ forgetRequest \/ resumeTest \/ resumeScan

\* MUTANT of onResult: one device too many for the table.
onResultOver(c) ==
    /\ scan = "picker"
    /\ c \in devs \/ Cardinality(devs) <= MAX_DEVS
    /\ devs' = devs \cup {c}
    /\ UNCHANGED <<time, resets, wakeAddrs, nvsVars, radioVars, pickerVars, rebooting,
                   lpc, wpc, wasEmpty, histVars>>

\* The picker's scan hears a device; a table that is full takes no new one.
onResult(c) ==
    /\ scan = "picker"
    /\ c \in devs \/ Cardinality(devs) < MAX_DEVS
    /\ devs' = devs \cup {c}
    /\ UNCHANGED <<time, resets, wakeAddrs, nvsVars, radioVars, pickerVars, rebooting,
                   lpc, wpc, wasEmpty, histVars>>

-----------------------------------------------------------------------------
(* The handlers of the web task.                                            *)

ServerUp == lpc \notin {"load", "fold", "drop", "begin"}

\* handleBleAdd: the list in RAM, then NVS, then the scan for a first entry.
\* What hasWakeAddr takes for a duplicate is not stored.
handleBleAdd(c, as) ==
    /\ ServerUp
    /\ validMac(toLowerCase(as)) /\ normMac(as)
    /\ webStep("idle", IF hasWakeAddr(wakeAddrs, c) THEN "bring" ELSE "store")
    /\ wasEmpty' = (wakeAddrs = <<>>)
    /\ wakeAddrs' = addWakeAddr(wakeAddrs, c)
    /\ owned' = IF hasWakeAddr(wakeAddrs, c) THEN owned ELSE owned \cup {c}
    /\ unbound' = unbound \ {c}
    /\ UNCHANGED <<nvsVars, radioVars, pickerVars>>

\* MUTANT of storeList: only the first controller is written.
storeListOnce ==
    /\ webStep("store", "bring")
    /\ nvsAddrs' = IF wasEmpty THEN wakeAddrs ELSE nvsAddrs
    /\ UNCHANGED <<wakeAddrs, nvsLegacy, radioVars, pickerVars, wasEmpty, histVars>>

storeList ==
    /\ webStep("store", "bring")
    /\ nvsAddrs' = wakeAddrs
    /\ UNCHANGED <<wakeAddrs, nvsLegacy, radioVars, pickerVars, wasEmpty, histVars>>

\* MUTANT of bringUp: the scan is left to the next boot.
bringUpLater == UNCHANGED radioVars

bringUp == IF wasEmpty /\ ~g_pickerActive THEN takeScanForWake ELSE UNCHANGED radioVars

handleBleAddScan ==
    /\ webStep("bring", "idle")
    /\ bringUp
    /\ wasEmpty' = FALSE
    /\ UNCHANGED <<wakeAddrs, nvsVars, pickerVars, histVars>>

\* handleBleRemove: NVS gets the list without the controller; the list in RAM,
\* which the handler and the scan go by, keeps it.
handleBleRemove(c, as) ==
    /\ ServerUp
    /\ validMac(toLowerCase(as)) /\ normMac(as)
    /\ webStep("idle", "idle")
    /\ nvsAddrs' = IF c \in reported(wakeAddrs) THEN without(wakeAddrs, c) ELSE nvsAddrs
    /\ IF wakeAddrs = <<>> /\ ~g_pickerActive THEN stopBleScan ELSE UNCHANGED radioVars
    /\ owned' = owned \ {c}
    /\ unbound' = unbound \cup {c}
    /\ UNCHANGED <<wakeAddrs, nvsLegacy, pickerVars, wasEmpty>>

\* handleBleDevices: the request is noted and, if need be, the picker started.
\* A dashboard may go on asking for ever.
handleBleDevices ==
    /\ ServerUp
    /\ webStep("idle", IF g_pickerActive THEN "idle" ELSE "pause")
    /\ g_pickerLastRequest' = time
    /\ UNCHANGED <<wakeAddrs, nvsVars, radioVars, g_pickerActive, wasEmpty, histVars>>

pauseWakeScan ==
    /\ webStep("pause", "take")
    /\ stopBleScan
    /\ UNCHANGED <<wakeAddrs, nvsVars, pickerVars, wasEmpty, histVars>>

takeScanForPicker ==
    /\ webStep("take", "claim")
    /\ scan' = "picker"
    /\ UNCHANGED <<wakeAddrs, nvsVars, g_bleScanStarted, pickerVars, wasEmpty, histVars>>

claimPicker ==
    /\ webStep("claim", "idle")
    /\ g_pickerActive' = TRUE
    /\ UNCHANGED <<wakeAddrs, nvsVars, radioVars, g_pickerLastRequest, wasEmpty, histVars>>

\* handleFactory, as far as the controllers go.
handleFactory ==
    /\ ServerUp /\ wpc = "idle"
    /\ resets < MaxResets
    /\ wakeAddrs' = <<>> /\ nvsAddrs' = <<>> /\ nvsLegacy' = <<>>
    /\ owned' = {}
    /\ rebooting' = TRUE
    /\ UNCHANGED <<time, resets, radioVars, pickerVars, devs, lpc, wpc, wasEmpty, unbound>>

-----------------------------------------------------------------------------
\* What the next boot takes for the wake list.
NextBoot == IF migrating THEN reported(nvsLegacy) ELSE reported(nvsAddrs)

\* A reset, at the end of webLoop after a factory reset or out of nowhere; a
\* controller whose handler has not stored it yet was not answered for.
Reset ==
    /\ resets < MaxResets
    /\ resets' = resets + 1
    /\ time' = 0
    /\ wakeAddrs' = <<>> /\ scan' = "none" /\ g_bleScanStarted' = FALSE
    /\ g_pickerActive' = FALSE /\ g_pickerLastRequest' = 0 /\ devs' = {}
    /\ rebooting' = FALSE
    /\ lpc' = "load" /\ wpc' = "idle" /\ wasEmpty' = FALSE
    /\ owned' = (IF wpc = "store" THEN owned \cap NextBoot ELSE owned) /\ unbound' = {}
    /\ UNCHANGED nvsVars

Restart == rebooting /\ lpc = "check" /\ Reset

\* The loop task, which is never away for more than seconds, looks at an idle
\* picker before the counter has gone round once since its last request.
lastTickOfLap == pickerIdle /\ Elapsed(time, g_pickerLastRequest) = WRAP - 1

Tick ==
    /\ ~lastTickOfLap
    /\ time' = (time + 1) % WRAP
    /\ UNCHANGED <<resets, wakeAddrs, nvsVars, radioVars, pickerVars, devs, rebooting,
                   lpc, wpc, wasEmpty, histVars>>

boot == loadConfig \/ foldLegacy \/ dropLegacy \/ beginScan
handlers ==
    \/ \E c \in Macs, as \in Spellings : handleBleAdd(c, as) \/ handleBleRemove(c, as)
    \/ handleBleDevices \/ handleFactory
handling ==
    storeList \/ handleBleAddScan \/ pauseWakeScan \/ takeScanForPicker \/ claimPicker

Next ==
    \/ boot \/ checkPicker \/ endPickerScan \/ \E c \in Macs : onResult(c)
    \/ handlers \/ handling \/ Restart \/ Reset \/ Tick

\* The loop task and a handler that has begun go on; so does time.  Nothing
\* makes a user do anything.
Spec ==
    /\ Init /\ [][Next]_vars
    /\ WF_vars(boot \/ checkPicker \/ endPickerScan)
    /\ WF_vars(handling) /\ WF_vars(Restart) /\ WF_vars(Tick)

-----------------------------------------------------------------------------
(* Properties.                                                              *)

\* Every variable holds a value of its type.
TypeOK ==
    /\ time \in 0 .. WRAP - 1 /\ resets \in 0 .. MaxResets
    /\ {wakeAddrs, nvsAddrs, nvsLegacy} \subseteq Seq(Tokens)
    /\ {owned, unbound, devs} \subseteq SUBSET Macs /\ Cardinality(devs) <= MAX_DEVS
    /\ scan \in {"none", "wake", "picker"}
    /\ {g_bleScanStarted, g_pickerActive, rebooting, wasEmpty} \subseteq BOOLEAN
    /\ g_pickerLastRequest \in 0 .. WRAP - 1
    /\ lpc \in {"load", "fold", "drop", "begin", "check", "stop", "release",
                "forget", "resume", "restart"}
    /\ wpc \in {"idle", "store", "bring", "pause", "take", "claim"}

\* With no task in the middle of handing the scan over and no picker open, a
\* list that is not empty has its wake scan: no order of binding, picking and
\* ending a picker leaves a bound controller unheard.
WakeScanCovers ==
    lpc = "check" /\ wpc = "idle" /\ ~g_pickerActive /\ wakeAddrs # <<>> => scan = "wake"

\* A controller the user bound and did not remove is in the list the next boot
\* loads, whenever that comes: between the writes of a handler, between those of
\* the migration, or after another controller was added or removed.
BoundIsStored == wpc # "store" => owned \subseteq NextBoot

\* The list reads as a set, in RAM and in NVS: the search of the scan task finds
\* exactly what handleStatus reports, and nothing is in it twice.
ListReadsAsSet ==
    \A s \in {wakeAddrs, nvsAddrs} :
        /\ \A c \in Macs : hasWakeAddr(s, c) <=> c \in reported(s)
        /\ Cardinality(reported(s)) = Cardinality({i \in DOMAIN s : s[i] # NL})

\* The inductive invariant behind these: the lists have an address at every odd
\* place, none of them twice, and a line break at every even one; ...
OneToALine(s) ==
    /\ s = <<>> \/ Len(s) % 2 = 1
    /\ \A i \in DOMAIN s : s[i] = NL <=> i % 2 = 0
    /\ \A i, j \in DOMAIN s : s[i] = s[j] /\ s[i] # NL => i = j

ListsInv ==
    /\ OneToALine(wakeAddrs) /\ OneToALine(nvsAddrs) /\ OneToALine(nvsLegacy)
    /\ lpc = "fold" => migrating
    /\ lpc \in {"fold", "drop"} => wakeAddrs = nvsLegacy /\ nvsLegacy # <<>>
    /\ lpc = "drop" => nvsAddrs = wakeAddrs

\* ... what the user bound is in RAM once loaded, so that any write of the list
\* has it; ...
BoundInv ==
    /\ BoundIsStored
    /\ lpc # "load" => owned \subseteq reported(wakeAddrs)

\* ... and a list without its scan is one whose scan somebody is about to start:
\* the loop task that ended a picker, the handler that bound a first controller,
\* or the one that takes the scan for a picker.
WakeInv ==
    /\ ServerUp \/ (wpc = "idle" /\ ~g_pickerActive)
    /\ lpc \in {"stop", "release"} => g_pickerActive
    /\ wakeAddrs # <<>> /\ ServerUp /\ ~g_pickerActive =>
          \/ scan = "wake"
          \/ lpc \in {"forget", "resume", "restart"}
          \/ wpc \in {"take", "claim"}
          \/ wpc \in {"store", "bring"} /\ wasEmpty

ControllersInv ==
    TypeOK /\ IsFiniteSet(devs) /\ ListsInv /\ BoundInv /\ WakeInv

\* The dashboards in the end leave the picker alone.  Nothing makes them do so, and
\* while one polls a picker stays open, one without its scan included.
PollingStops == <>[][~handleBleDevices]_vars

\* The wake scan comes back once nobody polls the picker.
WakeScanResumes ==
    PollingStops /\ <>[](wakeAddrs # <<>>) => <>[](scan = "wake")

\* A picker that nobody polls ends, whatever the web task and the loop task did to
\* each other on the way: one that was opened anew while its end was under way, whose
\* scan went to a wake scan resumed at that moment or whose request was forgotten.
PickerEnds == PollingStops => <>[]~g_pickerActive

\* config.h:42: "Unbind a controller."  One that was removed, and not bound
\* again, is not among those that wake the machine.
UnboundCannotWake == unbound \cap reported(wakeAddrs) = {}

=============================================================================
