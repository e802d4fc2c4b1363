--------------------------- MODULE RetainedState ----------------------------
(***************************************************************************)
(* What the MQTT publisher promises to whoever looks at the brokers: who   *)
(* is shown as online, and what is retained as the machine's state.  There *)
(* is no loop here, no backoff, no detection of changes and no broken      *)
(* connection that goes unnoticed; Mqtt shows that mqttLoop and the code   *)
(* around it implement this.                                               *)
(*                                                                         *)
(* `at` is the broker the device has a connection to that stands, `held`   *)
(* are the brokers that have its last will, `name` is the one it goes by.  *)
(***************************************************************************)

CONSTANTS Brokers, NoBroker, Names, Topics

VARIABLES machine, at, name, held, avail, retained, disc

vars == <<machine, at, name, held, avail, retained, disc>>

Init ==
    /\ machine \in [Topics -> {"ON", "OFF"}]
    /\ at = NoBroker /\ name \in Names /\ held = {}
    /\ avail = [b \in Brokers |-> "unknown"]
    /\ retained = [b \in Brokers |-> [t \in Topics |-> "unknown"]]
    /\ disc = [b \in Brokers |-> "unknown"]

\* The machine is switched, or its board comes up or goes down.
Work ==
    /\ machine' \in [Topics -> {"ON", "OFF"}]
    /\ UNCHANGED <<at, name, held, avail, retained, disc>>

\* One connection at a time.  A broker that still has the will of an earlier one
\* publishes it first.
Join(b) ==
    /\ at = NoBroker
    /\ at' = b
    /\ held' = held \cup {b}
    /\ avail' = IF b \in held THEN [avail EXCEPT ![b] = "offline"] ELSE avail
    /\ UNCHANGED <<machine, name, retained, disc>>

\* Only a device that is there is shown as online, and under its name.
Greet ==
    /\ at # NoBroker
    /\ avail' = [avail EXCEPT ![at] = "online"]
    /\ disc' = [disc EXCEPT ![at] = name]
    /\ UNCHANGED <<machine, at, name, held, retained>>

\* Whatever is published leaves the broker with the state of the machine as it is
\* at that moment, in all its parts, ...
Tell ==
    /\ at # NoBroker
    /\ retained' = [retained EXCEPT ![at] = machine]
    /\ UNCHANGED <<machine, at, name, held, avail, disc>>

\* A broker that is left on purpose shows the device as offline at once.
Leave ==
    /\ at # NoBroker
    /\ at' = NoBroker
    /\ held' = held \ {at}
    /\ avail' = [avail EXCEPT ![at] = "offline"]
    /\ UNCHANGED <<machine, name, retained, disc>>

\* ... unless the connection is lost meanwhile: any of these may be cut short.
CutShort ==
    \/ UNCHANGED <<avail, retained>>
    \/ /\ at # NoBroker
       /\ \E a \in {"online", "offline"} : avail' = [avail EXCEPT ![at] = a]
       /\ UNCHANGED retained
    \/ /\ at # NoBroker
       /\ \E T \in SUBSET Topics :
             retained' = [retained EXCEPT ![at] =
                             [t \in Topics |-> IF t \in T THEN machine[t] ELSE @[t]]]
       /\ UNCHANGED avail

\* A connection that is lost, for instance by a reset, leaves its will behind; a
\* device that is nowhere may take another name.
Lose ==
    /\ at' = NoBroker
    /\ name' \in Names
    /\ CutShort
    /\ UNCHANGED <<machine, held, disc>>

\* A broker publishes the will only of a device that is not there.
Will(b) ==
    /\ b \in held \ {at}
    /\ held' = held \ {b}
    /\ avail' = [avail EXCEPT ![b] = "offline"]
    /\ UNCHANGED <<machine, at, name, retained, disc>>

Next == Work \/ Greet \/ Tell \/ Leave \/ Lose \/ \E b \in Brokers : Join(b) \/ Will(b)

Spec == Init /\ [][Next]_vars

=============================================================================
