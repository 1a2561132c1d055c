------------------------------ MODULE MCDaemon ------------------------------
(* An instance of Daemon for TLC.  Device 1 writes, and device 2 runs on a *)
(* battery or a tether.  Device 3 is gone: both know of a write of it      *)
(* without the content, and device 2 still has its address.                *)
EXTENDS Daemon, TLC

PeersOf == (1 :> <<2>>) @@ (2 :> <<3, 1>>)

HeldAtStart == [n \in Node |-> [w \in Author |-> IF w = 3 THEN 1 ELSE 0]]

WritesOf == (1 :> 2) @@ (2 :> 0) @@ (3 :> 1)

Thresholds == from_config(20, 70, 10)

\* A mains supply that is read, a cool machine, an unread disk.
Plugged == [supplies |-> {[kind |-> "mains", on |-> TRUE, pct |-> Unknown]},
            zones |-> {40, 50}, free |-> Unknown,
            routes |-> {[metric |-> 1, metered |-> "unmetered"]}]

\* In the band above the low threshold.
Draining == [Plugged EXCEPT !.supplies = {[kind |-> "battery", on |-> TRUE, pct |-> 30]}]

Critical == [Plugged EXCEPT !.supplies = {[kind |-> "battery", on |-> TRUE, pct |-> 5]},
                            !.free = 11]

\* The same charge behind a metered link, and a hot machine on its last room.
Tethered == [Critical EXCEPT !.routes = @ \cup {[metric |-> 0, metered |-> "metered"]}]

Hot == [Draining EXCEPT !.zones = {40, 75}, !.free = 10]

HostsOf == (1 :> {Plugged}) @@ (2 :> {Draining, Critical, Tethered, Hot})

Detected == [n \in Node |-> Unknown]
=============================================================================
