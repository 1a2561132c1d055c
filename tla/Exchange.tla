------------------------------ MODULE Exchange ------------------------------
(***************************************************************************)
(* What replication promises about logs, without saying how: a log only    *)
(* grows, by operations its own device issues and by operations another    *)
(* log already holds, and a device never takes one it refuses.             *)
(***************************************************************************)
CONSTANTS Node,     \* devices that run a repository
          Op,       \* operation ids, <<device, counter>>
          Refused   \* pairs <<device, operation>>

VARIABLE log

Issued(n, o) ==
  /\ o[1] = n
  /\ \A m \in Node : o \notin log[m]
  /\ log' = [log EXCEPT ![n] = @ \cup {o}]

Taken(n, m, o) ==
  /\ o \in log[m]
  /\ <<n, o>> \notin Refused
  /\ log' = [log EXCEPT ![n] = @ \cup {o}]

Next ==
  \E n \in Node :
    \/ \E o \in Op : Issued(n, o)
    \/ \E m \in Node, o \in Op : Taken(n, m, o)

Spec == [][Next]_log
=============================================================================
