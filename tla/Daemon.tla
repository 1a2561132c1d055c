------------------------------- MODULE Daemon -------------------------------
(***************************************************************************)
(* The tasks of a daemon (nexusfs/src/daemon.rs, net/src/peers.rs): the    *)
(* call that writes, the task that tells peers about it, and the loop that *)
(* pulls under the energy gate.                                            *)
(*                                                                         *)
(* A session is one step here; Replication has its steps, and trust.       *)
(* Sleeps end at some time.  Operations of one author arrive in order,     *)
(* each overwrites that author's file, and its content is one unit.  The   *)
(* peer registry, which only reports, is left out.                         *)
(***************************************************************************)
EXTENDS Energy, Sequences

CONSTANTS Node,         \* daemons: the devices they run on
          Author,       \* devices that wrote something
          Peers,        \* net.peers in configured order; not all are daemons
          InitHeld,     \* operations held at the start, per node and author
          MaxWrites,    \* bound: operations of each author
          Hosts,        \* what each device's surroundings may be
          Stated,       \* energy.link_cost, Unknown when it is to be detected
          Limit,        \* the thresholds, from_config(...)
          Enabled,      \* energy.enabled
          Charges, Lows \* charges, and battery_low_pct settings, looked at

ASSUME DaemonAssumption ==
  /\ Node \subseteq Author
  /\ Peers \in [Node -> Seq(Author) \ {<<>>}]
  /\ InitHeld \in [Node -> [Author -> Nat]]
  /\ MaxWrites \in [Author -> Nat]
  /\ \A n \in Node, w \in Author : InitHeld[n][w] <= MaxWrites[w]
  /\ Charges \subseteq Nat /\ Lows \subseteq Nat
  /\ Limit.reserve \in Nat
  /\ \A n \in Node : \A h \in Hosts[n] : h.free \in Nat \cup {Unknown}

VARIABLES serving,  \* daemons whose endpoint could be opened
          held,     \* operations of each author a node holds: the first so many
          content,  \* units <<author, k>> it holds
          host,     \* its surroundings
          writing,  \* an operation was applied and is still to be announced
          chan,     \* messages in the channel of capacity one
          teller,   \* the task that notifies
          loop      \* sync_loop

vars == <<serving, held, content, host, writing, chan, teller, loop>>

Unit == UNION {{w} \X (1 .. MaxWrites[w]) : w \in Author}

\* Parked writes of these operations: without content, and not overwritten
\* by one that has it.
Parked(ops, units) ==
  {u \in Unit : /\ u[2] <= ops[u[1]]
                /\ \A k \in u[2] .. ops[u[1]] : <<u[1], k>> \notin units}

missing_chunk_hashes(n) == Parked(held[n], content[n])

Silent == [at |-> "recv", sum |-> [w \in Author |-> 0], todo |-> <<>>]

Waiting == [at |-> "decide", dec |-> unlimited, todo |-> <<>>]

Init ==
  /\ serving \in SUBSET Node
  /\ held = InitHeld
  /\ content = [n \in Node |-> {n} \X (1 .. InitHeld[n][n])]
  /\ host \in {h \in [Node -> UNION {Hosts[n] : n \in Node}] : \A n \in Node : h[n] \in Hosts[n]}
  /\ writing = [n \in Node |-> FALSE]
  /\ chan = [n \in Node |-> 0]
  /\ teller = [n \in Node |-> Silent]
  /\ loop = [n \in Node |-> Waiting]

-----------------------------------------------------------------------------
(* Surroundings *)

Change(n) ==
  /\ \E h \in Hosts[n] \ {host[n]} : host' = [host EXCEPT ![n] = h]
  /\ UNCHANGED <<serving, held, content, writing, chan, teller, loop>>

-----------------------------------------------------------------------------
(* A local write: applied and durable, then announced *)

apply_local(n) ==
  LET k == held[n][n] + 1 IN
  /\ ~writing[n]
  /\ k <= MaxWrites[n]
  /\ held' = [held EXCEPT ![n][n] = k]
  /\ content' = [content EXCEPT ![n] = @ \cup {<<n, k>>}]
  /\ writing' = [writing EXCEPT ![n] = TRUE]
  /\ UNCHANGED <<serving, host, chan, teller, loop>>

\* Variant: send instead of try_send, which waits for room.
announce_blocking(n) ==
  /\ writing[n] /\ chan[n] = 0
  /\ writing' = [writing EXCEPT ![n] = FALSE]
  /\ chan' = [chan EXCEPT ![n] = 1]
  /\ UNCHANGED <<serving, held, content, host, teller, loop>>

\* try_send: a message that finds the channel full is dropped.
announce_local_op(n) ==
  /\ writing[n]
  /\ writing' = [writing EXCEPT ![n] = FALSE]
  /\ chan' = [chan EXCEPT ![n] = 1]
  /\ UNCHANGED <<serving, held, content, host, teller, loop>>

-----------------------------------------------------------------------------
(* Telling peers *)

Receive(n) ==
  /\ n \in serving
  /\ teller[n].at = "recv" /\ chan[n] = 1
  /\ chan' = [chan EXCEPT ![n] = 0]
  /\ teller' = [teller EXCEPT ![n].at = "debounce"]
  /\ UNCHANGED <<serving, held, content, host, writing, loop>>

\* NOTIFY_DEBOUNCE is over; what came meanwhile is the same message.
Drain(n) ==
  /\ teller[n].at = "debounce"
  /\ chan' = [chan EXCEPT ![n] = 0]
  /\ teller' = [teller EXCEPT ![n].at = "drained"]
  /\ UNCHANGED <<serving, held, content, host, writing, loop>>

Summarise(n) ==
  /\ teller[n].at = "drained"
  /\ teller' = [teller EXCEPT ![n] = [at |-> "tell", sum |-> held[n], todo |-> Peers[n]]]
  /\ UNCHANGED <<serving, held, content, host, writing, chan, loop>>

is_behind(m, sum) == \E w \in Author : held[m][w] < sum[w]

Told(t) == IF Len(t.todo) = 1 THEN Silent ELSE [t EXCEPT !.todo = Tail(@)]

\* notify_waiters: only a loop that is waiting is woken.
Woken(m, sum) ==
  IF m \in serving /\ is_behind(m, sum) /\ loop[m].at = "nap"
    THEN [loop EXCEPT ![m].at = "woken"] ELSE loop

\* Variant: the channel is drained after the peers were told.
notify_then_drain(n) ==
  /\ teller[n].at = "tell"
  /\ teller' = [teller EXCEPT ![n] = Told(@)]
  /\ loop' \in {loop, Woken(Head(teller[n].todo), teller[n].sum)}
  /\ chan' = [chan EXCEPT ![n] = 0]
  /\ UNCHANGED <<serving, held, content, host, writing>>

\* One peer; one that is not reached finds out by its own poll.
notify_one(n) ==
  /\ teller[n].at = "tell"
  /\ teller' = [teller EXCEPT ![n] = Told(@)]
  /\ loop' \in {loop, Woken(Head(teller[n].todo), teller[n].sum)}
  /\ UNCHANGED <<serving, held, content, host, writing, chan>>

-----------------------------------------------------------------------------
(* The sync loop *)

\* EnergyGate.decide: one reading, and the backlog as it is now.
decide(n) ==
  plan(Enabled, Limit, sample_with(host[n], Stated[n]), Cardinality(missing_chunk_hashes(n)))

\* The decision comes before the nap it stretches.
Decide(n) ==
  /\ n \in serving
  /\ loop[n].at = "decide"
  /\ loop' = [loop EXCEPT ![n].at = "nap", ![n].dec = decide(n)]
  /\ UNCHANGED <<serving, held, content, host, writing, chan, teller>>

\* The nap is over, or a notification cut it short and the floor has passed.
Proceed(n) ==
  /\ loop[n].at \in {"nap", "woken"}
  /\ loop' = IF loop[n].dec.sync
               THEN [loop EXCEPT ![n].at = "pass", ![n].todo = Peers[n]]
               ELSE [loop EXCEPT ![n] = Waiting]
  /\ UNCHANGED <<serving, held, content, host, writing, chan, teller>>

\* Variant: a pass without content brings no operations either.
OpsAfterFullPass(n, m) ==
  IF loop[n].dec.content
    THEN [w \in Author |-> Max({held[n][w], held[m][w]})] ELSE held[n]

\* Operations move whatever the budget says of content.
OpsAfter(n, m) == [w \in Author |-> Max({held[n][w], held[m][w]})]

Offered(n, m) == Parked(OpsAfter(n, m), content[n]) \cap content[m]

\* Variant: nothing moves unless the budget covers it all.
TransfersWhole(n, m) ==
  IF loop[n].dec.content /\ Cardinality(Offered(n, m)) <= loop[n].dec.max
    THEN {Offered(n, m)} ELSE {{}}

\* As much as the budget covers, in an order that says nothing about units.
Transfers(n, m) ==
  IF loop[n].dec.content
    THEN kSubset(Min({loop[n].dec.max, Cardinality(Offered(n, m))}), Offered(n, m)) ELSE {{}}

PeerNodes(n) == Node \cap {Peers[n][i] : i \in DOMAIN Peers[n]}

NextPeer(n) ==
  loop' = [loop EXCEPT ![n] = IF Len(@.todo) = 1 THEN Waiting ELSE [@ EXCEPT !.todo = Tail(@)]]

\* One peer of the pass answers.
sync_once(n, m) ==
  /\ loop[n].at = "pass" /\ Head(loop[n].todo) = m
  /\ m \in serving
  /\ held' = [held EXCEPT ![n] = OpsAfter(n, m)]
  /\ \E T \in Transfers(n, m) : content' = [content EXCEPT ![n] = @ \cup T]
  /\ NextPeer(n)
  /\ UNCHANGED <<serving, host, writing, chan, teller>>

\* It does not: the error is recorded and the pass goes on.
SyncFails(n) ==
  /\ loop[n].at = "pass"
  /\ NextPeer(n)
  /\ UNCHANGED <<serving, held, content, host, writing, chan, teller>>

Teller(n) == Receive(n) \/ Drain(n) \/ Summarise(n) \/ notify_one(n)

sync_loop(n) ==
  Decide(n) \/ Proceed(n) \/ (\E m \in PeerNodes(n) : sync_once(n, m)) \/ SyncFails(n)

Next ==
  \E n \in Node :
    \/ Change(n) \/ apply_local(n) \/ announce_local_op(n) \/ Teller(n) \/ sync_loop(n)

Writers == {n \in Node : MaxWrites[n] > 0}

\* Started tasks run on, sleeps end, and a peer that is called again and
\* again answers at some time.
Fairness ==
  /\ \A n \in Writers : WF_vars(announce_local_op(n)) /\ WF_vars(Teller(n))
  /\ \A n \in Node : WF_vars(sync_loop(n)) /\ \A m \in PeerNodes(n) : SF_vars(sync_once(n, m))

Spec == Init /\ [][Next]_vars /\ Fairness
-----------------------------------------------------------------------------
(* Properties *)

Telemetry(n) == sample_with(host[n], Stated[n])

Budgeted(low, tel, missing) == plan(TRUE, from_config(low, Limit.temp, Limit.reserve), tel, missing)

\* What stops content at any charge.
Walled(tel) == TooHot(Limit, tel) \/ tel.link = "metered" \/ tel.free \in 0 .. Limit.reserve

Ladder(tel, low, missing) ==
  LET B == [c \in Charges |-> Budgeted(low, [tel EXCEPT !.pct = c], missing)] IN
  \A p, q \in Charges :
    /\ p <= q => Within(B[p], B[q])
    /\ p > low => B[p].sync /\ (B[p].content \/ Walled(tel))

\* Whatever the configured low threshold, which nothing validates: less charge
\* never allows more, and a charge above the threshold never stops operations
\* or, but for heat, the link and the disk, content (Thresholds::from_config,
\* grade).
LadderOrdered ==
  \A n \in Node, low \in Lows, missing \in {0, 1} :
    loop[n].at = "decide" => Ladder([Telemetry(n) EXCEPT !.power = "battery"], low, missing)

\* The readings left when one probe fails.
Blinded(tel) ==
  {[tel EXCEPT !.power = "unknown"], [tel EXCEPT !.temp = Unknown],
   [tel EXCEPT !.link = Unknown], [tel EXCEPT !.free = Unknown]}

\* Heat or a metered link hides a charge at which the device would pause.
PauseHidden(tel) ==
  /\ TooHot(Limit, tel) \/ tel.link = "metered"
  /\ tel.power = "battery" /\ tel.pct # Unknown /\ tel.pct <= Limit.critical

\* A source, temperature, link or disk that cannot be read never narrows the
\* budget (sample_with, grade, limit_to_headroom): a host where a probe fails
\* does at least what it would do with any reading.  The one exception is a
\* charge that is critical: heat and a metered link are graded before it, so a
\* device that is hot or tethered pulls operations where it would pause.
UnknownNeverNarrows ==
  \A n \in Node, missing \in {0, 1} :
    loop[n].at = "decide" /\ ~PauseHidden(Telemetry(n)) =>
      \A blind \in Blinded(Telemetry(n)) :
        Within(plan(TRUE, Limit, Telemetry(n), missing), plan(TRUE, Limit, blind, missing))

\* The channel of one and the debounce lose no news: every write of a serving
\* node is in a summary the node sets out to send, if not its own then a later
\* one.
Announced ==
  \A n \in Node : \A k \in InitHeld[n][n] + 1 .. MaxWrites[n] :
    n \in serving /\ writing[n] /\ held[n][n] = k
      ~> teller[n].at = "tell" /\ teller[n].sum[n] >= k

\* A write returns, also when replication could not start and nothing takes
\* messages out of the channel (LocalOpChannel).
WritesReturn == \A n \in Writers : writing[n] ~> ~writing[n]

\* Wake-ups may be lost (notify_waiters, a peer not reached), but the poll brings every
\* operation of a serving peer, unless the gate pauses again and again.
Arrives ==
  \A n \in Node : \A m \in PeerNodes(n) :
    /\ {n, m} \subseteq serving
    /\ <>[](decide(n).sync)
    => <>[](\A w \in Author : held[n][w] >= held[m][w])

\* Content is deferred, not dropped: a node whose gate goes on allowing some
\* ends up with all of it a serving peer has and that its parked writes need.
ContentArrives ==
  \A n \in Node : \A m \in PeerNodes(n) :
    /\ {n, m} \subseteq serving
    /\ <>[](decide(n).content /\ decide(n).max > 0)
    => <>[](Offered(n, m) = {})
=============================================================================
