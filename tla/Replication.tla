---------------------------- MODULE Replication ----------------------------
(***************************************************************************)
(* The pull session (net/src/session.rs) between repositories that hold    *)
(* logs and content: handshake and pinned keys, the operation phase with   *)
(* its summaries and batches, the content phase with its budget, the       *)
(* connection that may break at any time.  A puller's step and the         *)
(* responder's answer are separate actions, and the responder answers from *)
(* what it holds when the request arrives.                                 *)
(*                                                                         *)
(* An operation is its id here; what applying one does to the namespace is *)
(* Core.  A blob is a number, and the order of numbers is that of hashes.  *)
(***************************************************************************)
EXTENDS ClockSummary, FiniteSetsExt

CONSTANTS Node,         \* devices that run a repository
          Peers,        \* net.peers: whom each of them pulls from
          InitLog,      \* what each holds at the start
          InitBlobs,
          MaxOwn,       \* bound: operations a device issues
          Refused,      \* pairs <<device, operation>>: apply_op fails its checks
          Blob, Size,   \* content, and how long each blob is
          Needs,        \* the blobs a write waits for; {} for other operations
          Corrupt,      \* pairs <<device, blob>>: served bytes that miss their hash
          Batch,        \* OPS_BATCH
          BlobBatch,    \* BLOB_BATCH_BYTES
          MaxPerSession,\* MAX_OPS_PER_SESSION
          Limits,       \* the SyncLimits a pass may be given
          Tofu,         \* devices that pin an unknown peer
          Version,      \* PROTOCOL_VERSION of each device's build
          MaxKey,       \* bound: identities a device goes through
          MaxFaults     \* bound: broken connections

ASSUME ReplicationAssumption ==
  /\ Node \subseteq Author
  /\ Peers \in [Node -> SUBSET Node]
  /\ InitLog \in [Node -> SUBSET OpId]
  /\ InitBlobs \in [Node -> SUBSET Blob]
  /\ Refused \subseteq Node \X OpId
  /\ \A n \in Node : \A o \in InitLog[n] : <<n, o>> \notin Refused
  /\ \A n \in Node : \E k \in 0 .. MaxCounter : CountersOf(InitLog[n], n) = 1 .. k
  /\ \A n, m \in Node : \A o \in InitLog[m] : o[1] = n => o \in InitLog[n]
  /\ Blob \subseteq Nat /\ IsFiniteSet(Blob)
  /\ Size \in [Blob -> Nat \ {0}]
  /\ Needs \in [OpId -> SUBSET Blob]
  /\ {Batch, BlobBatch, MaxKey} \subseteq Nat \ {0}
  /\ MaxOwn \in 0 .. MaxCounter
  /\ {MaxPerSession, MaxFaults} \subseteq Nat
  /\ Limits \subseteq [content : BOOLEAN, max : Nat]
  /\ Version \in [Node -> Nat]

VARIABLES log,     \* op/ keys of each repository
          blobs,   \* its content store
          key,     \* the identity it presents
          pinned,  \* peer/key/ entries; 0 is "none"
          sess,    \* the pull it is making
          faults

vars == <<log, blobs, key, pinned, sess, faults>>

NoSummary == [mark |-> [d \in Author |-> 0], above |-> [d \in Author |-> {}]]

NoLimits == [content |-> FALSE, max |-> 0]

\* ops and more hold the reply being handled; want, the hashes asked for.
\* seen is what the responder held when it answered the last Have.
Idle ==
  [st |-> "idle", peer |-> 0, key |-> 0, lim |-> NoLimits, sum |-> NoSummary,
   ops |-> {}, more |-> FALSE, got |-> 0, bytes |-> 0, want |-> {}, put |-> {},
   seen |-> {}, end |-> "open"]

Stages == {"idle", "hello", "acked", "have", "batch", "ops", "content", "want", "blobs", "done"}

Session ==
  [st : Stages, peer : Node \cup {0}, key : 0 .. MaxKey,
   lim : Limits \cup {NoLimits}, sum : Summary, ops : SUBSET OpId, more : BOOLEAN,
   got : 0 .. MaxPerSession, bytes : Nat, want : SUBSET Blob, put : SUBSET Blob,
   seen : SUBSET OpId, end : {"open", "whole", "stuck"}]

Init ==
  /\ log = InitLog
  /\ blobs = InitBlobs
  /\ key = [n \in Node |-> 1]
  /\ pinned = [n \in Node |-> [m \in Node |-> 0]]
  /\ sess = [n \in Node |-> Idle]
  /\ faults = 0

-----------------------------------------------------------------------------
(* What a node does by itself *)

\* A local write: content first, then the operation.
Issue(n) ==
  LET o == <<n, Cardinality(CountersOf(log[n], n)) + 1>> IN
  /\ o[2] <= MaxOwn
  /\ log' = [log EXCEPT ![n] = @ \cup {o}]
  /\ blobs' = [blobs EXCEPT ![n] = @ \cup Needs[o]]
  /\ UNCHANGED <<key, pinned, sess, faults>>

\* A device that lost its identity file comes back with another key.
NewIdentity(n) ==
  /\ sess[n].st = "idle"
  /\ key[n] < MaxKey
  /\ key' = [key EXCEPT ![n] = @ + 1]
  /\ UNCHANGED <<log, blobs, pinned, sess, faults>>

\* The operator: enrol with --rotate, and revoke.
Rotate(n, m) ==
  /\ m # n
  /\ pinned[n][m] # key[m]
  /\ pinned' = [pinned EXCEPT ![n][m] = key[m]]
  /\ UNCHANGED <<log, blobs, key, sess, faults>>

Revoke(n, m) ==
  /\ pinned[n][m] # 0
  /\ pinned' = [pinned EXCEPT ![n][m] = 0]
  /\ UNCHANGED <<log, blobs, key, sess, faults>>

-----------------------------------------------------------------------------
(* Handshake *)

\* Variant: first use wins over the pinned key.
AuthorizedByTofu(n, m, k) == pinned[n][m] = k \/ n \in Tofu

\* trust.rs: a known key passes, a different one never, an unknown one is
\* pinned under trust on first use.
Authorized(n, m, k) == pinned[n][m] = k \/ (pinned[n][m] = 0 /\ n \in Tofu)

authorize(n, m, k) ==
  /\ Authorized(n, m, k)
  /\ pinned' = [pinned EXCEPT ![n][m] = k]

Dial(n, m) ==
  /\ m \in Peers[n] \ {n}
  /\ sess[n].st = "idle"
  /\ \E lim \in Limits :
       sess' = [sess EXCEPT ![n] = [Idle EXCEPT !.st = "hello", !.peer = m,
                                               !.key = key[n], !.lim = lim]]
  /\ UNCHANGED <<log, blobs, key, pinned, faults>>

\* The responder accepts, and presents its own key in the acknowledgement.
AcceptHello(n) ==
  LET m == sess[n].peer IN
  /\ sess[n].st = "hello"
  /\ Version[n] = Version[m]
  /\ authorize(m, n, sess[n].key)
  /\ sess' = [sess EXCEPT ![n].st = "acked", ![n].key = key[m]]
  /\ UNCHANGED <<log, blobs, key, faults>>

\* It refuses: the puller's verify_hello_ack fails and the session is over.
RefuseHello(n) ==
  LET m == sess[n].peer IN
  /\ sess[n].st = "hello"
  /\ Version[n] # Version[m] \/ ~Authorized(m, n, sess[n].key)
  /\ sess' = [sess EXCEPT ![n] = Idle]
  /\ UNCHANGED <<log, blobs, key, pinned, faults>>

\* Variant: what was offered counts as held.
SendHaveOffered(n) ==
  sess' = [sess EXCEPT ![n].st = "have", ![n].sum = clock_summary(log[n] \cup sess[n].seen),
                       ![n].ops = {}, ![n].more = FALSE]

SendHave(n) ==
  sess' = [sess EXCEPT ![n].st = "have", ![n].sum = clock_summary(log[n]),
                       ![n].ops = {}, ![n].more = FALSE]

TakeAck(n) ==
  /\ sess[n].st = "acked"
  /\ authorize(n, sess[n].peer, sess[n].key)
  /\ SendHave(n)
  /\ UNCHANGED <<log, blobs, key, faults>>

RejectAck(n) ==
  /\ sess[n].st = "acked"
  /\ ~Authorized(n, sess[n].peer, sess[n].key)
  /\ sess' = [sess EXCEPT ![n] = Idle]
  /\ UNCHANGED <<log, blobs, key, pinned, faults>>

-----------------------------------------------------------------------------
(* Operation phase *)

\* Variant: a full batch is taken for the last one.
IsMoreBeyond(ops) == Cardinality(ops) > Batch

IsMore(ops) == Cardinality(ops) = Batch

AnswerHave(n) ==
  LET m   == sess[n].peer
      ops == ops_missing_for(log[m], sess[n].sum, Batch) IN
  /\ sess[n].st = "have"
  /\ sess' = [sess EXCEPT ![n].st = "batch", ![n].ops = ops, ![n].more = IsMore(ops),
                          ![n].seen = log[m]]
  /\ UNCHANGED <<log, blobs, key, pinned, faults>>

\* Variant: nothing bounds what a peer may send in one session.
TakeBatchUnbounded(n) ==
  /\ sess[n].st = "batch"
  /\ sess' = [sess EXCEPT ![n].st = "ops", ![n].got = @ + Cardinality(sess[n].ops)]
  /\ UNCHANGED <<log, blobs, key, pinned, faults>>

TakeBatch(n) ==
  LET got == sess[n].got + Cardinality(sess[n].ops) IN
  /\ sess[n].st = "batch"
  /\ sess' = IF got > MaxPerSession
               THEN [sess EXCEPT ![n] = Idle]
               ELSE [sess EXCEPT ![n].st = "ops", ![n].got = got]
  /\ UNCHANGED <<log, blobs, key, pinned, faults>>

\* Variant: a refused operation is kept all the same.
KeepsAll(n, o) == TRUE

\* verify_op and check_proof, which come before anything is stored.
Keeps(n, o) == <<n, o>> \notin Refused

\* One apply_op of the batch; a refused one leaves no trace.
ApplyNext(n) ==
  LET o == NextOp(sess[n].ops) IN
  /\ sess[n].st = "ops"
  /\ sess[n].ops # {}
  /\ log' = IF Keeps(n, o) THEN [log EXCEPT ![n] = @ \cup {o}] ELSE log
  /\ sess' = [sess EXCEPT ![n].ops = @ \ {o}]
  /\ UNCHANGED <<blobs, key, pinned, faults>>

NoProgress(n) == clock_summary(log[n]) = sess[n].sum

EndBatch(n) ==
  /\ sess[n].st = "ops"
  /\ sess[n].ops = {}
  /\ \/ /\ ~sess[n].more
        /\ sess' = [sess EXCEPT ![n].st = "content", ![n].end = "whole"]
     \/ /\ sess[n].more /\ NoProgress(n)
        /\ sess' = [sess EXCEPT ![n].st = "content", ![n].end = "stuck"]
     \/ /\ sess[n].more /\ ~NoProgress(n)
        /\ SendHave(n)
  /\ UNCHANGED <<log, blobs, key, pinned, faults>>

-----------------------------------------------------------------------------
(* Content phase *)

\* The length of a set of blobs, counted byte by byte: a byte is a blob and a
\* position in it.
SizeOf(S) == Cardinality(UNION {{b} \X (1 .. Size[b]) : b \in S})

missing_chunk_hashes(n) == (UNION {Needs[o] : o \in log[n]}) \ blobs[n]

AskContent(n) ==
  LET wanted == missing_chunk_hashes(n)
      spent  == sess[n].bytes >= sess[n].lim.max IN
  /\ sess[n].st = "content"
  /\ sess' = IF wanted = {} \/ ~sess[n].lim.content \/ spent
               THEN [sess EXCEPT ![n].st = "done", ![n].want = {}]
               ELSE [sess EXCEPT ![n].st = "want", ![n].want = wanted]
  /\ UNCHANGED <<log, blobs, key, pinned, faults>>

\* Variant: the request forgets what the pass has already spent.
ContentCapWhole(s) == Min({BlobBatch, s.lim.max})

\* max_bytes of the request, and what the responder adds of its own.
ContentCap(s) == Min({BlobBatch, s.lim.max - s.bytes})

\* Whether the responder, walking the hashes in order, reaches b under the cap.
Reached(held, b, cap) == SizeOf({a \in held : a < b}) < cap

AnswerWant(n) ==
  LET held == sess[n].want \cap blobs[sess[n].peer]
      cap  == ContentCap(sess[n]) IN
  /\ sess[n].st = "want"
  /\ sess' = [sess EXCEPT ![n].st = "blobs",
                          ![n].put = {b \in held : Reached(held, b, cap)},
                          ![n].more = \E b \in sess[n].want : ~Reached(held, b, cap)]
  /\ UNCHANGED <<log, blobs, key, pinned, faults>>

\* Bytes are kept only under the hash they have.
TakeBlobs(n) ==
  LET good == {b \in sess[n].put : <<sess[n].peer, b>> \notin Corrupt} IN
  /\ sess[n].st = "blobs"
  /\ blobs' = [blobs EXCEPT ![n] = @ \cup good]
  /\ sess' = [sess EXCEPT ![n].st = IF sess[n].more /\ good # {} THEN "content" ELSE "done",
                          ![n].bytes = @ + SizeOf(good),
                          ![n].put = {}, ![n].more = FALSE]
  /\ UNCHANGED <<log, key, pinned, faults>>

Bye(n) ==
  /\ sess[n].st = "done"
  /\ sess' = [sess EXCEPT ![n] = Idle]
  /\ UNCHANGED <<log, blobs, key, pinned, faults>>

\* The connection breaks or SYNC_ATTEMPT_TIMEOUT passes.
Break(n) ==
  /\ sess[n].st # "idle"
  /\ faults < MaxFaults
  /\ faults' = faults + 1
  /\ sess' = [sess EXCEPT ![n] = Idle]
  /\ UNCHANGED <<log, blobs, key, pinned>>

Step(n) ==
  \/ AcceptHello(n) \/ RefuseHello(n) \/ TakeAck(n) \/ RejectAck(n)
  \/ AnswerHave(n) \/ TakeBatch(n) \/ ApplyNext(n) \/ EndBatch(n)
  \/ AskContent(n) \/ AnswerWant(n) \/ TakeBlobs(n) \/ Bye(n)

Next ==
  \E n \in Node :
    \/ Issue(n) \/ NewIdentity(n) \/ Step(n) \/ Break(n)
    \/ \E m \in Node : Dial(n, m) \/ Rotate(n, m) \/ Revoke(n, m)

Spec == Init /\ [][Next]_vars

\* sync_loop calls every peer again and again, and a session runs on.
Fairness ==
  \A n \in Node :
    /\ WF_vars(Step(n))
    /\ \A m \in Peers[n] : SF_vars(Dial(n, m))

FairSpec == Spec /\ Fairness
-----------------------------------------------------------------------------
(* Properties *)

TypeOK ==
  /\ log \in [Node -> SUBSET OpId]
  /\ blobs \in [Node -> SUBSET Blob]
  /\ key \in [Node -> 1 .. MaxKey]
  /\ pinned \in [Node -> [Node -> 0 .. MaxKey]]
  /\ sess \in [Node -> Session]
  /\ faults \in 0 .. MaxFaults

\* A summary on its way claims nothing its sender lacks, also when the log
\* has gaps, the list above the gap is cut, or the log grew meanwhile
\* (clock_summary): an operation that is claimed is never sent.
SummarySound == \A n \in Node : Claimed(sess[n].sum) \subseteq log[n]

\* When the operation phase of pull_from_peer ends on a reply without `more`,
\* the puller holds everything the responder held when it gave that reply,
\* except what it refuses.
PullWhole ==
  \A n \in Node :
    sess[n].end = "whole" => \A o \in sess[n].seen : o \in log[n] \/ <<n, o>> \in Refused

\* A repository that answers a notification with "not behind" (is_behind)
\* holds every operation the notification's summary names.
NotBehindHoldsAll ==
  \A n, m \in Node :
    ~is_behind(log[n], clock_summary(log[m])) => Claimed(clock_summary(log[m])) \subseteq log[n]

\* A pass takes more content than its ceiling by less than one blob: puller
\* and responder each check the budget before a blob, not after it.
BudgetHeld ==
  \A n \in Node :
    sess[n].bytes > 0 => \E b \in Blob : sess[n].bytes < sess[n].lim.max + Size[b]

\* A pinned key is replaced only by the operator's rotation.  No handshake
\* does it, whatever the policy and whichever side pinned first (authorize).
PinKept ==
  [][\A n, m \in Node :
       pinned[n][m] # 0 /\ pinned'[n][m] \notin {0, pinned[n][m]} => Rotate(n, m)]_vars

Trusts(n, m) == Authorized(n, m, key[m]) /\ Authorized(m, n, key[n])

\* Operations always flow: a device that goes on trusting its peer, and being
\* trusted by it, ends up with every operation of the peer it does not refuse,
\* whatever the passes may transfer of content, and past refused operations.
OpsFlow ==
  \A n \in Node : \A m \in Peers[n] :
    <>[]Trusts(n, m) => <>[](\A o \in log[m] : o \in log[n] \/ <<n, o>> \in Refused)

Abstract == INSTANCE Exchange WITH Op <- OpId

\* The session implements Exchange: nothing is invented, lost or taken
\* against a refusal, at any point of a session that may break.
ImplementsExchange == Abstract!Spec
=============================================================================
