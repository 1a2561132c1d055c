--------------------------- MODULE MCReplication ---------------------------
(* Instances of Replication for TLC.                                       *)
EXTENDS Replication, TLC

\* Device 3 is known only through its operations, which device 2 holds.
\* It refused the first of them, and device 1 will refuse the second.
LogAtTwo == (1 :> {}) @@ (2 :> {<<3, c>> : c \in 2 .. MaxCounter})

BlobsAtTwo == (1 :> {}) @@ (2 :> Blob)

OnePulls == (1 :> {2}) @@ (2 :> {})

TwoRefusals == {<<1, <<3, 2>>>>, <<2, <<3, 1>>>>}

OneByte == [b \in Blob |-> 1]

\* Blob 4 is longer than one batch.
Uneven == [b \in Blob |-> IF b = 4 THEN 3 ELSE 1]

TwoWrites == (<<3, 3>> :> {1, 2, 3}) @@ (<<3, 4>> :> {4, 5}) @@ [o \in OpId |-> {}]

NoNeeds == [o \in OpId |-> {}]

MetadataOnly == [content |-> FALSE, max |-> 0]

Capped == [content |-> TRUE, max |-> 3]

Budgets == {MetadataOnly, Capped}

OneCorrupt == {<<2, 5>>}

Nothing == {}

SameVersion == [n \in Node |-> 4]
=============================================================================
