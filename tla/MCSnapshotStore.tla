--------------------------- MODULE MCSnapshotStore --------------------------
(* A small instance of SnapshotStore for TLC. *)
EXTENDS SnapshotStore

MCOrders == {"first", "second"}
MCBlobs == {1, 2}
MCTrees == {3}

\* Both orders need blob 1; the first hands blob 2 back.
MCNeeds == [o \in MCOrders |-> {1}]
MCTreeOf == [o \in MCOrders |-> 3]
MCOutputs == [o \in MCOrders |-> IF o = "first" THEN {2} ELSE {}]

MCSize == [e \in 1 .. 3 |-> 1]
MCZstSize == [e \in 1 .. 3 |-> IF e = 3 THEN 0 ELSE 1]

\* The second configuration asks for a grace period above the default hard limit and
\* a hard limit below it, so it ends with a hard limit that is the shorter one.
MCConfigured == {[grace |-> 1, hard |-> 0], [grace |-> 3, hard |-> 1]}

\* Blob 1 is past either limit, blob 2 past a grace period of 1.
MCStock == [e \in {1, 2} |-> IF e = 1 THEN -2 ELSE -1]

=============================================================================
