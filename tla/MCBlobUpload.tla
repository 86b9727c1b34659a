---------------------------- MODULE MCBlobUpload ----------------------------
(* Small instances of BlobUpload for TLC. *)
EXTENDS BlobUpload

TwoClients == {"alice", "bob"}

\* The same bytes, sent raw by one client and compressed by the other.
MCStreamOf == [u \in TwoClients |->
                IF u = "alice" THEN [encoding |-> "raw", size |-> 3]
                ELSE [encoding |-> "zstd", size |-> 2]]

\* A lone client meets two faults, in any order and of any kinds.
LoneFaults == [n \in 0 .. 2 |-> IF n = 1 THEN 2 ELSE 0]

=============================================================================
